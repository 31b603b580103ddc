-------------------------- MODULE HttpServerProofs --------------------------
(***************************************************************************)
(* Proofs, for any number of workers, connections and requests and any     *)
(* keep-alive limit, that the answers of a connection are those of its     *)
(* requests, and that the queue of sockets, the workers and the listener   *)
(* of the HTTP library implement the task pool of the scanners.            *)
(***************************************************************************)
EXTENDS HttpServer, SequenceTheorems, FiniteSetTheorems, TLAPS

AllKinds == {"get", "post", "stream", "unknown", "throws"}
Tokens == [t : {"head", "body"}, kind : AllKinds, close : BOOLEAN]
Answers == [status : Nat, close : BOOLEAN]
SockStates == {"none", "backlog", "queued", "serving", "closed", "reset"}
WorkerPlaces == {"wait", "keep_alive", "body", "dispatch", "write", "provider", "close", "exited"}
InHand == {"body", "dispatch", "write", "provider"}     \* a request has been read, not answered

Types ==
    /\ listener \in {"accept", "join", "returned"}
    /\ jobs \in Seq(Conns) /\ sock \in [Conns -> SockStates]
    /\ wpc \in [Workers -> WorkerPlaces] /\ at \in [Workers -> 0..NumConns]
    /\ count \in [Workers -> 0..KeepAliveMax] /\ req \in [Workers -> Tokens]
    /\ buff \in [Workers -> Seq(Tokens)] /\ reply \in [Workers -> Nat]
    /\ wire \in [Conns -> Seq(Tokens)]
    /\ client \in [Conns -> {"new", "idle", "waiting", "gone"}]
    /\ sent \in Nat /\ owes \in [Conns -> BOOLEAN]
    /\ asked \in [Conns -> Seq(AllKinds)] /\ answers \in [Conns -> Seq(Answers)]
    /\ late \in SUBSET Conns
    /\ scan \in [Conns -> {"running", "done"}] /\ news \in [Conns -> BOOLEAN]

\* Connections are taken in the order in which they are made: first those that a worker
\* has or had, then those in the queue.
QueueInv ==
    /\ \A c \in Conns : c \in Taken <=> c <= Cardinality(Taken)
    /\ \A c \in Conns : sock[c] = "queued" <=> c > Cardinality(Taken) /\ c <= Cardinality(Taken) + Len(jobs)
    /\ \A i \in 1..Len(jobs) : jobs[i] = Cardinality(Taken) + i

ArrivalInv ==
    /\ \A c \in Conns : client[c] = "new" <=> sock[c] = "none"
    /\ \A c, d \in Conns : c < d /\ client[c] = "new" => client[d] = "new"
    /\ \A c \in Conns : sock[c] = "reset" => listener # "accept"
    /\ \A c \in Conns : sock[c] = "backlog" => listener = "accept"

\* A socket that is served has one worker; workers leave when nothing is queued any more.
ServeInv ==
    /\ \A w \in Workers : at[w] = 0 <=> wpc[w] \in {"wait", "exited"}
    /\ \A w \in Workers : at[w] # 0 => sock[at[w]] = "serving"
    /\ \A v, w \in Workers : at[v] # 0 /\ at[v] = at[w] => v = w
    /\ \A c \in Conns : sock[c] = "serving" => \E w \in Workers : at[w] = c
    /\ \A w \in Workers : wpc[w] = "exited" => listener # "accept" /\ jobs = <<>>
    /\ listener = "returned" => \A w \in Workers : wpc[w] = "exited"
    /\ \A w \in Workers : wpc[w] \notin {"wait", "exited", "close"} => count[w] > 0

\* The request of c has not been read yet; the body of a POST may be there already.
Unread(c) ==
    LET kind == asked[c][Len(asked[c])] IN
    \E close \in BOOLEAN :
        \/ wire[c] = <<HeadToken(kind, close)>> /\ (owes[c] <=> kind = "post")
        \/ wire[c] = <<HeadToken(kind, close), BodyToken>> /\ kind = "post" /\ ~owes[c]

\* What w has in hand is the request its client waits for, and the rest of it is where
\* the worker will look.
Working(w, c) ==
    /\ client[c] = "waiting" /\ req[w].kind = asked[c][Len(asked[c])]
    /\ wpc[w] = "body" =>
          /\ req[w].kind = "post"
          /\ \/ owes[c] /\ buff[w] = <<>> /\ wire[c] = <<>>
             \/ ~owes[c] /\ buff[w] = <<BodyToken>> /\ wire[c] = <<>>
             \/ ~owes[c] /\ buff[w] = <<>> /\ wire[c] = <<BodyToken>>
    /\ wpc[w] # "body" => ~owes[c] /\ wire[c] = <<>>
    /\ wpc[w] \in {"write", "provider"} => reply[w] = Status(req[w].kind)

\* The answers of c, each to its request, and where the next one is.
Matching(c) ==
    /\ Len(answers[c]) <= Len(asked[c])
    /\ \A i \in 1..Len(answers[c]) : /\ answers[c][i].status = Status(asked[c][i])
                                     /\ answers[c][i].close => i = Len(answers[c])

Talk(c) ==
    /\ client[c] = "new" => asked[c] = <<>> /\ answers[c] = <<>> /\ wire[c] = <<>> /\ ~owes[c]
    /\ c \notin late =>
        /\ Matching(c)
        /\ client[c] = "idle" => Len(answers[c]) = Len(asked[c]) /\ wire[c] = <<>> /\ ~owes[c]
        /\ client[c] = "waiting" =>
              /\ Len(asked[c]) = Len(answers[c]) + 1
              /\ \A i \in 1..Len(answers[c]) : ~answers[c][i].close
              /\ (\A w \in Workers : at[w] = c => wpc[w] \notin InHand) => Unread(c)
        /\ \A w \in Workers : at[w] = c /\ wpc[w] \in InHand /\ client[c] # "gone" => Working(w, c)

TalkInv == \A c \in Conns : Talk(c)

IInv == Types /\ QueueInv /\ ArrivalInv /\ ServeInv /\ TalkInv
-----------------------------------------------------------------------------
LEMMA Numbers == NumConns \in Nat /\ KeepAliveMax \in Nat \ {0} /\ Conns \subseteq Nat
  BY HttpServerSizes DEF Conns

\* What the browsers send are tokens, and the worker's blank request is one.
LEMMA TokenTypes ==
    /\ Kinds \subseteq AllKinds /\ BodyToken \in Tokens
    /\ \A k \in AllKinds, close \in BOOLEAN : HeadToken(k, close) \in Tokens
    /\ \A k \in AllKinds : Status(k) \in Nat
  BY HttpServerSizes DEF AllKinds, Tokens, BodyToken, HeadToken, Status

\* A head followed by a body.
LEMMA Two ==
    ASSUME NEW S, NEW x \in S, NEW y \in S
    PROVE  Append(<<x>>, y) = <<x, y>>
<1>1. <<x>> \in Seq(S) /\ <<x, y>> \in Seq(S) /\ Len(<<x>>) = 1 /\ Len(<<x, y>>) = 2
  OBVIOUS
<1>2. /\ Append(<<x>>, y) \in Seq(S) /\ Len(Append(<<x>>, y)) = 2
      /\ \A i \in 1..1 : Append(<<x>>, y)[i] = <<x>>[i]
      /\ Append(<<x>>, y)[2] = y
  BY <1>1, AppendProperties
<1>3. \A i \in 1..2 : Append(<<x>>, y)[i] = <<x, y>>[i]
  BY <1>2
<1> QED BY <1>1, <1>2, <1>3, SeqEqual

LEMMA Initially == Init => IInv
<1> SUFFICES ASSUME Init PROVE IInv
  OBVIOUS
<1>1. Taken = {} /\ Cardinality(Taken) = 0
  BY FS_EmptySet DEF Init, Taken, Accepted
<1>2. Types
  BY TokenTypes, Numbers, EmptySeq
  DEF Init, Types, SockStates, WorkerPlaces
<1>3. QueueInv
  BY <1>1, Numbers DEF Init, QueueInv, Conns
<1>4. ArrivalInv /\ ServeInv
  BY HttpServerSizes DEF Init, ArrivalInv, ServeInv
<1>5. TalkInv
  <2> SUFFICES ASSUME NEW c \in Conns PROVE Talk(c)
    BY DEF TalkInv
  <2>1. /\ client[c] = "new" /\ asked[c] = <<>> /\ answers[c] = <<>> /\ wire[c] = <<>> /\ ~owes[c]
        /\ \A w \in Workers : at[w] # c
    BY Numbers DEF Init, Conns
  <2>2. Len(answers[c]) = 0 /\ Len(asked[c]) = 0
    BY <2>1
  <2> QED BY <2>1, <2>2 DEF Talk, Matching
<1> QED BY <1>2, <1>3, <1>4, <1>5 DEF IInv

-----------------------------------------------------------------------------
\* The steps that leave the sockets and the queue alone.
QuietWorker(w) ==
    \/ WorkerExits(w) \/ KeepAliveEnds(w) \/ ReadRequest(w) \/ ReadBody(w)
    \/ BodyMissing(w) \/ Dispatch(w) \/ WriteResponse(w) \/ Provide(w) \/ ProviderDone(w)
QuietClient(c) ==
    \/ ScanProgress(c) \/ ScanDone(c) \/ SendBody(c) \/ Leave(c)
    \/ \E k \in Kinds, close \in BOOLEAN : Send(c, k, close)

\* The ways the server moves.
LEMMA Moves ==
    ASSUME Next
    PROVE  \/ AcceptFails \/ Joined
           \/ \E c \in Conns : Accept(c) \/ Connect(c) \/ QuietClient(c)
           \/ \E w \in Workers : TakeSocket(w) \/ CloseSocket(w) \/ QuietWorker(w)
<1>1. CASE \E c \in Conns : Accept(c) \/ ScanProgress(c) \/ ScanDone(c) \/ ClientStep(c)
  BY <1>1 DEF ClientStep, QuietClient
<1>2. CASE \E w \in Workers : WorkerStep(w)
  BY <1>2 DEF WorkerStep, QuietWorker
<1> QED BY <1>1, <1>2 DEF Next

LEMMA QuietSteps ==
    /\ \A w \in Workers : QuietWorker(w) => UNCHANGED <<listener, jobs, sock, at>>
    /\ \A c \in Conns : QuietClient(c) => UNCHANGED <<listener, jobs, sock, workerVars>>
  BY DEF QuietWorker, QuietClient, WorkerExits, KeepAliveEnds, ReadRequest, ReadBody, BodyMissing,
         Dispatch, WriteResponse, Provide, ProviderDone, ScanProgress, ScanDone, SendBody, Leave, Send,
         workerVars, clientVars

\* What a worker serves is a connection, and the worker it serves is its own.
LEMMA Serves ==
    ASSUME Types, ServeInv, NEW w \in Workers, wpc[w] \notin {"wait", "exited"}
    PROVE  /\ at[w] \in Conns /\ sock[at[w]] = "serving"
           /\ \A v \in Workers : at[v] = at[w] => v = w
<1>1. at[w] # 0
  BY DEF ServeInv
<1>2. at[w] \in Conns
  BY <1>1, Numbers DEF Types, Conns
<1> QED BY <1>1, <1>2 DEF ServeInv
-----------------------------------------------------------------------------
LEMMA QuietWorkerTypes ==
    ASSUME Types, ServeInv, NEW w \in Workers, QuietWorker(w)
    PROVE  Types'
<1> USE DEF workerVars, clientVars, scanVars
<1>1. CASE WorkerExits(w)
  BY <1>1 DEF WorkerExits, Types, WorkerPlaces
<1>2. CASE KeepAliveEnds(w)
  BY <1>2 DEF KeepAliveEnds, Types, WorkerPlaces
<1>3. CASE ReadRequest(w)
  <2>1. at[w] \in Conns
    BY <1>3, Serves DEF ReadRequest
  <2>2. wire[at[w]] \in Seq(Tokens) /\ wire[at[w]] # <<>>
    BY <1>3, <2>1 DEF ReadRequest, Types
  <2>3. Head(wire[at[w]]) \in Tokens /\ Tail(wire[at[w]]) \in Seq(Tokens)
    BY <2>2, HeadTailProperties
  <2>4. wpc' \in [Workers -> WorkerPlaces] /\ reply' \in [Workers -> Nat] /\ req' \in [Workers -> Tokens]
    BY <1>3, <2>3 DEF ReadRequest, Types, WorkerPlaces
  <2>5. buff' \in [Workers -> Seq(Tokens)] /\ wire' \in [Conns -> Seq(Tokens)]
    BY <1>3, <2>1, <2>3, EmptySeq DEF ReadRequest, Receive, Types
  <2> QED BY <1>3, <2>4, <2>5 DEF ReadRequest, Types
<1>4. CASE ReadBody(w)
  <2>1. at[w] \in Conns
    BY <1>4, Serves DEF ReadBody
  <2>2. buff' \in [Workers -> Seq(Tokens)] /\ wire' \in [Conns -> Seq(Tokens)]
    <3>1. CASE buff[w] # <<>> /\ buff' = [buff EXCEPT ![w] = Tail(@)] /\ UNCHANGED wire
      <4>1. buff[w] \in Seq(Tokens)
        BY DEF Types
      <4>2. Tail(buff[w]) \in Seq(Tokens)
        BY <3>1, <4>1, HeadTailProperties
      <4> QED BY <3>1, <4>2 DEF Types
    <3>2. CASE wire[at[w]] # <<>> /\ Receive(w)
      <4>1. wire[at[w]] \in Seq(Tokens)
        BY <2>1 DEF Types
      <4>2. Tail(wire[at[w]]) \in Seq(Tokens)
        BY <3>2, <4>1, HeadTailProperties
      <4> QED BY <2>1, <3>2, <4>2, EmptySeq DEF Receive, Types
    <3> QED BY <1>4, <3>1, <3>2 DEF ReadBody
  <2> QED BY <1>4, <2>2 DEF ReadBody, Types, WorkerPlaces
<1>5. CASE BodyMissing(w)
  <2>1. at[w] \in Conns
    BY <1>5, Serves DEF BodyMissing
  <2>2. late' \in SUBSET Conns
    BY <1>5, <2>1 DEF BodyMissing, Types
  <2>3. reply' \in [Workers -> Nat] /\ wpc' \in [Workers -> WorkerPlaces]
    BY <1>5 DEF BodyMissing, Types, WorkerPlaces
  <2> QED BY <1>5, <2>2, <2>3 DEF BodyMissing, Types
<1>6. CASE Dispatch(w)
  <2>1. Status(req[w].kind) \in Nat
    BY DEF Status
  <2> QED BY <1>6, <2>1 DEF Dispatch, Types, WorkerPlaces
<1>7. ASSUME NEW ok, EndRequest(w, ok), wpc[w] \in {"write", "provider"},
             UNCHANGED <<listener, jobs, sock, at, req, reply, wire, sent, owes, asked, late, scanVars>>
      PROVE  Types'
  <2>1. at[w] \in Conns /\ count[w] \in 1..KeepAliveMax
    <3>1. count[w] > 0 /\ count[w] \in 0..KeepAliveMax
      BY <1>7 DEF Types, ServeInv
    <3> QED BY <1>7, <3>1, Serves, Numbers
  <2>2. wpc' \in [Workers -> WorkerPlaces]
    BY <1>7 DEF EndRequest, AfterRequest, Types, WorkerPlaces
  <2>3. count' \in [Workers -> 0..KeepAliveMax]
    <3>1. count' = [count EXCEPT ![w] = count[w] - 1] /\ count \in [Workers -> 0..KeepAliveMax]
      BY <1>7 DEF EndRequest, Types
    <3>2. count[w] - 1 \in 0..KeepAliveMax
      BY <2>1, Numbers
    <3> QED BY <3>1, <3>2
  <2>4. buff' \in [Workers -> Seq(Tokens)]
    BY <1>7, EmptySeq DEF EndRequest, Types
  <2>5. client' \in [Conns -> {"new", "idle", "waiting", "gone"}]
    BY <1>7, <2>1 DEF EndRequest, Types
  <2>6. answers' \in [Conns -> Seq(Answers)]
    <3> DEFINE a == [status |-> reply[w], close |-> req[w].close \/ count[w] = 1]
    <3>1. a \in Answers
      BY DEF Types, Answers, Tokens
    <3> HIDE DEF a
    <3>2. answers[at[w]] \in Seq(Answers)
      BY <2>1 DEF Types
    <3>3. Append(answers[at[w]], a) \in Seq(Answers)
      BY <3>1, <3>2, AppendProperties
    <3>4. answers' = answers \/ answers' = [answers EXCEPT ![at[w]] = Append(@, a)]
      BY <1>7 DEF EndRequest, a
    <3> QED BY <3>3, <3>4 DEF Types
  <2> QED BY <1>7, <2>2, <2>3, <2>4, <2>5, <2>6 DEF Types
<1>8. CASE WriteResponse(w)
  BY <1>7, <1>8 DEF WriteResponse
<1>9. CASE Provide(w)
  <2>1. at[w] \in Conns
    BY <1>9, Serves DEF Provide
  <2> QED BY <1>9, <2>1 DEF Provide, Types, WorkerPlaces
<1>10. CASE ProviderDone(w)
  BY <1>7, <1>10 DEF ProviderDone
<1> QED BY <1>1, <1>2, <1>3, <1>4, <1>5, <1>6, <1>8, <1>9, <1>10 DEF QuietWorker

LEMMA TypeStep == Types /\ ServeInv /\ [Next]_vars => Types'
<1> SUFFICES ASSUME Types, ServeInv, [Next]_vars PROVE Types'
  OBVIOUS
<1> USE DEF workerVars, clientVars, scanVars
<1>1. CASE UNCHANGED vars
  BY <1>1 DEF vars, Types
<1>2. CASE AcceptFails
  BY <1>2 DEF AcceptFails, Types, SockStates
<1>3. CASE Joined
  BY <1>3 DEF Joined, Types
<1>4. ASSUME NEW c \in Conns, Accept(c) PROVE Types'
  <2>1. Append(jobs, c) \in Seq(Conns)
    BY AppendProperties DEF Types
  <2> QED BY <1>4, <2>1 DEF Accept, Types, SockStates
<1>5. ASSUME NEW c \in Conns, Connect(c) PROVE Types'
  BY <1>5 DEF Connect, Types, SockStates
<1>6. ASSUME NEW c \in Conns, QuietClient(c) PROVE Types'
  <2>1. CASE ScanProgress(c)
    BY <2>1 DEF ScanProgress, Types
  <2>2. CASE ScanDone(c)
    BY <2>2 DEF ScanDone, Types
  <2>3. CASE SendBody(c)
    <3>1. wire[c] \in Seq(Tokens)
      BY DEF Types
    <3>2. Append(wire[c], BodyToken) \in Seq(Tokens)
      BY <3>1, TokenTypes, AppendProperties
    <3> QED BY <2>3, <3>2 DEF SendBody, Types
  <2>4. CASE Leave(c)
    BY <2>4 DEF Leave, Types
  <2>5. ASSUME NEW k \in Kinds, NEW close \in BOOLEAN, Send(c, k, close) PROVE Types'
    <3>1. wire[c] \in Seq(Tokens) /\ asked[c] \in Seq(AllKinds)
      BY DEF Types
    <3>2. HeadToken(k, close) \in Tokens /\ k \in AllKinds
      BY TokenTypes
    <3>3. Append(wire[c], HeadToken(k, close)) \in Seq(Tokens) /\ Append(asked[c], k) \in Seq(AllKinds)
      BY <3>1, <3>2, AppendProperties
    <3> QED BY <2>5, <3>3 DEF Send, Types
  <2> QED BY <1>6, <2>1, <2>2, <2>3, <2>4, <2>5 DEF QuietClient
<1>7. ASSUME NEW w \in Workers, TakeSocket(w) PROVE Types'
  <2>1. Head(jobs) \in Conns /\ Tail(jobs) \in Seq(Conns) /\ Conns = 1..NumConns
    BY <1>7, HeadTailProperties DEF TakeSocket, Types, Conns
  <2>2. sock' \in [Conns -> SockStates] /\ wpc' \in [Workers -> WorkerPlaces]
    BY <1>7, <2>1 DEF TakeSocket, Types, SockStates, WorkerPlaces
  <2>3. at' \in [Workers -> 0..NumConns] /\ count' \in [Workers -> 0..KeepAliveMax]
    <3>1. Head(jobs) \in 0..NumConns /\ KeepAliveMax \in 0..KeepAliveMax
      BY <2>1, Numbers
    <3> QED BY <1>7, <3>1 DEF TakeSocket, Types
  <2> QED BY <1>7, <2>1, <2>2, <2>3 DEF TakeSocket, Types
<1>8. ASSUME NEW w \in Workers, CloseSocket(w) PROVE Types'
  <2>1. at[w] \in Conns
    BY <1>8, Serves DEF CloseSocket
  <2>2. sock' \in [Conns -> SockStates] /\ wpc' \in [Workers -> WorkerPlaces]
    BY <1>8, <2>1 DEF CloseSocket, Types, SockStates, WorkerPlaces
  <2>3. /\ at' \in [Workers -> 0..NumConns] /\ count' \in [Workers -> 0..KeepAliveMax]
        /\ req' \in [Workers -> Tokens] /\ reply' \in [Workers -> Nat]
        /\ buff' \in [Workers -> Seq(Tokens)]
    BY <1>8, <2>1, TokenTypes, Numbers, EmptySeq DEF CloseSocket, Types
  <2>4. /\ wire' \in [Conns -> Seq(Tokens)]
        /\ asked' \in [Conns -> Seq(AllKinds)] /\ answers' \in [Conns -> Seq(Answers)]
    BY <1>8, <2>1, EmptySeq DEF CloseSocket, Types
  <2>5. /\ client' \in [Conns -> {"new", "idle", "waiting", "gone"}]
        /\ owes' \in [Conns -> BOOLEAN] /\ late' \in SUBSET Conns
        /\ scan' \in [Conns -> {"running", "done"}] /\ news' \in [Conns -> BOOLEAN]
    BY <1>8, <2>1 DEF CloseSocket, Types
  <2> QED BY <1>8, <2>2, <2>3, <2>4, <2>5 DEF CloseSocket, Types
<1>9. ASSUME NEW w \in Workers, QuietWorker(w) PROVE Types'
  BY <1>9, QuietWorkerTypes
<1> QED BY <1>1, <1>2, <1>3, <1>4, <1>5, <1>6, <1>7, <1>8, <1>9, Moves
-----------------------------------------------------------------------------
\* The sockets taken and closed are sets of connections.
LEMMA TakenSize ==
    ASSUME Types
    PROVE  /\ Taken \subseteq Conns /\ IsFiniteSet(Taken) /\ IsFiniteSet(Conns)
           /\ Cardinality(Taken) \in 0..NumConns
<1>1. Taken \subseteq Conns
  BY DEF Taken, Accepted
<1>2. IsFiniteSet(Conns) /\ Cardinality(Conns) = NumConns
  BY FS_Interval, Numbers DEF Conns
<1>3. IsFiniteSet(Taken) /\ Cardinality(Taken) <= NumConns
  BY <1>1, <1>2, FS_Subset
<1>4. Cardinality(Taken) \in Nat
  BY <1>3, FS_CardinalityType
<1> HIDE DEF Taken
<1> QED BY <1>1, <1>2, <1>3, <1>4, Numbers

\* As long as no socket is taken, closed or moved to the queue, the order stands.
LEMMA QueueFrame ==
    ASSUME Types, QueueInv, jobs' = jobs, sock' \in [Conns -> SockStates],
           \A c \in Conns : \/ sock'[c] = sock[c]
                            \/ sock[c] = "serving" /\ sock'[c] = "closed"
                            \/ sock[c] \in {"none", "backlog"} /\ sock'[c] \in {"backlog", "reset"}
    PROVE  QueueInv' /\ Taken' = Taken
<1>1. Taken' = Taken
  BY DEF Taken, Accepted
<1>2. Cardinality(Taken)' = Cardinality(Taken)
  BY <1>1
<1>3. \A c \in Conns : sock'[c] = "queued" <=> sock[c] = "queued"
  OBVIOUS
<1> HIDE DEF Taken
<1> QED BY <1>1, <1>2, <1>3 DEF QueueInv

\* accept takes the oldest connection of the backlog, which is the first that nobody has.
LEMMA NextAccepted ==
    ASSUME Types, QueueInv, ArrivalInv, NEW c \in Conns, Accept(c)
    PROVE  c = Cardinality(Taken) + Len(jobs) + 1
<1> DEFINE m == Cardinality(Taken) + Len(jobs)
<1>1. m \in Nat /\ c \in Nat /\ c >= 1 /\ c <= NumConns
  <2>1. jobs \in Seq(Conns)
    BY DEF Types
  <2>2. Len(jobs) \in Nat /\ Cardinality(Taken) \in Nat
    BY <2>1, TakenSize, Numbers
  <2> QED BY <2>2, Numbers DEF Conns
<1>2. c > m
  <2>1. sock[c] = "backlog" /\ c \notin Taken
    BY DEF Accept, Taken, Accepted
  <2> QED BY <1>1, <2>1, TakenSize, Numbers DEF QueueInv
<1>3. \A d \in 1..(c - 1) : d <= m
  <2> SUFFICES ASSUME NEW d \in 1..(c - 1) PROVE d <= m
    OBVIOUS
  <2>1. d \in Conns /\ d < c
    BY <1>1, Numbers DEF Conns
  <2>2. sock[d] # "none"
    BY <2>1 DEF ArrivalInv, Accept
  <2>3. sock[d] \in {"queued", "serving", "closed"}
    BY <2>1, <2>2 DEF ArrivalInv, Accept, Types, SockStates
  <2>4. d <= Cardinality(Taken) \/ d <= m
    BY <2>1, <2>3 DEF QueueInv, Taken, Accepted
  <2>5. Len(jobs) \in Nat /\ Cardinality(Taken) \in Nat /\ d \in Nat
    <3>1. jobs \in Seq(Conns)
      BY DEF Types
    <3> QED BY <2>1, <3>1, TakenSize, Numbers
  <2> QED BY <2>4, <2>5
<1> HIDE DEF m
<1>4. c = m + 1
  <2>1. CASE c - 1 > m
    <3>1. c - 1 \in 1..(c - 1)
      BY <1>1, <2>1
    <3> QED BY <1>1, <1>3, <2>1, <3>1
  <2> QED BY <1>1, <1>2, <2>1
<1> QED BY <1>4 DEF m

\* A worker takes the first connection that nobody has taken.
LEMMA NextTaken ==
    ASSUME Types, QueueInv, NEW w \in Workers, TakeSocket(w)
    PROVE  /\ Head(jobs) \in Conns /\ sock[Head(jobs)] = "queued"
           /\ Head(jobs) = Cardinality(Taken) + 1 /\ Head(jobs) \notin Taken
           /\ Taken' = Taken \cup {Head(jobs)}
           /\ Cardinality(Taken') = Cardinality(Taken) + 1
           /\ Len(jobs) \in Nat \ {0} /\ Len(jobs') = Len(jobs) - 1
           /\ \A i \in 1..Len(jobs') : jobs'[i] = jobs[i + 1]
<1>1. jobs \in Seq(Conns) /\ jobs # <<>> /\ jobs' = Tail(jobs)
  BY DEF Types, TakeSocket
<1>2. /\ Len(jobs) \in Nat \ {0} /\ Len(jobs') = Len(jobs) - 1
      /\ \A i \in 1..Len(jobs') : jobs'[i] = jobs[i + 1]
      /\ Head(jobs) \in Conns /\ Head(jobs) = jobs[1]
  BY <1>1, HeadTailProperties, EmptySeq
<1>3. Cardinality(Taken) \in Nat
  BY TakenSize, Numbers
<1>4. Head(jobs) = Cardinality(Taken) + 1
  BY <1>2, <1>3 DEF QueueInv
<1>5. sock[Head(jobs)] = "queued" /\ Head(jobs) \notin Taken
  <2>1. sock[Head(jobs)] = "queued"
    BY <1>2, <1>3, <1>4 DEF QueueInv
  <2> QED BY <2>1 DEF Taken
<1>6. Taken' = Taken \cup {Head(jobs)}
  BY <1>2, <1>5 DEF Taken, Accepted, TakeSocket, Types
<1>7. Cardinality(Taken') = Cardinality(Taken) + 1
  BY <1>5, <1>6, TakenSize, FS_AddElement
<1> QED BY <1>2, <1>4, <1>5, <1>6, <1>7

LEMMA QueueStep == Types /\ QueueInv /\ ArrivalInv /\ ServeInv /\ [Next]_vars => QueueInv'
<1> SUFFICES ASSUME Types, QueueInv, ArrivalInv, ServeInv, [Next]_vars PROVE QueueInv'
  OBVIOUS
<1>1. CASE UNCHANGED vars
  BY <1>1 DEF vars, QueueInv, Taken, Accepted
<1>2. CASE AcceptFails
  <2>1. sock' \in [Conns -> SockStates]
    BY <1>2 DEF AcceptFails, Types, SockStates
  <2> QED BY <1>2, <2>1, QueueFrame DEF AcceptFails
<1>3. CASE Joined
  BY <1>3, QueueFrame DEF Joined, Types
<1>4. ASSUME NEW c \in Conns, Accept(c) PROVE QueueInv'
  <2> DEFINE n == Cardinality(Taken)
  <2>1. /\ sock' = [sock EXCEPT ![c] = "queued"] /\ jobs' = Append(jobs, c)
        /\ sock \in [Conns -> SockStates] /\ jobs \in Seq(Conns) /\ c \notin Taken
    BY <1>4 DEF Accept, Types, Taken, Accepted
  <2>2. Taken' = Taken /\ Cardinality(Taken)' = n
    <3>1. Taken' = Taken
      BY <1>4, <2>1 DEF Accept, Taken, Accepted
    <3> QED BY <3>1
  <2>3. /\ Len(jobs') = Len(jobs) + 1 /\ jobs'[Len(jobs) + 1] = c /\ Len(jobs) \in Nat
        /\ \A i \in 1..Len(jobs) : jobs'[i] = jobs[i]
    BY <2>1, AppendProperties
  <2>4. c = n + Len(jobs) + 1 /\ n \in Nat
    BY <1>4, NextAccepted, TakenSize, Numbers
  <2> HIDE DEF n
  <2>5. \A d \in Conns : d \in Taken <=> d <= n
    BY DEF QueueInv, n
  <2>6. \A d \in Conns : sock'[d] = "queued" <=> d > n /\ d <= n + Len(jobs')
    BY <2>1, <2>3, <2>4, Numbers DEF QueueInv, n
  <2>7. \A i \in 1..Len(jobs') : jobs'[i] = n + i
    <3>1. \A i \in 1..Len(jobs) : jobs[i] = n + i
      BY DEF QueueInv, n
    <3>2. \A i \in 1..Len(jobs') : i \in 1..Len(jobs) \/ i = Len(jobs) + 1
      BY <2>3
    <3>3. jobs'[Len(jobs) + 1] = n + (Len(jobs) + 1)
      BY <2>3, <2>4
    <3> QED BY <2>3, <3>1, <3>2, <3>3
  <2> QED BY <2>2, <2>5, <2>6, <2>7 DEF QueueInv
<1>5. ASSUME NEW c \in Conns, Connect(c) PROVE QueueInv'
  <2>1. sock' = [sock EXCEPT ![c] = "backlog"] /\ jobs' = jobs /\ sock[c] = "none"
    BY <1>5 DEF Connect, ArrivalInv
  <2> QED BY <2>1, QueueFrame DEF Types, SockStates
<1>6. ASSUME NEW c \in Conns, QuietClient(c) PROVE QueueInv'
  BY <1>6, QuietSteps, QueueFrame DEF Types
<1>7. ASSUME NEW w \in Workers, TakeSocket(w) PROVE QueueInv'
  <2> DEFINE n == Cardinality(Taken)
             h == Head(jobs)
  <2>1. /\ h \in Conns /\ h = n + 1 /\ Taken' = Taken \cup {h} /\ Cardinality(Taken') = n + 1
        /\ Len(jobs) \in Nat \ {0} /\ Len(jobs') = Len(jobs) - 1
        /\ \A i \in 1..Len(jobs') : jobs'[i] = jobs[i + 1]
        /\ n \in Nat
    BY <1>7, NextTaken, TakenSize, Numbers
  <2>2. sock' = [sock EXCEPT ![h] = "serving"] /\ sock \in [Conns -> SockStates]
    BY <1>7 DEF TakeSocket, Types
  <2> HIDE DEF n, h
  <2>3. \A d \in Conns : d \in Taken' <=> d <= n + 1
    BY <2>1, Numbers DEF QueueInv, n
  <2>4. \A d \in Conns : sock'[d] = "queued" <=> d > n + 1 /\ d <= n + 1 + Len(jobs')
    <3> SUFFICES ASSUME NEW d \in Conns
                 PROVE  sock'[d] = "queued" <=> d > n + 1 /\ d <= n + 1 + Len(jobs')
      OBVIOUS
    <3>1. sock[d] = "queued" <=> d > n /\ d <= n + Len(jobs)
      BY DEF QueueInv, n
    <3> QED BY <2>1, <2>2, <3>1, Numbers
  <2>5. \A i \in 1..Len(jobs') : jobs'[i] = n + 1 + i
    <3> SUFFICES ASSUME NEW i \in 1..Len(jobs') PROVE jobs'[i] = n + 1 + i
      OBVIOUS
    <3>1. i + 1 \in 1..Len(jobs) /\ jobs'[i] = jobs[i + 1]
      BY <2>1
    <3>2. jobs[i + 1] = n + (i + 1)
      BY <3>1 DEF QueueInv, n
    <3> QED BY <2>1, <3>1, <3>2
  <2>6. Cardinality(Taken)' = n + 1
    BY <2>1
  <2> QED BY <2>3, <2>4, <2>5, <2>6 DEF QueueInv
<1>8. ASSUME NEW w \in Workers, CloseSocket(w) PROVE QueueInv'
  <2>1. at[w] \in Conns /\ sock[at[w]] = "serving"
    BY <1>8, Serves DEF CloseSocket
  <2> QED BY <1>8, <2>1, QueueFrame DEF CloseSocket, Types, SockStates
<1>9. ASSUME NEW w \in Workers, QuietWorker(w) PROVE QueueInv'
  BY <1>9, QuietSteps, QueueFrame DEF Types
<1> QED BY <1>1, <1>2, <1>3, <1>4, <1>5, <1>6, <1>7, <1>8, <1>9, Moves
-----------------------------------------------------------------------------
\* Connections arrive in order, and a client that has arrived has a socket.
LEMMA ArrivalStep == Types /\ QueueInv /\ ArrivalInv /\ ServeInv /\ [Next]_vars => ArrivalInv'
<1> SUFFICES ASSUME Types, QueueInv, ArrivalInv, ServeInv, [Next]_vars PROVE ArrivalInv'
  OBVIOUS
<1> USE DEF clientVars
\* A step that neither moves a socket nor makes a client new keeps the order.
<1>a. ASSUME UNCHANGED <<listener, sock>>, \A c \in Conns : client'[c] = "new" <=> client[c] = "new"
      PROVE  ArrivalInv'
  BY <1>a DEF ArrivalInv
<1>1. CASE UNCHANGED vars
  BY <1>1, <1>a DEF vars
<1>2. CASE AcceptFails
  BY <1>2 DEF AcceptFails, ArrivalInv, Types
<1>3. CASE Joined
  BY <1>3 DEF Joined, ArrivalInv
<1>4. ASSUME NEW c \in Conns, Accept(c) PROVE ArrivalInv'
  BY <1>4 DEF Accept, ArrivalInv, Types
<1>5. ASSUME NEW c \in Conns, Connect(c) PROVE ArrivalInv'
  <2>1. \A d \in Conns : d < c => client[d] # "new"
    BY <1>5, Numbers DEF Connect, Conns
  <2> QED BY <1>5, <2>1, Numbers DEF Connect, ArrivalInv, Types
<1>6. ASSUME NEW c \in Conns, QuietClient(c) PROVE ArrivalInv'
  <2>1. \A d \in Conns : client'[d] = "new" <=> client[d] = "new"
    BY <1>6 DEF QuietClient, ScanProgress, ScanDone, SendBody, Leave, Send, Types
  <2> QED BY <1>6, <2>1, <1>a, QuietSteps
<1>7. ASSUME NEW w \in Workers, TakeSocket(w) PROVE ArrivalInv'
  BY <1>7, NextTaken DEF TakeSocket, ArrivalInv, Types
<1>8. ASSUME NEW w \in Workers, CloseSocket(w) PROVE ArrivalInv'
  <2>1. at[w] \in Conns /\ sock[at[w]] = "serving"
    BY <1>8, Serves DEF CloseSocket
  <2> QED BY <1>8, <2>1 DEF CloseSocket, ArrivalInv, Types
<1>9. ASSUME NEW w \in Workers, QuietWorker(w) PROVE ArrivalInv'
  <2>1. \A d \in Conns : client'[d] = "new" <=> client[d] = "new"
    <3>1. CASE WriteResponse(w)
      BY <3>1 DEF WriteResponse, EndRequest, Types
    <3>2. CASE ProviderDone(w)
      BY <3>2 DEF ProviderDone, EndRequest, Types
    <3>3. CASE UNCHANGED client
      BY <3>3
    <3>4. WriteResponse(w) \/ ProviderDone(w) \/ UNCHANGED client
      BY <1>9 DEF QuietWorker, WorkerExits, KeepAliveEnds, ReadRequest, ReadBody, BodyMissing,
                  Dispatch, Provide, clientVars
    <3> QED BY <3>1, <3>2, <3>3, <3>4
  <2> QED BY <1>9, <2>1, <1>a, QuietSteps
<1> QED BY <1>1, <1>2, <1>3, <1>4, <1>5, <1>6, <1>7, <1>8, <1>9, Moves

\* Where a worker can be after a step that keeps its socket.
LEMMA QuietPlace ==
    ASSUME Types, ServeInv, NEW w \in Workers, QuietWorker(w)
    PROVE  /\ \A v \in Workers \ {w} : wpc'[v] = wpc[v] /\ count'[v] = count[v]
           /\ \/ WorkerExits(w)
              \/ /\ wpc[w] \notin {"wait", "exited"} /\ wpc'[w] \notin {"wait", "exited"}
                 /\ wpc'[w] # "close" => count'[w] > 0
<1> USE DEF Types
<1>1. CASE WorkerExits(w)
  BY <1>1 DEF WorkerExits
<1>2. CASE KeepAliveEnds(w)
  BY <1>2 DEF KeepAliveEnds
<1>3. CASE ReadRequest(w) \/ ReadBody(w) \/ BodyMissing(w) \/ Dispatch(w) \/ Provide(w)
  <2>1. PICK place \in {"write", "body", "dispatch", "provider", "close"} :
            wpc' = [wpc EXCEPT ![w] = place]
    BY <1>3 DEF ReadRequest, ReadBody, BodyMissing, Dispatch, Provide
  <2>2. wpc[w] \notin {"wait", "exited", "close"} /\ count' = count
    BY <1>3 DEF ReadRequest, ReadBody, BodyMissing, Dispatch, Provide
  <2> QED BY <2>1, <2>2 DEF ServeInv
<1>4. CASE WriteResponse(w) \/ ProviderDone(w)
  <2>1. PICK ok \in BOOLEAN : EndRequest(w, ok) /\ wpc[w] \in {"write", "provider"}
    BY <1>4 DEF WriteResponse, ProviderDone
  <2>2. count[w] \in Int
    BY Numbers
  <2> QED BY <2>1, <2>2 DEF EndRequest, AfterRequest
<1> QED BY <1>1, <1>2, <1>3, <1>4 DEF QuietWorker

LEMMA ServeStep == Types /\ QueueInv /\ ArrivalInv /\ ServeInv /\ [Next]_vars => ServeInv'
<1> SUFFICES ASSUME Types, QueueInv, ArrivalInv, ServeInv, [Next]_vars PROVE ServeInv'
  OBVIOUS
<1> USE DEF workerVars
<1>1. CASE UNCHANGED vars
  BY <1>1 DEF vars, ServeInv
<1>2. CASE AcceptFails
  BY <1>2, Serves DEF AcceptFails, ServeInv, Types, Conns
<1>3. CASE Joined
  BY <1>3 DEF Joined, ServeInv
<1>4. ASSUME NEW c \in Conns, Accept(c) PROVE ServeInv'
  BY <1>4 DEF Accept, ServeInv, Types
<1>5. ASSUME NEW c \in Conns, Connect(c) PROVE ServeInv'
  <2>1. sock[c] = "none" /\ sock' = [sock EXCEPT ![c] = "backlog"] /\ UNCHANGED <<listener, jobs, wpc, at, count>>
    BY <1>5 DEF Connect, ArrivalInv
  <2>2. \A w \in Workers : at[w] # c
    BY <2>1, Numbers DEF ServeInv, Conns
  <2>3. /\ \A w \in Workers : at[w] # 0 => sock'[at[w]] = "serving"
        /\ \A d \in Conns : sock'[d] = "serving" => sock[d] = "serving"
    BY <2>1, <2>2 DEF ServeInv, Types, Conns
  <2> QED BY <2>1, <2>3 DEF ServeInv
<1>6. ASSUME NEW c \in Conns, QuietClient(c) PROVE ServeInv'
  BY <1>6, QuietSteps DEF ServeInv
<1>7. ASSUME NEW w \in Workers, TakeSocket(w) PROVE ServeInv'
  <2> DEFINE h == Head(jobs)
  <2>1. h \in Conns /\ sock[h] = "queued" /\ h # 0 /\ at[w] = 0
    <3>1. h \in Conns /\ sock[h] = "queued"
      BY <1>7, NextTaken
    <3> QED BY <1>7, <3>1, Numbers DEF Conns, TakeSocket, ServeInv
  <2>2. /\ wpc[w] = "wait" /\ wpc' = [wpc EXCEPT ![w] = "keep_alive"] /\ at' = [at EXCEPT ![w] = h]
        /\ sock' = [sock EXCEPT ![h] = "serving"] /\ count' = [count EXCEPT ![w] = KeepAliveMax]
        /\ listener' = listener /\ jobs # <<>>
    BY <1>7 DEF TakeSocket
  <2>3. \A v \in Workers : at[v] # h
    BY <2>1 DEF ServeInv
  <2> HIDE DEF h
  <2>4. /\ \A v \in Workers : at'[v] = 0 <=> wpc'[v] \in {"wait", "exited"}
        /\ \A v \in Workers : at'[v] # 0 => sock'[at'[v]] = "serving"
    <3>1. /\ at'[w] = h /\ wpc'[w] = "keep_alive"
          /\ \A v \in Workers \ {w} : at'[v] = at[v] /\ wpc'[v] = wpc[v]
      BY <2>2 DEF Types
    <3>2. sock'[h] = "serving" /\ \A c \in Conns : sock[c] = "serving" => sock'[c] = "serving"
      BY <2>1, <2>2 DEF Types
    <3>3. \A v \in Workers : at[v] # 0 => at[v] \in Conns
      BY Numbers DEF Types, Conns
    <3> QED BY <2>1, <3>1, <3>2, <3>3 DEF ServeInv
  <2>a. at'[w] = h /\ \A v \in Workers \ {w} : at'[v] = at[v]
    BY <2>2 DEF Types
  <2>5. \A u, v \in Workers : at'[v] # 0 /\ at'[v] = at'[u] => v = u
    BY <2>3, <2>a DEF ServeInv
  <2>6. \A c \in Conns : sock'[c] = "serving" => \E v \in Workers : at'[v] = c
    <3> SUFFICES ASSUME NEW c \in Conns, sock'[c] = "serving", c # h PROVE \E v \in Workers : at'[v] = c
      BY <2>a
    <3>1. PICK v \in Workers : at[v] = c
      BY <2>2 DEF ServeInv, Types
    <3> QED BY <2>1, <2>a, <3>1, Numbers DEF Conns
  <2>7. \A v \in Workers : wpc'[v] # "exited"
    BY <2>1, <2>2 DEF ServeInv, Types
  <2>8. \A v \in Workers : wpc'[v] \notin {"wait", "exited", "close"} => count'[v] > 0
    BY <2>2, Numbers DEF ServeInv, Types
  <2>9. listener # "returned"
    BY <2>2 DEF ServeInv
  <2> QED BY <2>2, <2>4, <2>5, <2>6, <2>7, <2>8, <2>9 DEF ServeInv
<1>8. ASSUME NEW w \in Workers, CloseSocket(w) PROVE ServeInv'
  <2> DEFINE c == at[w]
  <2>1. c \in Conns /\ sock[c] = "serving" /\ \A v \in Workers : at[v] = c => v = w
    BY <1>8, Serves DEF CloseSocket
  <2>2. /\ wpc[w] = "close" /\ wpc' = [wpc EXCEPT ![w] = "wait"] /\ at' = [at EXCEPT ![w] = 0]
        /\ sock' = [sock EXCEPT ![c] = "closed"] /\ count' = [count EXCEPT ![w] = 0]
        /\ UNCHANGED <<listener, jobs>>
    BY <1>8 DEF CloseSocket
  <2> HIDE DEF c
  <2>3. /\ \A v \in Workers : at'[v] = 0 <=> wpc'[v] \in {"wait", "exited"}
        /\ \A v \in Workers : at'[v] # 0 => sock'[at'[v]] = "serving"
        /\ \A u, v \in Workers : at'[v] # 0 /\ at'[v] = at'[u] => v = u
    BY <2>1, <2>2 DEF ServeInv, Types, c
  <2>4. \A d \in Conns : sock'[d] = "serving" => \E v \in Workers : at'[v] = d
    <3> SUFFICES ASSUME NEW d \in Conns, sock'[d] = "serving" PROVE \E v \in Workers : at'[v] = d
      OBVIOUS
    <3>1. d # c /\ sock[d] = "serving"
      BY <2>1, <2>2 DEF Types
    <3>2. PICK v \in Workers : at[v] = d
      BY <3>1 DEF ServeInv
    <3> QED BY <2>2, <3>1, <3>2 DEF Types, c
  <2>5. /\ \A v \in Workers : wpc'[v] = "exited" => listener' # "accept" /\ jobs' = <<>>
        /\ listener' = "returned" => \A v \in Workers : wpc'[v] = "exited"
        /\ \A v \in Workers : wpc'[v] \notin {"wait", "exited", "close"} => count'[v] > 0
    BY <2>2 DEF ServeInv, Types
  <2> QED BY <2>3, <2>4, <2>5 DEF ServeInv
<1>9. ASSUME NEW w \in Workers, QuietWorker(w) PROVE ServeInv'
  <2>1. CASE WorkerExits(w)
    BY <2>1 DEF WorkerExits, ServeInv, Types
  <2>2. CASE ~WorkerExits(w)
    <3>1. /\ UNCHANGED <<listener, jobs, sock, at>>
          /\ \A v \in Workers \ {w} : wpc'[v] = wpc[v] /\ count'[v] = count[v]
          /\ wpc[w] \notin {"wait", "exited"} /\ wpc'[w] \notin {"wait", "exited"}
          /\ wpc'[w] # "close" => count'[w] > 0
      BY <1>9, <2>2, QuietSteps, QuietPlace
    <3> QED BY <3>1 DEF ServeInv
  <2> QED BY <2>1, <2>2
<1> QED BY <1>1, <1>2, <1>3, <1>4, <1>5, <1>6, <1>7, <1>8, <1>9, Moves
-----------------------------------------------------------------------------
\* A connection that a step does not touch, neither it nor a request in hand there.
LEMMA TalkFrame ==
    ASSUME NEW c \in Conns, Talk(c), c \in late' <=> c \in late,
           client'[c] = client[c], owes'[c] = owes[c], wire'[c] = wire[c],
           asked'[c] = asked[c], answers'[c] = answers[c],
           \A w \in Workers :
              (at'[w] = c /\ wpc'[w] \in InHand) \/ (at[w] = c /\ wpc[w] \in InHand) =>
                 /\ at'[w] = at[w] /\ wpc'[w] = wpc[w] /\ req'[w] = req[w]
                 /\ buff'[w] = buff[w] /\ reply'[w] = reply[w]
    PROVE  Talk(c)'
<1>1. Matching(c) => Matching(c)'
  BY DEF Matching
<1>2. Unread(c) => Unread(c)'
  BY DEF Unread
<1>3. \A w \in Workers : at'[w] = c /\ wpc'[w] \in InHand /\ Working(w, c) => Working(w, c)'
  BY DEF Working
<1> HIDE DEF InHand
<1> QED BY <1>1, <1>2, <1>3 DEF Talk

\* Nothing more is asked of a connection whose client is gone.
LEMMA TalkGone ==
    ASSUME NEW c \in Conns, Talk(c), client'[c] = "gone", c \in late => c \in late',
           asked'[c] = asked[c], answers'[c] = answers[c]
    PROVE  Talk(c)'
  BY DEF Talk, Matching

\* A worker's step is about its own connection and nobody else's.
LEMMA OthersTalk ==
    ASSUME Types, ServeInv, TalkInv, NEW w \in Workers, QuietWorker(w) \/ CloseSocket(w),
           wpc[w] \notin {"wait", "exited"}, NEW d \in Conns, d # at[w]
    PROVE  Talk(d)'
<1> USE DEF clientVars, workerVars, scanVars
<1>1. at[w] \in Conns
  BY Serves
<1>2. /\ client'[d] = client[d] /\ owes'[d] = owes[d] /\ wire'[d] = wire[d]
      /\ asked'[d] = asked[d] /\ answers'[d] = answers[d] /\ (d \in late' <=> d \in late)
  <2>1. CASE CloseSocket(w)
    BY <1>1, <2>1 DEF CloseSocket, Types
  <2>2. CASE WriteResponse(w)
    BY <1>1, <2>2 DEF WriteResponse, EndRequest, Types
  <2>3. CASE ProviderDone(w)
    BY <1>1, <2>3 DEF ProviderDone, EndRequest, Types
  <2>4. CASE ReadRequest(w)
    BY <1>1, <2>4 DEF ReadRequest, Receive, Types
  <2>5. CASE ReadBody(w)
    BY <1>1, <2>5 DEF ReadBody, Receive, Types
  <2>6. CASE WorkerExits(w) \/ KeepAliveEnds(w) \/ BodyMissing(w) \/ Dispatch(w) \/ Provide(w)
    BY <1>1, <2>6 DEF WorkerExits, KeepAliveEnds, BodyMissing, Dispatch, Provide, Types
  <2> QED BY <2>1, <2>2, <2>3, <2>4, <2>5, <2>6 DEF QuietWorker
<1>3. /\ \A v \in Workers \ {w} : /\ at'[v] = at[v] /\ wpc'[v] = wpc[v] /\ req'[v] = req[v]
                                  /\ buff'[v] = buff[v] /\ reply'[v] = reply[v]
      /\ at'[w] # d
  <2>1. CASE CloseSocket(w)
    BY <1>1, <2>1, Numbers DEF CloseSocket, Types, Conns
  <2>2. CASE WriteResponse(w)
    BY <1>1, <2>2 DEF WriteResponse, EndRequest, Types
  <2>3. CASE ProviderDone(w)
    BY <1>1, <2>3 DEF ProviderDone, EndRequest, Types
  <2>4. CASE ReadRequest(w)
    BY <1>1, <2>4 DEF ReadRequest, Receive, Types
  <2>5. CASE ReadBody(w)
    BY <1>1, <2>5 DEF ReadBody, Receive, Types
  <2>6. CASE WorkerExits(w) \/ KeepAliveEnds(w) \/ BodyMissing(w) \/ Dispatch(w) \/ Provide(w)
    BY <1>1, <2>6 DEF WorkerExits, KeepAliveEnds, BodyMissing, Dispatch, Provide, Types
  <2> QED BY <2>1, <2>2, <2>3, <2>4, <2>5, <2>6 DEF QuietWorker
<1> QED BY <1>2, <1>3, TalkFrame DEF TalkInv

\* A request is read whole: what is left of it is in the buffer or still to come.
LEMMA ReadTalks ==
    ASSUME IInv, NEW w \in Workers, NEW c \in Conns, ReadRequest(w), at[w] = c,
           client[c] # "gone", c \notin late
    PROVE  Talk(c)'
<1> USE DEF clientVars, scanVars
<1>1. Types /\ ServeInv /\ Talk(c) /\ \A v \in Workers : at[v] = c => v = w
  BY Serves DEF IInv, TalkInv, ReadRequest
<1>2. /\ wpc[w] = "keep_alive" /\ wire[c] # <<>> /\ wire' = [wire EXCEPT ![c] = <<>>]
      /\ UNCHANGED <<at, client, owes, asked, answers, late>>
      /\ buff' = [buff EXCEPT ![w] = Tail(wire[c])]
      /\ req' = [req EXCEPT ![w] = Head(wire[c])]
      /\ wpc' = [wpc EXCEPT ![w] = IF ~ParseRequestLine(Head(wire[c])) THEN "write"
                                   ELSE IF ExpectContent(Head(wire[c])) THEN "body" ELSE "dispatch"]
  BY DEF ReadRequest, Receive
<1>3. client[c] = "waiting" /\ Unread(c)
  <2>1. client[c] = "waiting"
    BY <1>1, <1>2 DEF Talk, Types
  <2> QED BY <1>1, <1>2, <2>1 DEF Talk, InHand
<1>a. PICK kind : kind = asked[c][Len(asked[c])]
  OBVIOUS
<1>4. PICK close \in BOOLEAN :
        \/ wire[c] = <<HeadToken(kind, close)>> /\ (owes[c] <=> kind = "post")
        \/ wire[c] = <<HeadToken(kind, close), BodyToken>> /\ kind = "post" /\ ~owes[c]
  BY <1>3, <1>a DEF Unread
<1> DEFINE h == HeadToken(kind, close)
<1>5. h.t = "head" /\ h.kind = kind
  BY DEF HeadToken
<1> HIDE DEF h
<1>6. Head(wire[c]) = h
  BY <1>4 DEF h
<1>7. \/ Tail(wire[c]) = <<>> /\ (owes[c] <=> kind = "post")
      \/ Tail(wire[c]) = <<BodyToken>> /\ kind = "post" /\ ~owes[c]
  <2>1. CASE wire[c] = <<h>>
    <3>1. Tail(wire[c]) = <<>>
      BY <2>1
    <3>2. <<h>> # <<h, BodyToken>>
      OBVIOUS
    <3> QED BY <1>4, <2>1, <3>1, <3>2 DEF h
  <2>2. CASE wire[c] = <<h, BodyToken>>
    <3>1. Tail(wire[c]) = <<BodyToken>>
      BY <2>2
    <3>2. <<h>> # <<h, BodyToken>>
      OBVIOUS
    <3> QED BY <1>4, <2>2, <3>1, <3>2 DEF h
  <2> QED BY <1>4, <2>1, <2>2 DEF h
<1>8. /\ wpc'[w] = IF kind = "post" THEN "body" ELSE "dispatch"
      /\ buff'[w] = Tail(wire[c]) /\ req'[w].kind = kind /\ wire'[c] = <<>>
  BY <1>1, <1>2, <1>5, <1>6 DEF Types, ParseRequestLine, ExpectContent
<1>9. Working(w, c)'
  <2>1. client'[c] = "waiting" /\ req'[w].kind = asked'[c][Len(asked'[c])] /\ owes'[c] = owes[c]
    BY <1>2, <1>3, <1>a, <1>8
  <2>2. CASE kind = "post"
    BY <1>7, <1>8, <2>1, <2>2 DEF Working
  <2>3. CASE kind # "post"
    BY <1>7, <1>8, <2>1, <2>3 DEF Working
  <2> QED BY <2>2, <2>3
<1>10. /\ \A v \in Workers : at'[v] = c => v = w
       /\ at'[w] = c /\ wpc'[w] \in InHand
  BY <1>1, <1>2, <1>8 DEF InHand
<1>11. Matching(c)'
  BY <1>1, <1>2 DEF Talk, Matching
<1> QED BY <1>1, <1>2, <1>3, <1>9, <1>10, <1>11 DEF Talk

\* The body is found where it was left, or is still to come and is waited for.
LEMMA BodyTalks ==
    ASSUME IInv, NEW w \in Workers, NEW c \in Conns, ReadBody(w), at[w] = c,
           client[c] # "gone", c \notin late
    PROVE  Talk(c)'
<1> USE DEF clientVars, scanVars
<1>1. Types /\ Talk(c) /\ \A v \in Workers : at[v] = c => v = w
  BY Serves DEF IInv, TalkInv, ReadBody
<1>2. /\ wpc[w] = "body" /\ wpc' = [wpc EXCEPT ![w] = "dispatch"]
      /\ UNCHANGED <<at, req, client, owes, asked, answers, late>>
  BY DEF ReadBody
<1>3. Working(w, c)
  BY <1>1, <1>2 DEF Talk, InHand
<1>4. ~owes[c] /\ wire'[c] = <<>>
  <2>1. CASE buff[w] # <<>> /\ UNCHANGED wire
    BY <1>2, <1>3, <2>1 DEF Working
  <2>2. CASE wire[c] # <<>> /\ wire' = [wire EXCEPT ![c] = <<>>]
    BY <1>1, <1>2, <1>3, <2>2 DEF Working, Types
  <2> QED BY <2>1, <2>2 DEF ReadBody, Receive
<1>5. Working(w, c)' /\ wpc'[w] = "dispatch"
  BY <1>1, <1>2, <1>3, <1>4 DEF Working, Types
<1>6. Matching(c)'
  BY <1>1, <1>2 DEF Talk, Matching
<1> QED BY <1>1, <1>2, <1>3, <1>5, <1>6 DEF Talk, Working, InHand

\* The handler decides the status of the answer.
LEMMA DispatchTalks ==
    ASSUME IInv, NEW w \in Workers, NEW c \in Conns, Dispatch(w), at[w] = c,
           client[c] # "gone", c \notin late
    PROVE  Talk(c)'
<1> USE DEF clientVars, scanVars
<1>1. Types /\ Talk(c) /\ \A v \in Workers : at[v] = c => v = w
  BY Serves DEF IInv, TalkInv, Dispatch
<1>2. /\ wpc[w] = "dispatch" /\ wpc'[w] \in {"provider", "write"} /\ reply'[w] = Status(req[w].kind)
      /\ UNCHANGED <<at, req, wire, client, owes, asked, answers, late>>
  BY <1>1 DEF Dispatch, Types
<1>3. Working(w, c)
  BY <1>1, <1>2 DEF Talk, InHand
<1>4. Working(w, c)'
  BY <1>1, <1>2, <1>3 DEF Working, Types
<1>5. Matching(c)'
  BY <1>1, <1>2 DEF Talk, Matching
<1> QED BY <1>1, <1>2, <1>3, <1>4, <1>5 DEF Talk, Working, InHand

\* The answer is the one to the request the client waits for.
LEMMA AnswerTalks ==
    ASSUME IInv, NEW w \in Workers, NEW c \in Conns, WriteResponse(w) \/ ProviderDone(w), at[w] = c,
           client[c] # "gone", c \notin late
    PROVE  Talk(c)'
<1> USE DEF clientVars, scanVars
<1> DEFINE a == [status |-> reply[w], close |-> req[w].close \/ count[w] = 1]
<1>1. Types /\ Talk(c) /\ \A v \in Workers : at[v] = c => v = w
  BY Serves DEF IInv, TalkInv, WriteResponse, ProviderDone
<1>2. /\ wpc[w] \in {"write", "provider"} /\ wpc'[w] \in {"keep_alive", "close"}
      /\ answers' = [answers EXCEPT ![c] = Append(@, a)]
      /\ client' = [client EXCEPT ![c] = IF @ = "waiting" THEN "idle" ELSE @]
      /\ UNCHANGED <<at, wire, owes, asked, late>>
  BY <1>1 DEF WriteResponse, ProviderDone, EndRequest, AfterRequest, Types
<1>3. Working(w, c)
  BY <1>1, <1>2 DEF Talk, InHand
<1>4. client[c] = "waiting" /\ client'[c] = "idle" /\ ~owes[c] /\ wire[c] = <<>>
  BY <1>1, <1>2, <1>3 DEF Working, Types
<1>5. /\ Len(asked[c]) = Len(answers[c]) + 1
      /\ \A i \in 1..Len(answers[c]) : answers[c][i].status = Status(asked[c][i]) /\ ~answers[c][i].close
      /\ a.status = Status(asked[c][Len(asked[c])])
  <2>1. a.status = Status(asked[c][Len(asked[c])])
    BY <1>2, <1>3 DEF Working
  <2> HIDE DEF a
  <2> QED BY <1>1, <1>4, <2>1 DEF Talk, Matching
<1>6. a \in Answers
  BY DEF a, Types, Answers, Tokens, IInv
<1> HIDE DEF a
<1>7. /\ answers'[c] = Append(answers[c], a) /\ Len(answers'[c]) = Len(answers[c]) + 1
      /\ answers'[c][Len(answers[c]) + 1] = a /\ Len(answers[c]) \in Nat
      /\ \A i \in 1..Len(answers[c]) : answers'[c][i] = answers[c][i]
  <2>1. answers[c] \in Seq(Answers) /\ answers'[c] = Append(answers[c], a)
    BY <1>1, <1>2 DEF Types
  <2> QED BY <1>6, <2>1, AppendProperties
<1>8. Matching(c)'
  <2>1. asked'[c] = asked[c]
    BY <1>2
  <2>2. \A i \in 1..Len(answers'[c]) : i \in 1..Len(answers[c]) \/ i = Len(answers[c]) + 1
    BY <1>7
  <2> QED BY <1>5, <1>7, <2>1, <2>2 DEF Matching
<1> QED BY <1>1, <1>2, <1>4, <1>5, <1>7, <1>8 DEF Talk, InHand
\* A worker's step, for the connection it serves.
LEMMA WorkerTalks ==
    ASSUME IInv, NEW w \in Workers, QuietWorker(w), NEW c \in Conns, at[w] = c,
           wpc[w] \notin {"wait", "exited"}
    PROVE  Talk(c)'
<1> USE DEF clientVars, workerVars, scanVars
<1>1. /\ Types /\ Talk(c) /\ sock[c] = "serving" /\ client[c] # "new"
      /\ \A v \in Workers : at[v] = c => v = w
  BY Serves DEF IInv, TalkInv, ArrivalInv
<1>2. client'[c] # "new" /\ asked'[c] = asked[c] /\ at' = at /\ (c \in late => c \in late')
  BY <1>1, QuietSteps
  DEF QuietWorker, WorkerExits, KeepAliveEnds, ReadRequest, ReadBody, BodyMissing,
      Dispatch, WriteResponse, Provide, ProviderDone, EndRequest, Types
<1>3. CASE c \in late'
  BY <1>2, <1>3 DEF Talk
<1>4. CASE client[c] = "gone"
  <2>1. client'[c] = "gone" /\ answers'[c] = answers[c]
    BY <1>1, <1>4 DEF QuietWorker, WorkerExits, KeepAliveEnds, ReadRequest, ReadBody, BodyMissing,
        Dispatch, WriteResponse, Provide, ProviderDone, EndRequest, Types
  <2> QED BY <1>1, <1>2, <2>1, TalkGone
<1>5. CASE c \notin late' /\ client[c] # "gone"
  <2>1. CASE WorkerExits(w)
    BY <2>1 DEF WorkerExits
  <2>2. CASE KeepAliveEnds(w)
    <3>1. /\ \A v \in Workers \ {w} : wpc'[v] = wpc[v]
          /\ wpc[w] \notin InHand /\ wpc'[w] \notin InHand
      BY <1>1, <2>2 DEF KeepAliveEnds, Types, InHand
    <3> HIDE DEF InHand
    <3> QED BY <1>1, <2>2, <3>1, TalkFrame DEF KeepAliveEnds
  <2>3. CASE BodyMissing(w)
    BY <1>5, <2>3 DEF BodyMissing
  <2>4. CASE Provide(w)
    <3>1. wpc' = wpc
      BY <1>1, <1>5, <2>4 DEF Provide, Types
    <3> QED BY <1>1, <2>4, <3>1, TalkFrame DEF Provide
  <2> QED BY <1>2, <1>5, <2>1, <2>2, <2>3, <2>4, ReadTalks, BodyTalks, DispatchTalks, AnswerTalks
          DEF QuietWorker
<1> QED BY <1>3, <1>4, <1>5

\* A browser asks again only when it has all its answers and was not told to close.
LEMMA SendTalks ==
    ASSUME IInv, NEW c \in Conns, NEW k \in Kinds, NEW close \in BOOLEAN, Send(c, k, close)
    PROVE  Talk(c)'
<1> USE DEF workerVars, scanVars
<1>1. Types /\ Talk(c)
  BY DEF IInv, TalkInv
<1>2. /\ client[c] = "idle" /\ ~ToldToClose(c)
      /\ client' = [client EXCEPT ![c] = "waiting"]
      /\ asked' = [asked EXCEPT ![c] = Append(@, k)]
      /\ wire' = [wire EXCEPT ![c] = Append(@, HeadToken(k, close))]
      /\ owes' = [owes EXCEPT ![c] = k = "post"]
      /\ UNCHANGED <<at, wpc, answers, late>>
  BY DEF Send
<1>3. client'[c] = "waiting"
  BY <1>1, <1>2 DEF Types
<1>4. SUFFICES ASSUME c \notin late PROVE Talk(c)'
  BY <1>2, <1>3 DEF Talk
<1>5. /\ Len(answers[c]) = Len(asked[c]) /\ wire[c] = <<>>
      /\ Matching(c) /\ \A w \in Workers : at[w] = c => wpc[w] \notin InHand
  BY <1>1, <1>2, <1>4 DEF Talk, Working
<1>6. answers[c] \in Seq(Answers) /\ asked[c] \in Seq(AllKinds) /\ k \in AllKinds
  BY <1>1, TokenTypes DEF Types
<1>7. \A i \in 1..Len(answers[c]) : ~answers[c][i].close
  <2> SUFFICES ASSUME NEW i \in 1..Len(answers[c]), answers[c][i].close PROVE FALSE
    OBVIOUS
  <2>1. i = Len(answers[c])
    BY <1>5 DEF Matching
  <2>2. answers[c] # <<>>
    BY <1>6
  <2> QED BY <1>2, <2>1, <2>2 DEF ToldToClose
<1>8. /\ asked'[c] = Append(asked[c], k) /\ Len(asked'[c]) = Len(asked[c]) + 1
      /\ asked'[c][Len(asked[c]) + 1] = k /\ Len(asked[c]) \in Nat
      /\ \A i \in 1..Len(asked[c]) : asked'[c][i] = asked[c][i]
  <2>1. asked'[c] = Append(asked[c], k)
    BY <1>1, <1>2 DEF Types
  <2> QED BY <1>6, <2>1, AppendProperties
<1>9. Matching(c)'
  <2>1. answers'[c] = answers[c]
    BY <1>2
  <2> QED BY <1>5, <1>8, <2>1 DEF Matching
<1>10. Unread(c)'
  <2>1. wire'[c] = <<HeadToken(k, close)>> /\ owes'[c] = (k = "post")
    BY <1>1, <1>2, <1>5 DEF Types
  <2>2. asked'[c][Len(asked'[c])] = k
    BY <1>8
  <2> QED BY <2>1, <2>2 DEF Unread
<1> HIDE DEF InHand
<1> QED BY <1>2, <1>3, <1>4, <1>5, <1>7, <1>8, <1>9, <1>10 DEF Talk

\* The body follows its head, on the wire or after the worker has taken the head.
LEMMA SendBodyTalks ==
    ASSUME IInv, NEW c \in Conns, SendBody(c)
    PROVE  Talk(c)'
<1> USE DEF workerVars, scanVars
<1>1. Types /\ Talk(c)
  BY DEF IInv, TalkInv
<1>2. /\ client[c] # "gone" /\ owes[c] /\ owes' = [owes EXCEPT ![c] = FALSE]
      /\ wire' = [wire EXCEPT ![c] = Append(@, BodyToken)]
      /\ UNCHANGED <<at, wpc, req, buff, reply, client, asked, answers, late>>
  BY DEF SendBody
<1>3. client[c] # "new"
  BY <1>1, <1>2 DEF Talk
<1>4. SUFFICES ASSUME c \notin late PROVE Talk(c)'
  BY <1>2, <1>3 DEF Talk
<1>5. client[c] = "waiting"
  BY <1>1, <1>2, <1>3, <1>4 DEF Talk, Types
<1>6. ~owes'[c] /\ wire'[c] = Append(wire[c], BodyToken)
  BY <1>1, <1>2 DEF Types
<1>7. Unread(c) => Unread(c)'
  <2> SUFFICES ASSUME Unread(c) PROVE Unread(c)'
    OBVIOUS
  <2>1. PICK kind : kind = asked[c][Len(asked[c])]
    OBVIOUS
  <2>2. PICK close \in BOOLEAN : wire[c] = <<HeadToken(kind, close)>> /\ kind = "post"
    BY <1>2, <2>1 DEF Unread
  <2>3. HeadToken(kind, close) \in Tokens /\ BodyToken \in Tokens
    BY <2>2, TokenTypes DEF AllKinds
  <2>4. wire'[c] = <<HeadToken(kind, close), BodyToken>>
    BY <1>6, <2>2, <2>3, Two
  <2>5. kind = asked'[c][Len(asked'[c])]
    BY <1>2, <2>1
  <2> QED BY <1>6, <2>2, <2>4, <2>5 DEF Unread
<1>8. \A w \in Workers : at[w] = c /\ wpc[w] \in InHand /\ Working(w, c) => Working(w, c)'
  <2> SUFFICES ASSUME NEW w \in Workers, at[w] = c, wpc[w] \in InHand, Working(w, c) PROVE Working(w, c)'
    OBVIOUS
  <2>1. wpc[w] = "body" /\ req[w].kind = "post" /\ buff[w] = <<>> /\ wire[c] = <<>>
    BY <1>2 DEF Working
  <2>2. wire'[c] = <<BodyToken>>
    BY <1>6, <2>1
  <2> QED BY <1>2, <1>5, <1>6, <2>1, <2>2 DEF Working
<1>9. Matching(c)'
  BY <1>1, <1>2, <1>4 DEF Talk, Matching
<1> HIDE DEF InHand
<1> QED BY <1>1, <1>2, <1>4, <1>5, <1>7, <1>8, <1>9 DEF Talk

LEMMA TalkStep == IInv /\ [Next]_vars => TalkInv'
<1> SUFFICES ASSUME IInv, [Next]_vars PROVE TalkInv'
  OBVIOUS
<1> USE DEF clientVars, workerVars, scanVars
<1>1. Types /\ QueueInv /\ ArrivalInv /\ ServeInv /\ \A c \in Conns : Talk(c)
  BY DEF IInv, TalkInv
\* Steps that do not touch what is said on any connection.
<1>a. ASSUME UNCHANGED <<client, owes, wire, asked, answers, late, req, buff, reply>>,
             \A w \in Workers : wpc[w] \in InHand \/ wpc'[w] \in InHand => at'[w] = at[w] /\ wpc'[w] = wpc[w]
      PROVE  TalkInv'
  <2> HIDE DEF InHand
  <2> SUFFICES ASSUME NEW c \in Conns PROVE Talk(c)'
    BY DEF TalkInv
  <2> QED BY <1>1, <1>a, TalkFrame
<1>2. CASE UNCHANGED vars
  BY <1>2, <1>a DEF vars
<1>3. CASE AcceptFails
  <2> SUFFICES ASSUME NEW c \in Conns PROVE Talk(c)'
    BY DEF TalkInv
  <2>1. client'[c] = client[c] \/ client'[c] = "gone"
    BY <1>3 DEF AcceptFails
  <2> QED BY <1>1, <1>3, <2>1, TalkGone, TalkFrame DEF AcceptFails
<1>4. CASE Joined
  BY <1>4, <1>a DEF Joined
<1>5. ASSUME NEW c \in Conns, Accept(c) PROVE TalkInv'
  BY <1>5, <1>a DEF Accept
<1>6. ASSUME NEW c \in Conns, Connect(c) PROVE TalkInv'
  <2> SUFFICES ASSUME NEW d \in Conns PROVE Talk(d)'
    BY DEF TalkInv
  <2>1. CASE d # c
    <3>1. client'[d] = client[d]
      BY <1>1, <1>6, <2>1 DEF Connect, Types
    <3> QED BY <1>1, <1>6, <3>1, TalkFrame DEF Connect
  <2>2. CASE d = c
    <3>1. client[c] = "new" /\ client'[c] = "idle" /\ sock[c] = "none"
      BY <1>1, <1>6 DEF Connect, ArrivalInv, Types
    <3>2. UNCHANGED <<at, wire, owes, asked, answers, late>>
      BY <1>6 DEF Connect
    <3>3. \A w \in Workers : at[w] # c
      BY <1>1, <3>1, Numbers DEF ServeInv, Conns
    <3>4. asked[c] = <<>> /\ answers[c] = <<>> /\ wire[c] = <<>> /\ ~owes[c]
      BY <1>1, <3>1 DEF Talk
    <3>5. Len(asked[c]) = 0 /\ Len(answers[c]) = 0
      BY <3>4
    <3>6. Matching(c)'
      BY <3>2, <3>5 DEF Matching
    <3> QED BY <2>2, <3>1, <3>2, <3>3, <3>4, <3>5, <3>6 DEF Talk
  <2> QED BY <2>1, <2>2
<1>7. ASSUME NEW c \in Conns, QuietClient(c) PROVE TalkInv'
  <2>1. CASE ScanProgress(c) \/ ScanDone(c)
    BY <2>1, <1>a DEF ScanProgress, ScanDone
  <2>2. CASE Leave(c)
    <3> SUFFICES ASSUME NEW d \in Conns PROVE Talk(d)'
      BY DEF TalkInv
    <3>1. client'[d] = client[d] \/ client'[d] = "gone"
      BY <1>1, <2>2 DEF Leave, Types
    <3> QED BY <1>1, <2>2, <3>1, TalkGone, TalkFrame DEF Leave
  <2>3. CASE SendBody(c)
    <3> SUFFICES ASSUME NEW d \in Conns, d # c PROVE Talk(d)'
      BY <2>3, SendBodyTalks DEF TalkInv
    <3>1. wire'[d] = wire[d] /\ owes'[d] = owes[d]
      BY <1>1, <2>3 DEF SendBody, Types
    <3> QED BY <1>1, <2>3, <3>1, TalkFrame DEF SendBody
  <2>4. ASSUME NEW k \in Kinds, NEW close \in BOOLEAN, Send(c, k, close) PROVE TalkInv'
    <3> SUFFICES ASSUME NEW d \in Conns, d # c PROVE Talk(d)'
      BY <2>4, SendTalks DEF TalkInv
    <3>1. /\ wire'[d] = wire[d] /\ owes'[d] = owes[d] /\ client'[d] = client[d] /\ asked'[d] = asked[d]
      BY <1>1, <2>4 DEF Send, Types
    <3> QED BY <1>1, <2>4, <3>1, TalkFrame DEF Send
  <2> QED BY <1>7, <2>1, <2>2, <2>3, <2>4 DEF QuietClient
<1>8. ASSUME NEW w \in Workers, TakeSocket(w) PROVE TalkInv'
  <2>1. \A v \in Workers : wpc[v] \in InHand \/ wpc'[v] \in InHand => at'[v] = at[v] /\ wpc'[v] = wpc[v]
    BY <1>1, <1>8 DEF TakeSocket, Types, InHand
  <2> QED BY <1>8, <2>1, <1>a DEF TakeSocket
<1>9. ASSUME NEW w \in Workers, CloseSocket(w) PROVE TalkInv'
  <2> SUFFICES ASSUME NEW d \in Conns, at[w] = d PROVE Talk(d)'
    BY <1>1, <1>9, OthersTalk DEF TalkInv, CloseSocket
  <2>1. /\ client'[d] = "gone" /\ asked'[d] = <<>> /\ answers'[d] = <<>>
    BY <1>1, <1>9 DEF CloseSocket, Types
  <2>2. Len(asked'[d]) = 0 /\ Len(answers'[d]) = 0
    BY <2>1
  <2>3. Matching(d)'
    BY <2>2 DEF Matching
  <2> QED BY <2>1, <2>3 DEF Talk
<1>10. ASSUME NEW w \in Workers, QuietWorker(w) PROVE TalkInv'
  <2>1. CASE wpc[w] \in {"wait", "exited"}
    <3>1. WorkerExits(w)
      BY <1>10, <2>1 DEF QuietWorker, KeepAliveEnds, ReadRequest, ReadBody, BodyMissing, Dispatch,
                         WriteResponse, Provide, ProviderDone
    <3>2. \A v \in Workers : wpc[v] \in InHand \/ wpc'[v] \in InHand => wpc'[v] = wpc[v]
      BY <1>1, <3>1 DEF WorkerExits, Types, InHand
    <3> QED BY <3>1, <3>2, <1>a DEF WorkerExits
  <2>2. CASE wpc[w] \notin {"wait", "exited"}
    BY <1>1, <1>10, <2>2, OthersTalk, WorkerTalks DEF TalkInv
  <2> QED BY <2>1, <2>2
<1> QED BY <1>2, <1>3, <1>4, <1>5, <1>6, <1>7, <1>8, <1>9, <1>10, Moves
LEMMA Inductive == IInv /\ [Next]_vars => IInv'
  BY TypeStep, QueueStep, ArrivalStep, ServeStep, TalkStep DEF IInv

\* The invariant of the server: sockets are taken in the order of accept, each is served by
\* one worker, and what a client waits for is on the wire, in a buffer or in a worker's hand
\* (listen_internal, ThreadPool::worker, process_server_socket_core, process_request).
THEOREM Invariant == Spec => []IInv
<1> QED BY Initially, Inductive, PTL DEF Spec

\* The answers of a connection are those of its requests, one each and in their order, and
\* only the last announces the end, unless a body missed the read timeout there (read_content
\* in routing, process_server_socket_core).
THEOREM AnswersFit == Spec => []RequestsHaveTheirAnswers
<1>1. IInv => TypeOK
  BY DEF IInv, Types, ServeInv, TypeOK, SockStates, WorkerPlaces
<1>2. IInv => AnswersMatchRequests
  BY DEF IInv, TalkInv, Talk, Matching, AnswersMatchRequests
<1> QED BY <1>1, <1>2, Invariant, PTL DEF RequestsHaveTheirAnswers

-----------------------------------------------------------------------------
\* Both modules count with the same Cardinality.
LEMMA SameCardinality == Pool!Cardinality(Closed) = Cardinality(Closed)
BY DEF Pool!Cardinality, Cardinality

\* A worker that waits for a socket serves none: the sockets being served are fewer than the
\* workers.
LEMMA FreeWorker ==
    ASSUME Types, ServeInv, NEW w \in Workers, wpc[w] = "wait"
    PROVE  Cardinality(Taken) - Cardinality(Closed) < Cardinality(Workers)
<1> DEFINE serving == Taken \ Closed
           others == Workers \ {w}
           holder == [c \in serving |-> CHOOSE v \in Workers : at[v] = c]
<1>1. \A c \in serving : sock[c] = "serving" /\ c \in Conns
  BY DEF Taken, Accepted, Closed
<1>2. \A c \in serving : holder[c] \in others /\ at[holder[c]] = c
  <2> SUFFICES ASSUME NEW c \in serving PROVE holder[c] \in others /\ at[holder[c]] = c
    OBVIOUS
  <2>1. \E v \in Workers : at[v] = c
    BY <1>1 DEF ServeInv
  <2>2. holder[c] \in Workers /\ at[holder[c]] = c
    BY <2>1
  <2>3. at[w] # c
    BY <1>1, Numbers DEF ServeInv, Conns
  <2> QED BY <2>2, <2>3
<1>3. holder \in Injection(serving, others)
  <2> HIDE DEF serving, others
  <2>1. holder \in [serving -> others]
    BY <1>2
  <2> HIDE DEF holder
  <2> QED BY <1>2, <2>1 DEF Injection, IsInjective
<1>4. /\ IsFiniteSet(others) /\ Cardinality(others) = Cardinality(Workers) - 1
      /\ Cardinality(Workers) \in Nat
  BY HttpServerSizes, FS_RemoveElement, FS_CardinalityType
<1>5. Cardinality(serving) <= Cardinality(others)
  BY <1>3, <1>4, FS_Injection
<1>6. IsFiniteSet(serving) /\ Cardinality(serving) = Cardinality(Taken) - Cardinality(Closed)
  <2>1. Taken \cap Closed = Closed
    BY DEF Taken, Accepted, Closed
  <2> QED BY <2>1, TakenSize, FS_Difference
<1>7. Cardinality(serving) \in Nat
  BY <1>6, FS_CardinalityType
<1> HIDE DEF serving, others
<1> QED BY <1>4, <1>5, <1>6, <1>7

\* When every worker has left, everything that was accepted has been closed.
LEMMA AllClosed ==
    ASSUME Types, QueueInv, ServeInv, \A w \in Workers : wpc[w] = "exited"
    PROVE  jobs = <<>> /\ Closed = 1..Cardinality(Taken)
<1>1. jobs = <<>>
  BY HttpServerSizes DEF ServeInv
<1>2. \A c \in Conns : sock[c] # "serving"
  BY Numbers DEF ServeInv, Conns
<1>3. Closed = Taken
  BY <1>2 DEF Taken, Accepted, Closed
<1>4. Taken = 1..Cardinality(Taken)
  <2> DEFINE n == Cardinality(Taken)
  <2>1. \A c \in Conns : c \in Taken <=> c <= n
    BY DEF QueueInv
  <2>2. Taken \subseteq Conns /\ n \in 0..NumConns /\ Conns = 1..NumConns
    BY TakenSize DEF Conns
  <2> HIDE DEF n
  <2>3. \A c \in Taken : c \in 1..n
    BY <2>1, <2>2, Numbers
  <2>4. \A c \in 1..n : c \in Taken
    BY <2>1, <2>2, Numbers
  <2>5. Taken = 1..n
    BY <2>3, <2>4
  <2> QED BY <2>5 DEF n
<1> QED BY <1>1, <1>3, <1>4

\* One socket more has been taken.
LEMMA OneMore ==
    ASSUME NEW n \in Nat
    PROVE  /\ Len([i \in 1..n |-> i]) = n
           /\ [i \in 1..(n + 1) |-> i] = Append([i \in 1..n |-> i], n + 1)
<1> DEFINE s == [i \in 1..n |-> i]
           t == [i \in 1..(n + 1) |-> i]
<1>1. s \in Seq(Nat) /\ Len(s) = n /\ t \in Seq(Nat) /\ Len(t) = n + 1
  OBVIOUS
<1>2. /\ Append(s, n + 1) \in Seq(Nat) /\ Len(Append(s, n + 1)) = n + 1
      /\ \A i \in 1..n : Append(s, n + 1)[i] = s[i]
      /\ Append(s, n + 1)[n + 1] = n + 1
  BY <1>1, AppendProperties
<1>3. \A i \in 1..(n + 1) : t[i] = Append(s, n + 1)[i]
  BY <1>2
<1> HIDE DEF s, t
<1>4. t = Append(s, n + 1)
  BY <1>1, <1>2, <1>3, SeqEqual
<1> QED BY <1>1, <1>4 DEF s, t

\* Every step of the server is a step of TaskPool or leaves what its owner sees alone.
LEMMA RefinementStep == IInv /\ [Next]_vars => [Pool!Next]_(Pool!poolVars)
<1> SUFFICES ASSUME IInv, [Next]_vars PROVE Pool!Next \/ UNCHANGED Pool!poolVars
  OBVIOUS
<1>0. Types /\ QueueInv /\ ArrivalInv /\ ServeInv
  BY DEF IInv
<1>n. Cardinality(Taken) \in Nat /\ Cardinality(Taken) <= NumConns
  BY <1>0, TakenSize, Numbers
\* A step that takes and closes no socket and leaves the queue alone.
<1>a. ASSUME UNCHANGED <<listener, jobs>>, Taken' = Taken, Closed' = Closed PROVE UNCHANGED Pool!poolVars
  BY <1>a DEF Pool!poolVars, Phase
<1>b. sock' = sock => Taken' = Taken /\ Closed' = Closed
  BY DEF Taken, Accepted, Closed
<1>1. CASE UNCHANGED vars
  BY <1>1, <1>a, <1>b DEF vars
<1>2. CASE AcceptFails
  <2>1. Taken' = Taken /\ Closed' = Closed /\ jobs' = jobs
    BY <1>0, <1>2 DEF AcceptFails, Taken, Accepted, Closed, Types
  <2>2. Phase = "open" /\ Phase' = "closing"
    BY <1>2 DEF AcceptFails, Phase
  <2>3. Pool!Close
    BY <2>1, <2>2 DEF Pool!Close
  <2> QED BY <2>3 DEF Pool!Next
<1>3. CASE Joined
  <2>1. Taken' = Taken /\ Closed' = Closed /\ jobs' = jobs
    BY <1>3, <1>b DEF Joined
  <2>2. Phase = "closing" /\ Phase' = "closed"
    BY <1>3 DEF Joined, Phase
  <2>3. Closed = 1..(Len(jobs) + Cardinality(Taken))
    <3>1. jobs = <<>> /\ Closed = 1..Cardinality(Taken)
      BY <1>0, <1>3, AllClosed DEF Joined
    <3>2. Len(jobs) = 0
      BY <3>1
    <3> QED BY <1>n, <3>1, <3>2
  <2>4. Pool!Return
    BY <2>1, <2>2, <2>3 DEF Pool!Return
  <2> QED BY <2>4 DEF Pool!Next
<1>4. ASSUME NEW c \in Conns, Accept(c) PROVE Pool!Next
  <2>1. Taken' = Taken /\ Closed' = Closed
    BY <1>0, <1>4 DEF Accept, Taken, Accepted, Closed, Types
  <2>2. Phase = "open" /\ Phase' = "open"
    BY <1>4 DEF Accept, Phase
  <2>3. jobs \in Seq(Conns) /\ jobs' = Append(jobs, c)
    BY <1>0, <1>4 DEF Types, Accept
  <2>4. Len(jobs') = Len(jobs) + 1 /\ Len(jobs) \in Nat
    BY <2>3, AppendProperties
  <2>5. c = Cardinality(Taken) + Len(jobs) + 1 /\ c <= NumConns
    BY <1>0, <1>4, NextAccepted, Numbers DEF Conns
  <2>6. Len(jobs) + Cardinality(Taken) < NumConns
    BY <1>n, <2>4, <2>5, Numbers
  <2>7. Len(jobs') + Cardinality(Taken') = Len(jobs) + Cardinality(Taken) + 1
    BY <1>n, <2>1, <2>4
  <2>8. Pool!Submit
    BY <2>1, <2>2, <2>6, <2>7 DEF Pool!Submit
  <2> QED BY <2>8 DEF Pool!Next
<1>5. ASSUME NEW c \in Conns, Connect(c) PROVE UNCHANGED Pool!poolVars
  <2>1. sock[c] = "none" /\ sock' = [sock EXCEPT ![c] = "backlog"] /\ UNCHANGED <<listener, jobs>>
    BY <1>0, <1>5 DEF Connect, ArrivalInv
  <2>2. Taken' = Taken /\ Closed' = Closed
    BY <1>0, <2>1 DEF Taken, Accepted, Closed, Types
  <2> QED BY <2>1, <2>2, <1>a
<1>6. ASSUME NEW c \in Conns, QuietClient(c) PROVE UNCHANGED Pool!poolVars
  BY <1>6, <1>a, <1>b, QuietSteps
<1>7. ASSUME NEW w \in Workers, TakeSocket(w) PROVE Pool!Next
  <2> DEFINE n == Cardinality(Taken)
  <2>1. Cardinality(Taken') = n + 1 /\ Len(jobs) \in Nat \ {0} /\ Len(jobs') = Len(jobs) - 1
    BY <1>0, <1>7, NextTaken
  <2>2. Closed' = Closed /\ Phase' = Phase
    <3>1. Head(jobs) \in Conns /\ sock[Head(jobs)] = "queued" /\ sock' = [sock EXCEPT ![Head(jobs)] = "serving"]
      BY <1>0, <1>7, NextTaken DEF TakeSocket
    <3> DEFINE h == Head(jobs)
    <3>2. listener' = listener
      BY <1>7 DEF TakeSocket
    <3>3. sock \in [Conns -> SockStates]
      BY <1>0 DEF Types
    <3> HIDE DEF h
    <3>4. \A c \in Conns : sock'[c] = "closed" <=> sock[c] = "closed"
      <4>1. h \in Conns /\ sock[h] = "queued" /\ sock' = [sock EXCEPT ![h] = "serving"]
        BY <3>1 DEF h
      <4> QED BY <3>3, <4>1
    <3> QED BY <3>2, <3>4 DEF Closed, Phase
  <2>3. Phase \in {"open", "closing"}
    BY <1>0, <1>7 DEF TakeSocket, Phase, Types, ServeInv
  <2>4. n - Cardinality(Closed) < Cardinality(Workers)
    BY <1>0, <1>7, FreeWorker DEF TakeSocket
  <2>5. /\ Len([i \in 1..n |-> i]) = n
        /\ [i \in 1..(n + 1) |-> i] = Append([i \in 1..n |-> i], n + 1)
    BY <1>n, OneMore
  <2>6. Len(jobs') + Cardinality(Taken') = Len(jobs) + n /\ n < Len(jobs) + n
    BY <1>n, <2>1
  <2>7. Pool!Start
    BY <2>1, <2>2, <2>3, <2>4, <2>5, <2>6, SameCardinality DEF Pool!Start
  <2> QED BY <2>7 DEF Pool!Next
<1>8. ASSUME NEW w \in Workers, CloseSocket(w) PROVE Pool!Next
  <2> DEFINE n == Cardinality(Taken)
             c == at[w]
  <2>1. c \in Conns /\ sock[c] = "serving" /\ sock' = [sock EXCEPT ![c] = "closed"] /\ UNCHANGED <<listener, jobs>>
    BY <1>0, <1>8, Serves DEF CloseSocket
  <2>2. Taken' = Taken /\ Closed' = Closed \cup {c} /\ c \in Taken /\ c \notin Closed
    BY <1>0, <2>1 DEF Taken, Accepted, Closed, Types
  <2>3. c \in 1..n /\ Len([i \in 1..n |-> i]) = n
    <3>1. c <= n
      BY <1>0, <2>1, <2>2 DEF QueueInv
    <3> QED BY <1>n, <2>1, <3>1, OneMore, Numbers DEF Conns
  <2>4. Phase \in {"open", "closing"} /\ Phase' = Phase
    BY <1>0, <1>8, <2>1 DEF CloseSocket, Phase, Types, ServeInv
  <2>5. Pool!Finish(c)
    BY <2>1, <2>2, <2>3, <2>4 DEF Pool!Finish
  <2>6. c \in Pool!Tasks
    BY <2>1 DEF Pool!Tasks, Conns
  <2> QED BY <2>5, <2>6 DEF Pool!Next
<1>9. ASSUME NEW w \in Workers, QuietWorker(w) PROVE UNCHANGED Pool!poolVars
  BY <1>9, <1>a, <1>b, QuietSteps
<1> QED BY <1>1, <1>2, <1>3, <1>4, <1>5, <1>6, <1>7, <1>8, <1>9, Moves

\* The accept loop, the queue of sockets and the workers of the HTTP library are a TaskPool,
\* for every number of workers and connections: sockets are served in the order of accept,
\* and listen returns only when each of them has been closed (listen_internal, ThreadPool).
THEOREM Refinement == Spec => ImplementsTaskPool
<1>1. Init => Pool!Init
  <2> SUFFICES ASSUME Init PROVE Pool!Init
    OBVIOUS
  <2>1. Taken = {} /\ Closed = {} /\ Phase = "open" /\ jobs = <<>>
    BY DEF Init, Taken, Accepted, Closed, Phase
  <2>2. Cardinality(Taken) = 0 /\ Len(jobs) = 0
    BY <2>1, FS_EmptySet
  <2>3. [i \in 1..0 |-> i] = <<>>
    OBVIOUS
  <2> QED BY <2>1, <2>2, <2>3 DEF Pool!Init
<1> QED BY <1>1, Invariant, RefinementStep, PTL DEF Spec, ImplementsTaskPool, Pool!Spec
=============================================================================
