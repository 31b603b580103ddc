----------------------------- MODULE Transports -----------------------------
(***************************************************************************)
(* transport::Tcp and transport::Udp: what they make of the results of the *)
(* system calls.  The peer is a sequence of chunks, the results of the     *)
(* successive calls of recv; an empty chunk is a timeout, an error or the  *)
(* end, and so is everything behind the last one.                          *)
(***************************************************************************)
EXTENDS Integers, Sequences

\* Tcp::connect on a call whose results are known: connect is "done", "EINPROGRESS",
\* "ECONNREFUSED" or "other", poll is "ready", "timeout" or "error", and pending is
\* the error of the socket behind a poll that is ready.
Connect(c) ==
    CASE ~c.socket \/ ~c.address \/ ~c.nonblocking -> "unknown"
      [] c.socket /\ c.address /\ c.nonblocking ->
            CASE c.connect = "done" -> "open"
              [] c.connect = "ECONNREFUSED" -> "closed"
              [] c.connect = "other" -> "filtered"
              [] c.connect = "EINPROGRESS" ->
                    CASE c.poll = "timeout" -> "filtered"
                      [] c.poll = "error" -> "unknown"
                      [] c.poll = "ready" /\ c.pending = "none" -> "open"
                      [] c.poll = "ready" /\ c.pending = "ECONNREFUSED" -> "closed"
                      [] c.poll = "ready" /\ c.pending = "other" -> "filtered"

Interrupted == -1
SendFails == 0

\* Tcp::send, as if a short write were the end.
Bug_ShortWriteIsAll(data, results) ==
    IF results = <<>> THEN [ok |-> TRUE, sent |-> data]
    ELSE [ok |-> results[1] > 0, sent |-> SubSeq(data, 1, results[1])]

\* Tcp::send: the loop over the results of ::send, each the number of bytes taken;
\* behind the last one the rest is taken at once.
RECURSIVE Send(_, _)
Send(data, results) ==
    IF results = <<>> \/ data = <<>> THEN [ok |-> TRUE, sent |-> data]
    ELSE IF Head(results) = Interrupted THEN Send(data, Tail(results))
    ELSE IF Head(results) = SendFails THEN [ok |-> FALSE, sent |-> <<>>]
    ELSE LET rest == Send(SubSeq(data, Head(results) + 1, Len(data)), Tail(results))
         IN  [rest EXCEPT !.sent = SubSeq(data, 1, Head(results)) \o @]

\* Tcp::receive, and Udp::receive: the i-th chunk.
Receive(chunks, i) == IF i <= Len(chunks) THEN chunks[i] ELSE <<>>

\* The loop that reads until size bytes are there or nothing comes any more.
RECURSIVE ReceiveUntil(_, _, _, _)
ReceiveUntil(chunks, i, size, buffer) ==
    IF Len(buffer) >= size \/ Receive(chunks, i) = <<>> THEN [data |-> buffer, next |-> i]
    ELSE ReceiveUntil(chunks, i + 1, size, buffer \o Receive(chunks, i))

\* Udp::send: one datagram, whole or not at all.
SendDatagram(c) == c.socket /\ c.address /\ c.whole
=============================================================================
