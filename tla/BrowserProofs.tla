---------------------------- MODULE BrowserProofs ----------------------------
(***************************************************************************)
(* Proofs about the two components the browser talks to, which share no    *)
(* state.                                                                  *)
(* The sign-in: for any number of flows, callbacks, requests and users and *)
(* any lifetimes, each flow makes at most one session, of the user who     *)
(* signed in for it, and a dead session stays dead.                        *)
(* The page: for any scans, rows and number of opens, a user who waits for *)
(* the details of a scan before opening the next sees each stream in the   *)
(* view of its own scan, one stream at a time, and all rows once the view  *)
(* says done.  For overlapping opens this is false (the run                *)
(* dashboard_overlap).                                                     *)
(***************************************************************************)
EXTENDS Login, Dashboard, SequenceTheorems, TLAPS

(* Part 1: the sign-in. *)

Codes == [flow : Flows, user : Users]
CallbackPlaces == {"idle", "lookup", "exchange", "verify", "userinfo",
                   "signed_in", "signed_out", "rejected"}
RequestPlaces == {"idle", "require", "session", "unauthorized", "insert", "answered"}

\* Every variable is a function or a set of the kind Init makes it.
Types ==
    /\ now \in 0..MaxTime
    /\ pending \in [Flows -> 0..(MaxTime + FlowTtl) \cup {None}]
    /\ begun \subseteq Flows
    /\ codes \subseteq Codes
    /\ cb \in [Callbacks -> [pc : CallbackPlaces, state : Flows \cup {None}, code : Codes \cup {None}]]
    /\ sessions \in [Callbacks -> [sub : Users, expires : Nat] \cup {None}]
    /\ rq \in [Requests -> [pc : RequestPlaces, kind : {"me", "scan", None},
                            sid : Callbacks \cup {None}, sub : Users \cup {Nobody, "killed", None}]]
    /\ owner \in [Requests -> Users \cup {Nobody, None}]

\* A callback that got past the lookup has taken its flow out of pending_, where it
\* never comes back, so no other callback has the same flow.
Claimed(c) == cb[c].pc \in {"exchange", "verify", "userinfo", "signed_in", "signed_out"}

FlowInv ==
    /\ \A f \in Flows : pending[f] # None => f \in begun
    /\ \A c \in Callbacks : cb[c].pc # "idle" => cb[c].state \in begun /\ cb[c].code \in codes
    /\ \A c \in Callbacks : Claimed(c) => pending[cb[c].state] = None
    /\ \A c, d \in Callbacks : c # d /\ Claimed(c) /\ Claimed(d) => cb[c].state # cb[d].state

\* A session is of the user of its callback's code, and that code is for its flow.
SessionInv ==
    /\ \A c \in Callbacks : cb[c].pc \in {"userinfo", "signed_in", "signed_out"} =>
            cb[c].code.flow = cb[c].state
    /\ \A c \in Callbacks : sessions[c] # None =>
            cb[c].pc = "signed_in" /\ sessions[c].sub = cb[c].code.user

\* A request has the cookie of a session that was made, and what it takes from the
\* session is that session's user, or nothing.
RequestInv ==
    \A r \in Requests :
        /\ rq[r].pc # "idle" => rq[r].sid \in Callbacks /\ MadeSession(rq[r].sid)
        /\ rq[r].pc = "insert" => rq[r].sub \in {Nobody, cb[rq[r].sid].code.user} \cap (Users \cup {Nobody})
        /\ owner[r] # None =>
              rq[r].pc = "answered" /\ owner[r] \in {Nobody, cb[rq[r].sid].code.user}

IInv == Types /\ FlowInv /\ SessionInv /\ RequestInv

-----------------------------------------------------------------------------
\* The server starts without flows, sessions and requests.
LEMMA InitIInv == Init => IInv
BY LoginConstants DEF Init, IInv, Types, FlowInv, SessionInv, RequestInv, CallbackPlaces,
   RequestPlaces, Claimed

\* An answer to a callback changes the place of that callback and nothing else of it.
LEMMA ReplyFacts ==
  ASSUME Types, NEW c \in Callbacks, NEW label \in CallbackPlaces, Reply(c, label)
  PROVE  /\ cb' \in [Callbacks -> [pc : CallbackPlaces, state : Flows \cup {None},
                                   code : Codes \cup {None}]]
         /\ cb'[c].pc = label /\ cb'[c].state = cb[c].state /\ cb'[c].code = cb[c].code
         /\ \A d \in Callbacks : d # c => cb'[d] = cb[d]
BY DEF Types, Reply

\* A request may go from any place to any other and is still a request, with the same cookie.
LEMMA MoveFacts ==
  ASSUME Types, NEW r \in Requests, NEW place \in RequestPlaces,
         rq' = [rq EXCEPT ![r].pc = place]
  PROVE  rq' \in [Requests -> [pc : RequestPlaces, kind : {"me", "scan", None},
                  sid : Callbacks \cup {None}, sub : Users \cup {Nobody, "killed", None}]]
<1>1. [rq[r] EXCEPT !.pc = place]
          \in [pc : RequestPlaces, kind : {"me", "scan", None}, sid : Callbacks \cup {None},
              sub : Users \cup {Nobody, "killed", None}]
  BY DEF Types
<1> QED BY <1>1 DEF Types

\* Types are preserved by every step.
LEMMA TypesStep == IInv /\ [Next]_vars => Types'
<1> SUFFICES ASSUME IInv, [Next]_vars PROVE Types'
  OBVIOUS
<1> USE LoginConstants DEF Types, IInv
<1>1. CASE Tick
  BY <1>1 DEF Tick
<1>2. ASSUME NEW f \in Flows, AuthStart(f) PROVE Types'
  BY <1>2 DEF AuthStart
<1>3. ASSUME NEW f \in Flows, NEW u \in Users, Authorize(f, u) PROVE Types'
  BY <1>3 DEF Authorize, Codes
<1>4. ASSUME NEW c \in Callbacks, NEW f \in Flows, NEW d \in codes, CallbackArrives(c, f, d)
      PROVE  Types'
  BY <1>4 DEF CallbackArrives, CallbackPlaces
<1>5. ASSUME NEW c \in Callbacks, CallbackLookup(c) PROVE Types'
  <2>1. cb' \in [Callbacks -> [pc : CallbackPlaces, state : Flows \cup {None},
                              code : Codes \cup {None}]]
    BY <1>5, ReplyFacts DEF CallbackLookup, CallbackPlaces
  <2> QED BY <1>5, <2>1 DEF CallbackLookup
<1>6. ASSUME NEW c \in Callbacks, CallbackExchange(c) PROVE Types'
  BY <1>6, ReplyFacts DEF CallbackExchange, CallbackPlaces
<1>7. ASSUME NEW c \in Callbacks, CallbackVerify(c) PROVE Types'
  BY <1>7, ReplyFacts DEF CallbackVerify, CallbackPlaces
<1>8. ASSUME NEW c \in Callbacks, CallbackSession(c) PROVE Types'
  <2>1. cb[c].code \in Codes
    BY <1>8 DEF CallbackSession, FlowInv
  <2>2. sessions' \in [Callbacks -> [sub : Users, expires : Nat] \cup {None}]
    BY <1>8, <2>1 DEF CallbackSession, Codes
  <2> QED BY <1>8, <2>2, ReplyFacts DEF CallbackSession, CallbackPlaces
<1>9. ASSUME NEW c \in Callbacks, Logout(c) PROVE Types'
  BY <1>9, ReplyFacts DEF Logout, CallbackPlaces
<1>10. ASSUME NEW r \in Requests, NEW kind \in {"me", "scan"}, NEW c \in Callbacks,
              RequestArrives(r, kind, c)
       PROVE  Types'
  BY <1>10 DEF RequestArrives, RequestPlaces
<1>11. ASSUME NEW r \in Requests, RequireSession(r) PROVE Types'
  <2>1. \E place \in RequestPlaces : rq' = [rq EXCEPT ![r].pc = place]
    BY <1>11 DEF RequireSession, RequestPlaces
  <2>2. rq' \in [Requests -> [pc : RequestPlaces, kind : {"me", "scan", None},
                  sid : Callbacks \cup {None}, sub : Users \cup {Nobody, "killed", None}]]
    BY <2>1, MoveFacts
  <2>3. sessions' \in [Callbacks -> [sub : Users, expires : Nat] \cup {None}]
    BY <1>11 DEF RequireSession, GetSession
  <2> QED BY <1>11, <2>2, <2>3 DEF RequireSession
<1>12. ASSUME NEW r \in Requests, SecondLookup(r) PROVE Types'
  <2> DEFINE c == rq[r].sid
             sub == IF Live(c) THEN sessions[c].sub ELSE Nobody
  <2>1. c \in Callbacks
    BY <1>12 DEF SecondLookup, RequestInv
  <2>2. sessions' \in [Callbacks -> [sub : Users, expires : Nat] \cup {None}]
    BY <1>12, <2>1 DEF SecondLookup, GetSession
  <2>3. sub \in Users \cup {Nobody}
    <3>1. CASE Live(c)
      <4>1. sessions[c] \in [sub : Users, expires : Nat]
        BY <2>1, <3>1 DEF Live
      <4> QED BY <3>1, <4>1
    <3>2. CASE ~Live(c)
      BY <3>2
    <3> QED BY <3>1, <3>2
  <2> HIDE DEF sub
  <2>4. \E place \in {"insert", "answered"}, s \in Users \cup {Nobody, "killed"} :
            rq' = [rq EXCEPT ![r].pc = place, ![r].sub = s]
    BY <1>12, <2>3 DEF SecondLookup, sub
  <2>5. rq' \in [Requests -> [pc : RequestPlaces, kind : {"me", "scan", None},
                  sid : Callbacks \cup {None}, sub : Users \cup {Nobody, "killed", None}]]
    <3>1. PICK place \in {"insert", "answered"}, s \in Users \cup {Nobody, "killed"} :
              rq' = [rq EXCEPT ![r] = [rq[r] EXCEPT !.pc = place, !.sub = s]]
      BY <2>4
    <3>2. [rq[r] EXCEPT !.pc = place, !.sub = s]
              \in [pc : RequestPlaces, kind : {"me", "scan", None}, sid : Callbacks \cup {None},
                  sub : Users \cup {Nobody, "killed", None}]
      <4>1. rq[r] \in [pc : RequestPlaces, kind : {"me", "scan", None}, sid : Callbacks \cup {None},
                       sub : Users \cup {Nobody, "killed", None}]
        OBVIOUS
      <4>2. place \in RequestPlaces
        BY DEF RequestPlaces
      <4> HIDE DEF Types, IInv
      <4> QED BY <4>1, <4>2
    <3> QED BY <3>1, <3>2
  <2> QED BY <1>12, <2>2, <2>5 DEF SecondLookup
<1>13. ASSUME NEW r \in Requests, InsertScan(r) PROVE Types'
  <2>1. rq' = [rq EXCEPT ![r].pc = "answered"] /\ "answered" \in RequestPlaces
    BY <1>13 DEF InsertScan, RequestPlaces
  <2>2. rq' \in [Requests -> [pc : RequestPlaces, kind : {"me", "scan", None},
                  sid : Callbacks \cup {None}, sub : Users \cup {Nobody, "killed", None}]]
    BY <2>1, MoveFacts
  <2>3. owner' \in [Requests -> Users \cup {Nobody, None}]
    BY <1>13 DEF InsertScan, RequestInv
  <2> QED BY <1>13, <2>2, <2>3 DEF InsertScan
<1>14. CASE UNCHANGED vars
  BY <1>14 DEF vars
<1> QED
  BY <1>1, <1>2, <1>3, <1>4, <1>5, <1>6, <1>7, <1>8, <1>9, <1>10, <1>11, <1>12, <1>13, <1>14 DEF Next

-----------------------------------------------------------------------------
\* The steps of a callback that has arrived, and of its session.
CallbackStep(c) ==
    \/ CallbackLookup(c) \/ CallbackExchange(c) \/ CallbackVerify(c)
    \/ CallbackSession(c) \/ Logout(c)

\* Such a step moves the callback one place on and leaves its flow and code alone.
LEMMA CallbackMoves ==
  ASSUME Types, NEW c \in Callbacks, CallbackStep(c)
  PROVE  /\ \A d \in Callbacks :
               /\ cb'[d].state = cb[d].state /\ cb'[d].code = cb[d].code
               /\ d # c => cb'[d].pc = cb[d].pc
         /\ \/ cb[c].pc = "lookup" /\ cb'[c].pc \in {"rejected", "exchange"}
            \/ cb[c].pc = "exchange" /\ cb'[c].pc \in {"rejected", "verify"}
            \/ cb[c].pc = "verify" /\ cb'[c].pc \in {"rejected", "userinfo"}
            \/ cb[c].pc = "userinfo" /\ cb'[c].pc = "signed_in"
            \/ cb[c].pc = "signed_in" /\ cb'[c].pc = "signed_out"
         /\ UNCHANGED <<now, begun, codes, rq, owner>>
<1> USE DEF CallbackPlaces
<1>1. CASE CallbackLookup(c)
  BY <1>1, ReplyFacts DEF CallbackLookup
<1>2. CASE CallbackExchange(c)
  BY <1>2, ReplyFacts DEF CallbackExchange
<1>3. CASE CallbackVerify(c)
  BY <1>3, ReplyFacts DEF CallbackVerify
<1>4. CASE CallbackSession(c)
  BY <1>4, ReplyFacts DEF CallbackSession
<1>5. CASE Logout(c)
  BY <1>5, ReplyFacts DEF Logout
<1> QED BY <1>1, <1>2, <1>3, <1>4, <1>5 DEF CallbackStep

\* The callback that passes the lookup is the only one that has its flow.
LEMMA FlowStep == IInv /\ [Next]_vars => FlowInv'
<1> SUFFICES ASSUME IInv, [Next]_vars PROVE FlowInv'
  OBVIOUS
<1> USE DEF IInv, Types, FlowInv, Claimed
<1>1. CASE Tick
  BY <1>1 DEF Tick
<1>2. ASSUME NEW f \in Flows, AuthStart(f) PROVE FlowInv'
  BY <1>2 DEF AuthStart
<1>3. ASSUME NEW f \in Flows, NEW u \in Users, Authorize(f, u) PROVE FlowInv'
  BY <1>3 DEF Authorize
<1>4. ASSUME NEW c \in Callbacks, NEW f \in Flows, NEW d \in codes, CallbackArrives(c, f, d)
      PROVE  FlowInv'
  BY <1>4 DEF CallbackArrives
<1>5. ASSUME NEW c \in Callbacks, CallbackStep(c) PROVE FlowInv'
  <2>1. CASE CallbackLookup(c)
    <3>1. cb[c].pc = "lookup" /\ cb[c].state \in begun /\ cb[c].state \in Flows
      BY <2>1 DEF CallbackLookup
    <3>2. pending' = [pending EXCEPT ![cb[c].state] = None]
      BY <2>1 DEF CallbackLookup
    <3>3. Claimed(c)' => pending[cb[c].state] # None
      BY <2>1, ReplyFacts DEF CallbackLookup, CallbackPlaces
    <3>4. /\ \A d \in Callbacks : /\ cb'[d].state = cb[d].state /\ cb'[d].code = cb[d].code
                                  /\ cb'[d].pc # "idle" => cb[d].pc # "idle"
                                  /\ d # c /\ Claimed(d)' => Claimed(d)
          /\ UNCHANGED <<begun, codes>>
      BY <1>5, <3>1, CallbackMoves
    <3>5. \A f \in Flows : pending'[f] = IF f = cb[c].state THEN None ELSE pending[f]
      BY <3>1, <3>2
    <3>6. \A d \in Callbacks : cb[d].pc # "idle" => cb[d].state \in Flows
      OBVIOUS
    <3> HIDE DEF Types, Claimed
    <3> QED
      <4>1. \A d \in Callbacks : Claimed(d)' => pending'[cb'[d].state] = None
        <5> SUFFICES ASSUME NEW d \in Callbacks, Claimed(d)' PROVE pending'[cb'[d].state] = None
          OBVIOUS
        <5>1. cb[d].pc # "idle" /\ cb'[d].state = cb[d].state /\ cb[d].state \in Flows
          BY <3>4, <3>6 DEF Claimed
        <5> QED BY <3>4, <3>5, <5>1
      <4>2. \A d, e \in Callbacks : d # e /\ Claimed(d)' /\ Claimed(e)' => cb'[d].state # cb'[e].state
        BY <3>3, <3>4
      <4> QED BY <3>4, <3>5, <4>1, <4>2
  <2>2. CASE ~CallbackLookup(c)
    <3>1. UNCHANGED pending /\ cb[c].pc # "lookup"
      BY <1>5, <2>2 DEF CallbackStep, CallbackExchange, CallbackVerify, CallbackSession, Logout
    <3>2. \A d \in Callbacks : (Claimed(d)' => Claimed(d)) /\ (cb'[d].pc # "idle" => cb[d].pc # "idle")
      BY <1>5, <3>1, CallbackMoves
    <3> QED BY <1>5, <3>1, <3>2, CallbackMoves
  <2> QED BY <2>1, <2>2
<1>6. ASSUME NEW r \in Requests, NEW kind \in {"me", "scan"}, NEW c \in Callbacks,
             RequestArrives(r, kind, c)
      PROVE  FlowInv'
  BY <1>6 DEF RequestArrives
<1>7. ASSUME NEW r \in Requests, RequireSession(r) PROVE FlowInv'
  BY <1>7 DEF RequireSession, GetSession
<1>8. ASSUME NEW r \in Requests, SecondLookup(r) PROVE FlowInv'
  BY <1>8 DEF SecondLookup, GetSession
<1>9. ASSUME NEW r \in Requests, InsertScan(r) PROVE FlowInv'
  BY <1>9 DEF InsertScan
<1>10. CASE UNCHANGED vars
  BY <1>10 DEF vars
<1> HIDE DEF IInv, Types, FlowInv, Claimed
<1> QED
  BY <1>1, <1>2, <1>3, <1>4, <1>5, <1>6, <1>7, <1>8, <1>9, <1>10 DEF Next, CallbackStep

\* The user of a session is the one whose code had the nonce of the flow.
LEMMA SessionStep == IInv /\ [Next]_vars => SessionInv'
<1> SUFFICES ASSUME IInv, [Next]_vars PROVE SessionInv'
  OBVIOUS
<1> USE DEF IInv, Types, SessionInv
<1>1. CASE Tick
  BY <1>1 DEF Tick
<1>2. ASSUME NEW f \in Flows, AuthStart(f) PROVE SessionInv'
  BY <1>2 DEF AuthStart
<1>3. ASSUME NEW f \in Flows, NEW u \in Users, Authorize(f, u) PROVE SessionInv'
  BY <1>3 DEF Authorize
<1>4. ASSUME NEW c \in Callbacks, NEW f \in Flows, NEW d \in codes, CallbackArrives(c, f, d)
      PROVE  SessionInv'
  BY <1>4 DEF CallbackArrives
<1>5. ASSUME NEW c \in Callbacks, CallbackStep(c) PROVE SessionInv'
  <2>1. \A d \in Callbacks : cb'[d].pc \in {"userinfo", "signed_in", "signed_out"} =>
            cb[d].code.flow = cb[d].state
    <3>1. cb'[c].pc = "userinfo" => cb[c].code.flow = cb[c].state
      BY <1>5, ReplyFacts DEF CallbackStep, CallbackLookup, CallbackExchange, CallbackVerify,
         CallbackSession, Logout, CallbackPlaces
    <3> QED BY <1>5, <3>1, CallbackMoves
  <2>2. \A d \in Callbacks : sessions'[d] # None =>
            cb'[d].pc = "signed_in" /\ sessions'[d].sub = cb[d].code.user
    <3>1. CASE CallbackSession(c)
      BY <3>1, ReplyFacts DEF CallbackSession, CallbackPlaces
    <3>2. CASE Logout(c)
      BY <3>2, ReplyFacts DEF Logout, CallbackPlaces
    <3>3. CASE ~CallbackSession(c) /\ ~Logout(c)
      <4>1. UNCHANGED sessions /\ cb[c].pc # "signed_in"
        BY <1>5, <3>3 DEF CallbackStep, CallbackLookup, CallbackExchange, CallbackVerify
      <4> QED BY <1>5, <4>1, CallbackMoves
    <3> QED BY <3>1, <3>2, <3>3
  <2> QED BY <1>5, <2>1, <2>2, CallbackMoves
<1>6. ASSUME NEW r \in Requests, NEW kind \in {"me", "scan"}, NEW c \in Callbacks,
             RequestArrives(r, kind, c)
      PROVE  SessionInv'
  BY <1>6 DEF RequestArrives
<1>7. ASSUME NEW r \in Requests, RequireSession(r) PROVE SessionInv'
  BY <1>7 DEF RequireSession, GetSession
<1>8. ASSUME NEW r \in Requests, SecondLookup(r) PROVE SessionInv'
  BY <1>8 DEF SecondLookup, GetSession
<1>9. ASSUME NEW r \in Requests, InsertScan(r) PROVE SessionInv'
  BY <1>9 DEF InsertScan
<1>10. CASE UNCHANGED vars
  BY <1>10 DEF vars
<1> HIDE DEF IInv, Types, SessionInv
<1> QED
  BY <1>1, <1>2, <1>3, <1>4, <1>5, <1>6, <1>7, <1>8, <1>9, <1>10 DEF Next, CallbackStep

\* What a request learned is kept apart from what happens to the session later.
LEMMA RequestStep == IInv /\ [Next]_vars => RequestInv'
<1> SUFFICES ASSUME IInv, [Next]_vars PROVE RequestInv'
  OBVIOUS
<1> USE DEF IInv, Types, RequestInv, MadeSession
<1>1. CASE Tick
  BY <1>1 DEF Tick
<1>2. ASSUME NEW f \in Flows, AuthStart(f) PROVE RequestInv'
  BY <1>2 DEF AuthStart
<1>3. ASSUME NEW f \in Flows, NEW u \in Users, Authorize(f, u) PROVE RequestInv'
  BY <1>3 DEF Authorize
<1>4. ASSUME NEW c \in Callbacks, NEW f \in Flows, NEW d \in codes, CallbackArrives(c, f, d)
      PROVE  RequestInv'
  BY <1>4 DEF CallbackArrives
<1>5. ASSUME NEW c \in Callbacks, CallbackStep(c) PROVE RequestInv'
  <2>1. \A d \in Callbacks : MadeSession(d) => MadeSession(d)'
    BY <1>5, CallbackMoves
  <2> HIDE DEF MadeSession
  <2> QED BY <1>5, <2>1, CallbackMoves
<1>6. ASSUME NEW r \in Requests, NEW kind \in {"me", "scan"}, NEW c \in Callbacks,
             RequestArrives(r, kind, c)
      PROVE  RequestInv'
  BY <1>6 DEF RequestArrives
<1>7. ASSUME NEW r \in Requests, RequireSession(r) PROVE RequestInv'
  BY <1>7 DEF RequireSession, GetSession
<1>8. ASSUME NEW r \in Requests, SecondLookup(r) PROVE RequestInv'
  <2> DEFINE c == rq[r].sid
             sub == IF Live(c) THEN sessions[c].sub ELSE Nobody
  <2>1. c \in Callbacks /\ rq[r].pc = "session"
    BY <1>8 DEF SecondLookup
  <2>2. sub \in {Nobody, cb[c].code.user} \cap (Users \cup {Nobody})
    BY <2>1 DEF Live, SessionInv
  <2> HIDE DEF sub
  <2>3. \/ rq' = [rq EXCEPT ![r] = [rq[r] EXCEPT !.pc = "insert", !.sub = sub]]
        \/ \E s \in Users \cup {Nobody, "killed"} :
              rq' = [rq EXCEPT ![r] = [rq[r] EXCEPT !.pc = "answered", !.sub = s]]
    <3>1. SecondLookup(r) /\ sub \in Users \cup {Nobody}
      BY <1>8, <2>2
    <3> HIDE DEF Types, IInv, RequestInv
    <3> QED BY <3>1 DEF SecondLookup, sub
  <2>4. /\ rq'[r].sid = c /\ rq'[r].pc \in {"insert", "answered"}
        /\ rq'[r].pc = "insert" => rq'[r].sub = sub
        /\ \A s \in Requests : s # r => rq'[s] = rq[s]
    <3>1. rq[r] = [pc |-> rq[r].pc, kind |-> rq[r].kind, sid |-> rq[r].sid, sub |-> rq[r].sub]
      OBVIOUS
    <3> HIDE DEF Types, IInv, RequestInv
    <3>2. CASE rq' = [rq EXCEPT ![r] = [rq[r] EXCEPT !.pc = "insert", !.sub = sub]]
      BY <3>1, <3>2 DEF IInv, Types
    <3>3. ASSUME NEW s \in Users \cup {Nobody, "killed"},
                 rq' = [rq EXCEPT ![r] = [rq[r] EXCEPT !.pc = "answered", !.sub = s]]
          PROVE  <2>4!:
      BY <3>1, <3>3 DEF IInv, Types
    <3> QED BY <2>3, <3>2, <3>3
  <2>5. UNCHANGED <<cb, owner>>
    BY <1>8 DEF SecondLookup
  <2> QED BY <2>1, <2>2, <2>4, <2>5
<1>9. ASSUME NEW r \in Requests, InsertScan(r) PROVE RequestInv'
  BY <1>9 DEF InsertScan
<1>10. CASE UNCHANGED vars
  BY <1>10 DEF vars
<1> HIDE DEF IInv, Types, RequestInv, MadeSession
<1> QED
  BY <1>1, <1>2, <1>3, <1>4, <1>5, <1>6, <1>7, <1>8, <1>9, <1>10 DEF Next, CallbackStep

-----------------------------------------------------------------------------
\* The inductive invariant of the sign-in.
THEOREM Invariant == Spec => []IInv
<1>1. IInv /\ [Next]_vars => IInv'
  BY TypesStep, FlowStep, SessionStep, RequestStep DEF IInv
<1> QED BY <1>1, InitIInv, PTL DEF Spec

\* For every number of flows, callbacks, users and requests: one session per flow, of the
\* user who signed in for it, and scans that are their starter's or nobody's (callback,
\* start_scan).
THEOREM SignInIsFaithful == Spec => []SessionsMatchFlows
<1>1. IInv => TypeOK
  BY LoginConstants DEF IInv, Types, FlowInv, SessionInv, TypeOK, CallbackPlaces
<1>2. IInv => OneSessionPerFlow
  BY DEF IInv, FlowInv, OneSessionPerFlow, MadeSession, Claimed
<1>3. IInv => SessionOfItsFlow
  <2> SUFFICES ASSUME IInv, NEW c \in Callbacks, sessions[c] # None
               PROVE  [flow |-> cb[c].state, user |-> sessions[c].sub] \in codes
    BY DEF SessionOfItsFlow
  <2>1. cb[c].code \in codes /\ codes \subseteq Codes /\ cb[c].code.flow = cb[c].state
        /\ sessions[c].sub = cb[c].code.user
    BY DEF IInv, Types, FlowInv, SessionInv
  <2>2. cb[c].code = [flow |-> cb[c].code.flow, user |-> cb[c].code.user]
    BY <2>1 DEF Codes
  <2> QED BY <2>1, <2>2
<1>4. IInv => \A r \in Requests : owner[r] \in {None, Nobody} \/ owner[r] = cb[rq[r].sid].code.user
  BY DEF IInv, RequestInv
<1>5. IInv => SessionsMatchFlows
  BY <1>1, <1>2, <1>3, <1>4 DEF SessionsMatchFlows
<1> QED BY <1>5, Invariant, PTL

\* Nothing brings a session back that was logged out or has expired (logout, get_session).
THEOREM NoSessionReturns == Spec => DeadSessionStaysDead
<1>1. IInv /\ [Next]_vars =>
          [\A c \in Callbacks : MadeSession(c) /\ ~Live(c) => ~Live(c)']_vars
  <2> SUFFICES ASSUME IInv, Next, NEW c \in Callbacks, MadeSession(c), ~Live(c)
               PROVE  ~Live(c)'
    OBVIOUS
  <2> USE LoginConstants DEF IInv, Types, MadeSession, Live
  <2>1. CASE Tick
    BY <2>1 DEF Tick
  <2>2. ASSUME NEW d \in Callbacks, CallbackStep(d) PROVE ~Live(c)'
    <3>1. CASE CallbackSession(d)
      BY <3>1 DEF CallbackSession
    <3>2. CASE Logout(d)
      BY <3>2 DEF Logout
    <3>3. CASE ~CallbackSession(d) /\ ~Logout(d)
      BY <2>2, <3>3 DEF CallbackStep, CallbackLookup, CallbackExchange, CallbackVerify
    <3> QED BY <3>1, <3>2, <3>3
  <2>3. ASSUME NEW r \in Requests, RequireSession(r) PROVE ~Live(c)'
    BY <2>3 DEF RequireSession, GetSession
  <2>4. ASSUME NEW r \in Requests, SecondLookup(r) PROVE ~Live(c)'
    BY <2>4 DEF SecondLookup, GetSession
  <2>5. ASSUME UNCHANGED <<now, sessions>> PROVE ~Live(c)'
    BY <2>5
  <2> HIDE DEF IInv, Types, MadeSession, Live
  <2> QED
    BY <2>1, <2>2, <2>3, <2>4, <2>5
       DEF Next, CallbackStep, AuthStart, Authorize, CallbackArrives, RequestArrives, InsertScan
<1> QED BY <1>1, Invariant, PTL DEF Spec, DeadSessionStaysDead

-----------------------------------------------------------------------------
(* Part 2: the page. *)

Row == Scans \X Nat
CallStates ==
    [pc : {"unused", "fetching", "answered", "streaming", "closed"}, id : Scans \cup {"none"},
     status : Status \cup {"none"}, rows : Seq(Row), cursor : 0..MaxRows]
Views == [id : Scans \cup {"none"}, status : Status \cup {"none"}, rows : Seq(Row)]

PageTypes ==
    /\ rows \in [Scans -> 0..MaxRows] /\ status \in [Scans -> Status]
    /\ call \in [Calls -> CallStates]
    /\ liveState \in Views
    /\ liveStream \in Calls \cup {NoCall}

Awaiting(k) == call[k].pc \in {"fetching", "answered"}

\* One open at a time awaits its answer; it has stopped the stream before.
OpenInv ==
    /\ ~OverlappingOpens
    /\ \A j, k \in Calls : Awaiting(j) /\ Awaiting(k) => j = k
    /\ \A k \in Calls : Awaiting(k) => liveStream = NoCall
    /\ \A k \in Calls : call[k].pc # "unused" => call[k].id \in Scans
    /\ \A k \in Calls : k = liveStream => call[k].pc # "unused"
    /\ \A k \in Calls : Awaiting(k) => call[k].cursor = 0

\* An answer that says done was the last word on its scan.
AnswerInv ==
    \A k \in Calls : call[k].pc = "answered" /\ call[k].status = "done" =>
        /\ status[call[k].id] = "done"
        /\ \A i \in 1..rows[call[k].id] : <<call[k].id, i>> \in ToSet(call[k].rows)

\* The stream that is open is the one the page remembers and feeds the view of its scan,
\* which has the rows before its cursor.
StreamInv ==
    \A k \in Calls : call[k].pc = "streaming" =>
        /\ liveStream = k
        /\ liveState.id = call[k].id
        /\ \A i \in 1..call[k].cursor : <<call[k].id, i>> \in ToSet(liveState.rows)

ViewInv ==
    liveState.status = "done" =>
        /\ liveState.id \in Scans /\ status[liveState.id] = "done"
        /\ \A i \in 1..rows[liveState.id] : <<liveState.id, i>> \in ToSet(liveState.rows)

PageInv == PageTypes /\ OpenInv /\ AnswerInv /\ StreamInv /\ ViewInv
-----------------------------------------------------------------------------
\* The elements of a sequence, and of one with a row pushed on it.
LEMMA PushRow ==
  ASSUME NEW s \in Seq(Row), NEW e \in Row
  PROVE  /\ Append(s, e) \in Seq(Row)
         /\ ToSet(s) \subseteq ToSet(Append(s, e)) /\ e \in ToSet(Append(s, e))
<1> DEFINE t == Append(s, e)
<1>1. /\ t \in Seq(Row) /\ Len(t) = Len(s) + 1 /\ t[Len(s) + 1] = e
      /\ \A i \in 1..Len(s) : t[i] = s[i]
  BY AppendProperties
<1>2. Len(s) \in Nat /\ DOMAIN s = 1..Len(s) /\ DOMAIN t = 1..Len(t)
  BY <1>1, LenProperties
<1>3. ToSet(s) = {s[i] : i \in 1..Len(s)} /\ ToSet(t) = {t[i] : i \in 1..Len(t)}
  BY <1>2 DEF ToSet
<1> HIDE DEF t
<1>4. ToSet(s) \subseteq ToSet(t) /\ e \in ToSet(t)
  BY <1>1, <1>2, <1>3
<1> QED BY <1>1, <1>4 DEF t

\* The rows of a scan.
LEMMA RowsOfScan ==
  ASSUME NEW s \in Scans, NEW n \in Nat
  PROVE  /\ Rows(s, n) \in Seq(Row)
         /\ ToSet(Rows(s, n)) = {<<s, i>> : i \in 1..n}
<1>1. Rows(s, n) \in Seq(Row) /\ DOMAIN Rows(s, n) = 1..n
  BY DEF Rows, Row
<1>2. \A i \in 1..n : Rows(s, n)[i] = <<s, i>>
  BY DEF Rows
<1>3. ToSet(Rows(s, n)) = {Rows(s, n)[i] : i \in DOMAIN Rows(s, n)}
  BY DEF ToSet
<1> QED BY <1>1, <1>2, <1>3

LEMMA PageNumbers == MaxRows \in Nat /\ MaxOpens \in Nat /\ NoCall \notin Calls /\ Calls \subseteq Nat
BY DashboardSizes DEF Calls, NoCall

LEMMA PageStarts == ~OverlappingOpens /\ PageInit => PageInv
<1> SUFFICES ASSUME ~OverlappingOpens, PageInit PROVE PageInv
  OBVIOUS
<1>1. \A k \in Calls : call[k] = Unused
  BY DEF PageInit
<1>2. PageTypes
  BY PageNumbers, EmptySeq DEF PageInit, PageTypes, CallStates, Views, Unused, Nothing, Status
<1> QED BY <1>1, <1>2, PageNumbers DEF PageInv, OpenInv, AnswerInv, StreamInv, ViewInv, PageInit, Awaiting, Unused, Nothing

-----------------------------------------------------------------------------
(* The server: rows are added to scans that are not done. *)

LEMMA ServerKeeps ==
  ASSUME PageInv, NEW s \in Scans, ServerRow(s) \/ ServerDone(s)
  PROVE  PageInv'
<1>1. PageTypes /\ OpenInv /\ AnswerInv /\ StreamInv /\ ViewInv
  BY DEF PageInv
<1>2. UNCHANGED <<call, liveState, liveStream>> /\ status[s] = "running"
  BY DEF ServerRow, ServerDone
<1>3. \A r \in Scans : status[r] = "done" => status'[r] = "done" /\ rows'[r] = rows[r]
  <2>1. CASE ServerRow(s)
    BY <1>1, <1>2, <2>1 DEF ServerRow, PageTypes
  <2>2. CASE ServerDone(s)
    BY <1>1, <2>2 DEF ServerDone, PageTypes
  <2> QED BY <2>1, <2>2
<1>4. PageTypes'
  <2>1. rows' \in [Scans -> 0..MaxRows] /\ status' \in [Scans -> Status]
    BY <1>1, PageNumbers DEF ServerRow, ServerDone, PageTypes, Status
  <2> QED BY <1>1, <1>2, <2>1 DEF PageTypes
<1>5. OpenInv' /\ StreamInv'
  BY <1>1, <1>2 DEF OpenInv, StreamInv, Awaiting
<1>6. AnswerInv'
  BY <1>1, <1>2, <1>3 DEF AnswerInv, OpenInv
<1>7. ViewInv'
  BY <1>1, <1>2, <1>3 DEF ViewInv
<1> QED BY <1>4, <1>5, <1>6, <1>7 DEF PageInv

-----------------------------------------------------------------------------
(* The page. *)

\* openScan stops the stream and leaves the other calls as they are.
LEMMA OpenKeeps ==
  ASSUME PageInv, NEW k \in Calls, NEW s \in Scans, OpenScan(k, s)
  PROVE  PageInv'
<1>1. PageTypes /\ OpenInv /\ AnswerInv /\ StreamInv /\ ViewInv
  BY DEF PageInv
<1>2. \A j \in Calls : ~Awaiting(j)
  BY <1>1 DEF OpenScan, OpenInv, AwaitingAnswer, Awaiting
<1>3. UNCHANGED <<rows, status, liveState>> /\ liveStream' = NoCall
  BY DEF OpenScan, server
<1> DEFINE fresh == [Unused EXCEPT !.pc = "fetching", !.id = s]
<1>4. CloseLive \in [Calls -> CallStates] /\ call' = [CloseLive EXCEPT ![k] = fresh]
  <2>1. call' = [CloseLive EXCEPT ![k] = fresh]
    BY DEF OpenScan
  <2>2. CASE liveStream = NoCall
    BY <1>1, <2>1, <2>2 DEF CloseLive, PageTypes
  <2>3. CASE liveStream # NoCall
    <3>1. call[liveStream] \in CallStates /\ liveStream \in Calls
      BY <1>1, <2>3 DEF PageTypes
    <3>2. [call[liveStream] EXCEPT !.pc = "closed"] \in CallStates
      BY <3>1 DEF CallStates
    <3>3. CloseLive = [call EXCEPT ![liveStream] = [call[liveStream] EXCEPT !.pc = "closed"]]
      BY <2>3 DEF CloseLive
    <3> QED BY <1>1, <2>1, <3>1, <3>2, <3>3 DEF PageTypes
  <2> QED BY <2>2, <2>3
<1>5. /\ fresh \in CallStates /\ fresh.pc = "fetching" /\ fresh.id = s /\ fresh.cursor = 0
  <2>1. <<>> \in Seq(Row)
    BY EmptySeq
  <2>2. Unused \in CallStates /\ Unused.cursor = 0
    BY <2>1, PageNumbers DEF Unused, CallStates
  <2> QED BY <2>2 DEF CallStates
<1> HIDE DEF fresh
<1>6. \A j \in Calls : CloseLive[j].id = call[j].id
                       /\ (CloseLive[j].pc = call[j].pc \/ CloseLive[j].pc = "closed")
  BY <1>1 DEF CloseLive, PageTypes, CallStates
<1>7. \A j \in Calls : CloseLive[j].pc # "streaming"
  BY <1>1, PageNumbers DEF CloseLive, PageTypes, CallStates, StreamInv
<1>8. /\ call'[k] = fresh
      /\ \A j \in Calls \ {k} : /\ call'[j].id = call[j].id
                                /\ call'[j].pc = call[j].pc \/ call'[j].pc = "closed"
                                /\ call'[j].pc # "streaming"
  BY <1>4, <1>6, <1>7
<1>9. PageTypes'
  BY <1>1, <1>3, <1>4, <1>5 DEF PageTypes
<1>10. \A j \in Calls \ {k} : call'[j].pc \notin {"fetching", "answered", "streaming"}
  BY <1>2, <1>8 DEF Awaiting
<1>11. \A j \in Calls \ {k} : call'[j].pc # "unused" => call'[j].id \in Scans
  <2> SUFFICES ASSUME NEW j \in Calls \ {k}, call'[j].pc # "unused" PROVE call'[j].id \in Scans
    OBVIOUS
  <2>1. call'[j] = CloseLive[j] /\ call'[j].id = call[j].id
    BY <1>4, <1>8
  <2>2. call[j].pc # "unused"
    <3>1. CASE j = liveStream
      BY <1>1, <3>1 DEF OpenInv
    <3>2. CASE j # liveStream
      BY <1>1, <2>1, <3>2 DEF CloseLive, PageTypes
    <3> QED BY <3>1, <3>2
  <2> QED BY <1>1, <2>1, <2>2 DEF OpenInv
<1>12. OpenInv'
  BY <1>1, <1>3, <1>5, <1>8, <1>10, <1>11, PageNumbers DEF OpenInv, Awaiting
<1>13. AnswerInv' /\ StreamInv'
  BY <1>5, <1>8, <1>10 DEF AnswerInv, StreamInv
<1>14. ViewInv'
  BY <1>1, <1>3 DEF ViewInv
<1> QED BY <1>9, <1>12, <1>13, <1>14 DEF PageInv

\* The answer to one open changes that call alone.
LEMMA AnswerKeeps ==
  ASSUME PageInv, NEW k \in Calls, Answer(k) \/ AnswerFails(k)
  PROVE  PageInv'
<1>1. PageTypes /\ OpenInv /\ AnswerInv /\ StreamInv /\ ViewInv
  BY DEF PageInv
<1>2. /\ call[k].pc = "fetching" /\ UNCHANGED <<rows, status, liveState, liveStream>>
      /\ call[k] \in CallStates
  BY <1>1 DEF Answer, AnswerFails, server, PageTypes
<1> DEFINE s == call[k].id
<1>3. s \in Scans /\ rows[s] \in Nat /\ status[s] \in Status
  BY <1>1, <1>2, PageNumbers DEF OpenInv, PageTypes
<1>4. /\ \A j \in Calls \ {k} : call'[j] = call[j]
      /\ call'[k] \in CallStates /\ call'[k].id = s /\ call'[k].cursor = call[k].cursor
      /\ \/ call'[k].pc = "closed"
         \/ call'[k].pc = "answered" /\ call'[k].status = status[s] /\ call'[k].rows = Rows(s, rows[s])
  <2>1. CASE Answer(k)
    <3>1. call' = [call EXCEPT ![k].pc = "answered", ![k].status = status[s], ![k].rows = Rows(s, rows[s])]
      BY <2>1 DEF Answer
    <3>2. Rows(s, rows[s]) \in Seq(Row)
      BY <1>3, RowsOfScan
    <3> HIDE DEF s
    <3> QED BY <1>1, <1>2, <1>3, <3>1, <3>2 DEF PageTypes, CallStates, s
  <2>2. CASE AnswerFails(k)
    <3>1. call' = [call EXCEPT ![k].pc = "closed"]
      BY <2>2 DEF AnswerFails
    <3> QED BY <1>1, <1>2, <3>1 DEF PageTypes, CallStates
  <2> QED BY <2>1, <2>2
<1>5. call' \in [Calls -> CallStates]
  <2>1. call' = [j \in Calls |-> call'[j]]
    BY <1>1 DEF Answer, AnswerFails, PageTypes
  <2> QED BY <1>1, <1>4, <2>1 DEF PageTypes
<1>6. PageTypes'
  BY <1>1, <1>2, <1>5 DEF PageTypes
<1>7. OpenInv'
  BY <1>1, <1>2, <1>3, <1>4 DEF OpenInv, Awaiting
<1>8. AnswerInv'
  <2>1. \A i \in 1..rows[s] : <<s, i>> \in ToSet(Rows(s, rows[s]))
    BY <1>3, RowsOfScan
  <2> QED BY <1>1, <1>2, <1>4, <2>1 DEF AnswerInv
<1>9. StreamInv' /\ ViewInv'
  BY <1>1, <1>2, <1>4 DEF StreamInv, ViewInv
<1> QED BY <1>6, <1>7, <1>8, <1>9 DEF PageInv

\* The view is seeded when no stream is open, and the call becomes the stream of its scan.
LEMMA ResumeKeeps ==
  ASSUME PageInv, NEW k \in Calls, Resume(k)
  PROVE  PageInv'
<1>1. PageTypes /\ OpenInv /\ AnswerInv /\ StreamInv /\ ViewInv
  BY DEF PageInv
<1>2. /\ call[k].pc = "answered" /\ UNCHANGED <<rows, status>> /\ call[k] \in CallStates
      /\ liveState' = [id |-> call[k].id, status |-> call[k].status, rows |-> call[k].rows]
  BY <1>1 DEF Resume, server, PageTypes
<1>3. /\ liveStream = NoCall /\ call[k].id \in Scans /\ call[k].cursor = 0
      /\ \A j \in Calls \ {k} : ~Awaiting(j)
  BY <1>1, <1>2 DEF OpenInv, Awaiting
<1>4. \A j \in Calls : call[j].pc # "streaming"
  BY <1>1, <1>3, PageNumbers DEF StreamInv
<1>5. /\ \A j \in Calls \ {k} : call'[j] = call[j]
      /\ call' \in [Calls -> CallStates] /\ call'[k].id = call[k].id /\ call'[k].cursor = 0
      /\ \/ call'[k].pc = "streaming" /\ liveStream' = k
         \/ call'[k].pc = "closed" /\ liveStream' = NoCall
  <2>1. CASE call' = [call EXCEPT ![k].pc = "streaming", ![k].rows = <<>>] /\ liveStream' = k
    BY <1>1, <1>2, <1>3, <2>1, EmptySeq DEF PageTypes, CallStates
  <2>2. CASE call' = [call EXCEPT ![k].pc = "closed", ![k].rows = <<>>] /\ UNCHANGED liveStream
    BY <1>1, <1>2, <1>3, <2>2, EmptySeq DEF PageTypes, CallStates
  <2> QED BY <2>1, <2>2 DEF Resume
<1>6. PageTypes'
  <2>1. liveState' \in Views
    BY <1>2 DEF CallStates, Views
  <2> QED BY <1>1, <1>2, <1>5, <2>1 DEF PageTypes
<1>7. OpenInv'
  BY <1>1, <1>3, <1>5 DEF OpenInv, Awaiting
<1>8. AnswerInv'
  BY <1>1, <1>2, <1>5 DEF AnswerInv
<1>9. StreamInv'
  BY <1>2, <1>4, <1>5 DEF StreamInv
<1>10. ViewInv'
  BY <1>1, <1>2, <1>3 DEF AnswerInv, ViewInv
<1> QED BY <1>6, <1>7, <1>8, <1>9, <1>10 DEF PageInv

\* The events of a stream: it is the one the page remembers, and writes its own view.
LEMMA StreamKeeps ==
  ASSUME PageInv, NEW k \in Calls, RowEvent(k) \/ EndEvent(k) \/ ErrorEvent(k)
  PROVE  PageInv'
<1>1. PageTypes /\ OpenInv /\ AnswerInv /\ StreamInv /\ ViewInv
  BY DEF PageInv
<1> DEFINE s == call[k].id
<1>2. /\ call[k].pc = "streaming" /\ UNCHANGED <<rows, status>>
      /\ call[k] \in CallStates /\ liveStream = k /\ s \in Scans /\ liveState.id = s
      /\ \A j \in Calls \ {k} : call[j].pc # "streaming"
      /\ rows[s] \in 0..MaxRows /\ liveState \in Views
  BY <1>1 DEF RowEvent, EndEvent, ErrorEvent, server, PageTypes, OpenInv, StreamInv
<1>3. CASE RowEvent(k)
  <2> DEFINE n == call[k].cursor + 1
             row == <<s, n>>
  <2>1. /\ n <= rows[s] /\ UNCHANGED liveStream
        /\ liveState' = [liveState EXCEPT !.rows = Append(@, row)]
        /\ call' = [call EXCEPT ![k].cursor = n]
    BY <1>3 DEF RowEvent
  <2>2. n \in 1..MaxRows
    BY <1>2, <2>1, PageNumbers DEF CallStates
  <2>3. row \in Row /\ liveState.rows \in Seq(Row)
    BY <1>2, <2>2 DEF Row, Views
  <2>4. /\ Append(liveState.rows, row) \in Seq(Row)
        /\ ToSet(liveState.rows) \subseteq ToSet(Append(liveState.rows, row))
        /\ row \in ToSet(Append(liveState.rows, row))
    BY <2>3, PushRow
  <2> HIDE DEF row
  <2>5. /\ liveState' \in Views /\ liveState'.id = liveState.id /\ liveState'.status = liveState.status
        /\ ToSet(liveState.rows) \subseteq ToSet(liveState'.rows) /\ row \in ToSet(liveState'.rows)
    BY <1>2, <2>1, <2>4 DEF Views
  <2>6. /\ \A j \in Calls \ {k} : call'[j] = call[j]
        /\ call' \in [Calls -> CallStates] /\ call'[k].id = s /\ call'[k].cursor = n
        /\ call'[k].pc = "streaming"
    <3>1. n \in 0..MaxRows
      BY <2>2
    <3> HIDE DEF n
    <3>2. [call[k] EXCEPT !.cursor = n] \in CallStates
      BY <1>2, <3>1 DEF CallStates
    <3>3. call' = [call EXCEPT ![k] = [call[k] EXCEPT !.cursor = n]]
      BY <2>1
    <3> QED BY <1>1, <1>2, <3>2, <3>3 DEF PageTypes, CallStates
  <2>7. PageTypes'
    BY <1>1, <1>2, <2>1, <2>5, <2>6 DEF PageTypes
  <2>8. OpenInv'
    BY <1>1, <1>2, <2>1, <2>6 DEF OpenInv, Awaiting
  <2>9. AnswerInv'
    BY <1>1, <1>2, <2>6 DEF AnswerInv
  <2>10. \A i \in 1..n : <<s, i>> \in ToSet(liveState'.rows)
    <3>1. \A i \in 1..call[k].cursor : <<s, i>> \in ToSet(liveState.rows)
      BY <1>1, <1>2 DEF StreamInv
    <3>2. \A i \in 1..n : i \in 1..call[k].cursor \/ i = n
      BY <1>2 DEF CallStates
    <3> QED BY <2>5, <3>1, <3>2 DEF row
  <2>11. StreamInv'
    BY <1>2, <2>1, <2>5, <2>6, <2>10 DEF StreamInv
  <2>12. ViewInv'
    BY <1>1, <1>2, <2>5 DEF ViewInv
  <2> QED BY <2>7, <2>8, <2>9, <2>11, <2>12 DEF PageInv
<1>4. CASE EndEvent(k) \/ ErrorEvent(k)
  <2>1. call' = [call EXCEPT ![k].pc = "closed"] /\ liveStream' = NoCall
    BY <1>4 DEF EndEvent, ErrorEvent
  <2>2. /\ \A j \in Calls \ {k} : call'[j] = call[j]
        /\ call' \in [Calls -> CallStates] /\ call'[k].id = s /\ call'[k].pc = "closed"
    BY <1>1, <1>2, <2>1 DEF PageTypes, CallStates
  <2>3. \/ UNCHANGED liveState
        \/ /\ liveState' = [liveState EXCEPT !.status = "done"]
           /\ status[s] = "done" /\ call[k].cursor = rows[s]
    BY <1>4 DEF EndEvent, ErrorEvent
  <2>4. liveState' \in Views /\ liveState'.id = liveState.id /\ liveState'.rows = liveState.rows
    BY <1>2, <2>3 DEF Views, Status
  <2>5. PageTypes'
    BY <1>1, <1>2, <2>1, <2>2, <2>4 DEF PageTypes
  <2>6. OpenInv'
    BY <1>1, <1>2, <2>1, <2>2, PageNumbers DEF OpenInv, Awaiting
  <2>7. AnswerInv'
    BY <1>1, <1>2, <2>2 DEF AnswerInv
  <2>8. StreamInv'
    BY <1>2, <2>2 DEF StreamInv
  <2>9. ViewInv'
    <3>1. CASE UNCHANGED liveState
      BY <1>1, <1>2, <3>1 DEF ViewInv
    <3>2. CASE status[s] = "done" /\ call[k].cursor = rows[s]
      <4>1. \A i \in 1..rows[s] : <<s, i>> \in ToSet(liveState.rows)
        BY <1>1, <1>2, <3>2 DEF StreamInv
      <4> QED BY <1>2, <2>4, <3>2, <4>1 DEF ViewInv
    <3> QED BY <2>3, <3>1, <3>2
  <2> QED BY <2>5, <2>6, <2>7, <2>8, <2>9 DEF PageInv
<1> QED BY <1>3, <1>4

-----------------------------------------------------------------------------
\* The invariant of the page while opens do not overlap.
THEOREM PageInvariant == ~OverlappingOpens /\ PageSpec => []PageInv
<1>1. ~OverlappingOpens /\ PageInit => PageInv
  BY PageStarts
<1>2. PageInv /\ [PageNext]_pageVars => PageInv'
  <2> SUFFICES ASSUME PageInv, [PageNext]_pageVars PROVE PageInv'
    OBVIOUS
  <2>1. CASE UNCHANGED pageVars
    BY <2>1 DEF pageVars, PageInv, PageTypes, OpenInv, AnswerInv, StreamInv, ViewInv, Awaiting
  <2>2. CASE PageNext
    BY <2>2, ServerKeeps, OpenKeeps, AnswerKeeps, ResumeKeeps, StreamKeeps DEF PageNext, PageStep
  <2> QED BY <2>1, <2>2
<1> QED BY <1>1, <1>2, PTL DEF PageSpec

\* Opens that do not overlap leave one stream at a time, the one the page can close, and
\* it writes into the view of its own scan (openScan and its handlers).
THEOREM OwnStream == ~OverlappingOpens /\ PageSpec => []StreamsMatchTheView
<1>1. PageInv => PageTypeOK
  BY DEF PageInv, PageTypes, PageTypeOK, CallStates, Views
<1>2. PageInv => OneStreamAtATime /\ StreamFeedsItsOwnView
  BY DEF PageInv, StreamInv, OneStreamAtATime, StreamFeedsItsOwnView, Streaming
<1> QED BY <1>1, <1>2, PageInvariant, PTL DEF StreamsMatchTheView

\* And a view that says done, from its seed or from its stream, shows every row.
THEOREM DoneView == ~OverlappingOpens /\ PageSpec => []DoneViewIsComplete
<1>1. PageInv => DoneViewIsComplete
  <2> SUFFICES ASSUME PageInv, liveState.status = "done"
               PROVE  ToSet(Rows(liveState.id, rows[liveState.id])) \subseteq ToSet(liveState.rows)
    BY DEF DoneViewIsComplete
  <2>1. /\ liveState.id \in Scans
        /\ \A i \in 1..rows[liveState.id] : <<liveState.id, i>> \in ToSet(liveState.rows)
    BY DEF PageInv, ViewInv
  <2>2. rows[liveState.id] \in Nat
    BY <2>1, PageNumbers DEF PageInv, PageTypes
  <2>3. ToSet(Rows(liveState.id, rows[liveState.id])) = {<<liveState.id, i>> : i \in 1..rows[liveState.id]}
    BY <2>1, <2>2, RowsOfScan
  <2> QED BY <2>1, <2>3
<1> QED BY <1>1, PageInvariant, PTL
=============================================================================
