-------------------------------- MODULE Login -------------------------------
(***************************************************************************)
(* Sign-in and sessions of the web server: auth_start, callback, logout,   *)
(* get_session with its expiry, and the two handlers that look the session *)
(* up twice, me and start_scan.  pending_ is under flow_mu_ and sessions_  *)
(* under sess_mu_, each held for one lookup; between the parts of a        *)
(* handler other requests run and time passes.  The random state, nonce    *)
(* and verifier of one auth_start are one flow; the identity provider is   *)
(* external: it issues codes for a flow's request and redeems them.        *)
(***************************************************************************)
EXTENDS Naturals, FiniteSets

CONSTANTS
    Flows,          \* bound: calls of auth_start
    Callbacks,      \* bound: /callback requests; one that succeeds makes one session
    Requests,       \* bound: /me and POST /api/scans requests
    Users,          \* OIDC subjects
    FlowTtl, SessionTtl,    \* 600 s and session_ttl_s, in ticks
    MaxTime,        \* bound: ticks of the clock
    None            \* an absent entry

ASSUME LoginConstants == FlowTtl \in Nat /\ SessionTtl \in Nat /\ MaxTime \in Nat

Nobody == "nobody"      \* the empty user_sub

VARIABLES
    now,            \* the clock
    pending,        \* pending_: expiry of a flow, or None
    begun,          \* flows auth_start has made
    codes,          \* codes the provider has issued: flow (nonce) and user
    cb,             \* each callback: where it is, its state parameter and its code
    sessions,       \* sessions_: subject and expiry of the session a callback made
    rq,             \* each request: where it is, its cookie, what it learned
    owner           \* user_sub of the scans rows, by the request that started the scan

vars == <<now, pending, begun, codes, cb, sessions, rq, owner>>

Init ==
    /\ now = 0
    /\ pending = [f \in Flows |-> None] /\ begun = {}
    /\ codes = {}
    /\ cb = [c \in Callbacks |-> [pc |-> "idle", state |-> None, code |-> None]]
    /\ sessions = [c \in Callbacks |-> None]
    /\ rq = [r \in Requests |-> [pc |-> "idle", kind |-> None, sid |-> None, sub |-> None]]
    /\ owner = [r \in Requests |-> None]

Tick == now < MaxTime /\ now' = now + 1 /\ UNCHANGED <<pending, begun, codes, cb, sessions, rq, owner>>

-----------------------------------------------------------------------------
\* auth_start: remember the flow for FlowTtl and send the browser to the provider.
AuthStart(f) ==
    /\ f \notin begun
    /\ begun' = begun \cup {f}
    /\ pending' = [pending EXCEPT ![f] = now + FlowTtl]
    /\ UNCHANGED <<now, codes, cb, sessions, rq, owner>>

\* The provider lets a user sign in for a flow and issues a code for its nonce.
Authorize(f, u) ==
    /\ f \in begun
    /\ \A d \in codes : d.flow # f
    /\ codes' = codes \cup {[flow |-> f, user |-> u]}
    /\ UNCHANGED <<now, pending, begun, cb, sessions, rq, owner>>

\* A /callback request with a state and a code: reloads repeat one, and a browser with
\* two sign-ins under way may pair the state of one with the code of the other.
CallbackArrives(c, f, d) ==
    /\ cb[c].pc = "idle"
    /\ f \in begun /\ d \in codes
    /\ cb' = [cb EXCEPT ![c] = [pc |-> "lookup", state |-> f, code |-> d]]
    /\ UNCHANGED <<now, pending, begun, codes, sessions, rq, owner>>

Reply(c, label) == cb' = [cb EXCEPT ![c].pc = label]

\* The flow is looked up, as if it stayed pending until it expires.
Bug_FlowStaysPending(c) ==
    /\ cb[c].pc = "lookup"
    /\ LET f == cb[c].state IN
          IF pending[f] = None \/ now > pending[f]
          THEN Reply(c, "rejected") ELSE Reply(c, "exchange")
    /\ UNCHANGED <<now, pending, begun, codes, sessions, rq, owner>>

\* callback under flow_mu_: an unknown flow is rejected; any other is erased, and
\* goes on unless it has expired.
CallbackLookup(c) ==
    /\ cb[c].pc = "lookup"
    /\ LET f == cb[c].state IN
          /\ IF pending[f] = None \/ now > pending[f]
             THEN Reply(c, "rejected") ELSE Reply(c, "exchange")
          /\ pending' = [pending EXCEPT ![f] = None]
    /\ UNCHANGED <<now, begun, codes, sessions, rq, owner>>

\* The token endpoint answers with the claims of the code, or the exchange fails:
\* unreachable, no tokens, or claims that cannot be read or are not for this client.
CallbackExchange(c) ==
    /\ cb[c].pc = "exchange"
    /\ Reply(c, "verify") \/ Reply(c, "rejected")
    /\ UNCHANGED <<now, pending, begun, codes, sessions, rq, owner>>

\* The claims, as if the nonce were not compared.
Bug_NonceNotCompared(c) ==
    /\ cb[c].pc = "verify"
    /\ Reply(c, "userinfo") \/ Reply(c, "rejected")
    /\ UNCHANGED <<now, pending, begun, codes, sessions, rq, owner>>

\* The nonce of the claims must be the flow's, and the id token not expired.
CallbackVerify(c) ==
    /\ cb[c].pc = "verify"
    /\ \/ cb[c].code.flow = cb[c].state /\ Reply(c, "userinfo")
       \/ Reply(c, "rejected")
    /\ UNCHANGED <<now, pending, begun, codes, sessions, rq, owner>>

\* The session starts once the userinfo request is over, whatever it returned.
CallbackSession(c) ==
    /\ cb[c].pc = "userinfo"
    /\ sessions' = [sessions EXCEPT ![c] = [sub |-> cb[c].code.user, expires |-> now + SessionTtl]]
    /\ Reply(c, "signed_in")
    /\ UNCHANGED <<now, pending, begun, codes, rq, owner>>

\* logout, as if clearing the cookie were enough.
Bug_LogoutKeepsSession(c) ==
    /\ cb[c].pc = "signed_in"
    /\ Reply(c, "signed_out")
    /\ UNCHANGED <<now, pending, begun, codes, sessions, rq, owner>>

\* logout erases the session of the cookie.
Logout(c) ==
    /\ cb[c].pc = "signed_in"
    /\ sessions' = [sessions EXCEPT ![c] = None]
    /\ Reply(c, "signed_out")
    /\ UNCHANGED <<now, pending, begun, codes, rq, owner>>

-----------------------------------------------------------------------------
\* get_session under sess_mu_: is there a session, and the erasure of an expired one.
Live(c) == sessions[c] # None /\ now <= sessions[c].expires

\* get_session, as if it renewed the session it finds, expired or not.
Bug_GetSessionRenews(c) ==
    sessions' = IF sessions[c] = None THEN sessions
                ELSE [sessions EXCEPT ![c].expires = now + SessionTtl]

GetSession(c) ==
    sessions' = IF Live(c) THEN sessions ELSE [sessions EXCEPT ![c] = None]

\* A request with the cookie of some earlier sign-in reaches its handler.
RequestArrives(r, kind, c) ==
    /\ rq[r].pc = "idle"
    /\ cb[c].pc \in {"signed_in", "signed_out"}
    /\ rq' = [rq EXCEPT ![r] = [pc |-> "require", kind |-> kind, sid |-> c, sub |-> None]]
    /\ UNCHANGED <<now, pending, begun, codes, cb, sessions, owner>>

\* require_session: 401 without a live session.
RequireSession(r) ==
    /\ rq[r].pc = "require"
    /\ GetSession(rq[r].sid)
    /\ rq' = [rq EXCEPT ![r].pc = IF Live(rq[r].sid) THEN "session" ELSE "unauthorized"]
    /\ UNCHANGED <<now, pending, begun, codes, cb, owner>>

\* The second lookup of me and of start_scan.  me uses what it got at once: without a
\* session it reads through an empty optional, and what it answers is undefined.
SecondLookup(r) ==
    /\ rq[r].pc = "session"
    /\ LET c == rq[r].sid
           sub == IF Live(c) THEN sessions[c].sub ELSE Nobody IN
          /\ GetSession(c)
          /\ \/ rq[r].kind = "scan" /\ rq' = [rq EXCEPT ![r].pc = "insert", ![r].sub = sub]
             \/ /\ rq[r].kind = "me" /\ sub # Nobody
                /\ rq' = [rq EXCEPT ![r].pc = "answered", ![r].sub = sub]
             \/ /\ rq[r].kind = "me" /\ sub = Nobody
                /\ \E junk \in Users \cup {Nobody, "killed"} :
                      rq' = [rq EXCEPT ![r].pc = "answered", ![r].sub = junk]
    /\ UNCHANGED <<now, pending, begun, codes, cb, owner>>

\* start_scan after the name is resolved: the row gets the subject, or the empty one;
\* or the input is refused and no scan starts.
InsertScan(r) ==
    /\ rq[r].pc = "insert"
    /\ \/ owner' = [owner EXCEPT ![r] = rq[r].sub]
       \/ UNCHANGED owner
    /\ rq' = [rq EXCEPT ![r].pc = "answered"]
    /\ UNCHANGED <<now, pending, begun, codes, cb, sessions>>

Next ==
    \/ Tick
    \/ \E f \in Flows : AuthStart(f) \/ \E u \in Users : Authorize(f, u)
    \/ \E c \in Callbacks :
          \/ \E f \in Flows, d \in codes : CallbackArrives(c, f, d)
          \/ CallbackLookup(c) \/ CallbackExchange(c) \/ CallbackVerify(c)
          \/ CallbackSession(c) \/ Logout(c)
    \/ \E r \in Requests :
          \/ \E kind \in {"me", "scan"}, c \in Callbacks : RequestArrives(r, kind, c)
          \/ RequireSession(r) \/ SecondLookup(r) \/ InsertScan(r)

Spec == Init /\ [][Next]_vars

-----------------------------------------------------------------------------
\* Types; a flow that is pending was begun, and a session is of a callback that made it.
TypeOK ==
    /\ now \in 0..MaxTime
    /\ \A f \in Flows : pending[f] # None => f \in begun /\ pending[f] \in 0..(MaxTime + FlowTtl)
    /\ \A c \in Callbacks :
          /\ cb[c].pc \in {"idle", "lookup", "exchange", "verify", "userinfo",
                          "signed_in", "signed_out", "rejected"}
          /\ sessions[c] # None => cb[c].pc = "signed_in" /\ sessions[c].sub \in Users
    /\ \A r \in Requests : owner[r] \in Users \cup {Nobody, None}

MadeSession(c) == cb[c].pc \in {"signed_in", "signed_out"}

\* One sign-in makes one session: a reloaded or repeated callback finds its flow gone,
\* however the two requests interleave (callback erases the flow under flow_mu_).
OneSessionPerFlow ==
    \A c, d \in Callbacks :
        c # d /\ MadeSession(c) /\ MadeSession(d) => cb[c].state # cb[d].state

\* A session belongs to the user who signed in for the flow it was made from, even when
\* the answers of two sign-ins are mixed up.
SessionOfItsFlow ==
    \A c \in Callbacks : sessions[c] # None =>
        [flow |-> cb[c].state, user |-> sessions[c].sub] \in codes

\* A session that expired or was logged out never counts again.
DeadSessionStaysDead ==
    [][\A c \in Callbacks : MadeSession(c) /\ ~Live(c) => ~Live(c)']_vars

\* user_sub is the "OIDC subject of the user who started it" (db.hpp:21).
ScanOwnerIsStarter ==
    \A r \in Requests : owner[r] # None => owner[r] = cb[rq[r].sid].code.user

\* Sessions come from flows, one from each, with the user of that flow (callback); a
\* scan that start_scan stores is its starter's or, after a logout or an expiry between
\* the two lookups, nobody's, and never another user's.
SessionsMatchFlows ==
    /\ TypeOK /\ OneSessionPerFlow /\ SessionOfItsFlow
    /\ \A r \in Requests : owner[r] \in {None, Nobody} \/ owner[r] = cb[rq[r].sid].code.user
=============================================================================
