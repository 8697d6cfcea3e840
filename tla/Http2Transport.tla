--------------------------- MODULE Http2Transport ---------------------------
(***************************************************************************)
(* sendRequest, Http2Connection and the per-origin connection cache of the *)
(* TypeScript client: how concurrent requests to one origin share one      *)
(* HTTP/2 connection, fall back to HTTP/1 when it cannot be negotiated,    *)
(* and keep the process alive only while they are in flight.               *)
(***************************************************************************)
EXTENDS Integers, FiniteSets

CONSTANTS
    Requests,      \* the requests to one origin
    Http1Clients,  \* those of clients that do not enable HTTP/2
    MaxConns       \* bound: connections opened in the life of the process

ASSUME RequestsAssumption == IsFiniteSet(Requests) /\ Http1Clients \subseteq Requests
ASSUME MaxConnsAssumption == MaxConns \in Nat \ {0}

Conns == 1..MaxConns
Unknown == 0   \* http2Connections has no entry for the origin
Http1 == -1    \* its entry is null: the origin does not speak HTTP/2

VARIABLES
    phase,    \* of a connection: unused, negotiating, open, closed or failed
    refd,     \* the connection keeps the process alive
    streams,  \* Http2Connection.streams
    origin,   \* http2Connections.get(origin)
    pc,       \* where a request is in sendRequest
    conn,     \* the connection a request waits for, runs on or failed to get
    status,   \* the response status that arrived: none, plain or retryable
    result,   \* what sendRequest returned: none, a response or an error
    sent      \* how many times the request was handed to a transport

vars == <<phase, refd, streams, origin, pc, conn, status, result, sent>>
connections == <<phase, refd, streams, origin>>

Init ==
    /\ phase = [c \in Conns |-> "unused"]
    /\ refd = [c \in Conns |-> FALSE]
    /\ streams = [c \in Conns |-> 0]
    /\ origin = Unknown
    /\ pc = [r \in Requests |-> "idle"]
    /\ conn = [r \in Requests |-> 0]
    /\ status = [r \in Requests |-> "none"]
    /\ result = [r \in Requests |-> "none"]
    /\ sent = [r \in Requests |-> 0]

\* Http2Connection.closed
IsClosed(c) == phase[c] \in {"closed", "failed"}

\* Mutants: a reference that is never given back, and one given back twice.
ReleaseKeepingAlive(c) ==
    /\ streams' = [streams EXCEPT ![c] = @ - 1]
    /\ refd' = refd
ReleaseTwice(c) ==
    /\ streams' = [streams EXCEPT ![c] = @ - 2]
    /\ refd' = [refd EXCEPT ![c] = @ /\ streams[c] # 2]

\* Http2Connection.request's finally: the last stream lets the process exit.
Release(c) ==
    /\ streams' = [streams EXCEPT ![c] = @ - 1]
    /\ refd' = [refd EXCEPT ![c] = @ /\ streams[c] # 1]

\* Mutant: a broken transport is always an error.
BrokenIsError(r) == "error"

\* How a request whose transport broke ends: a retryable status that already
\* arrived is still the answer.
BrokenAnswer(r) == IF status[r] = "retryable" THEN "response" ELSE "error"

Settle(r, outcome) ==
    /\ pc' = [pc EXCEPT ![r] = "settled"]
    /\ result' = [result EXCEPT ![r] = outcome]

-----------------------------------------------------------------------------
(* sendRequest up to its first suspension.                                 *)

Fetch(r) ==
    /\ pc' = [pc EXCEPT ![r] = "fetch"]
    /\ sent' = [sent EXCEPT ![r] = @ + 1]

SendHttp1(r) ==
    /\ pc[r] = "idle"
    /\ r \in Http1Clients \/ origin = Http1
    /\ Fetch(r)
    /\ UNCHANGED <<connections, conn, status, result>>

Join(r, c) ==
    /\ pc' = [pc EXCEPT ![r] = "waiting"]
    /\ conn' = [conn EXCEPT ![r] = c]
    /\ UNCHANGED <<status, result, sent>>

SendShared(r) ==
    /\ pc[r] = "idle" /\ r \notin Http1Clients
    /\ origin \in Conns /\ ~IsClosed(origin)
    /\ Join(r, origin)
    /\ UNCHANGED connections

Connect(r) ==
    /\ pc[r] = "idle" /\ r \notin Http1Clients
    /\ origin = Unknown \/ (origin \in Conns /\ IsClosed(origin))
    /\ \E c \in Conns :
        /\ phase[c] = "unused" /\ \A d \in 1..(c - 1) : phase[d] # "unused"
        /\ phase' = [phase EXCEPT ![c] = "negotiating"]
        /\ refd' = [refd EXCEPT ![c] = TRUE]
        /\ origin' = c
        /\ Join(r, c)
    /\ UNCHANGED streams

-----------------------------------------------------------------------------
(* The connection's events.  Negotiation also fails when the session       *)
(* closes, or after HTTP2_REQUEST_TIMEOUT_MS.  An open session closes when *)
(* the server sends GOAWAY or the socket ends; its streams end one by one. *)

Ready(c, to) ==
    /\ phase[c] = "negotiating"
    /\ phase' = [phase EXCEPT ![c] = to]
    /\ refd' = [refd EXCEPT ![c] = FALSE]
    /\ UNCHANGED <<streams, origin, pc, conn, status, result, sent>>

Negotiated(c) == Ready(c, "open")
NegotiationFails(c) == Ready(c, "failed")

GoAway(c) ==
    /\ phase[c] = "open"
    /\ phase' = [phase EXCEPT ![c] = "closed"]
    /\ UNCHANGED <<refd, streams, origin, pc, conn, status, result, sent>>

-----------------------------------------------------------------------------
(* A waiting request resumes when its connection is ready.                 *)

\* Mutant: nobody handles a negotiation that failed.
ResumeNegotiated(r) ==
    /\ pc[r] = "waiting" /\ phase[conn[r]] = "open"
    /\ streams' = [streams EXCEPT ![conn[r]] = @ + 1]
    /\ refd' = [refd EXCEPT ![conn[r]] = TRUE]
    /\ pc' = [pc EXCEPT ![r] = "stream"]
    /\ sent' = [sent EXCEPT ![r] = @ + 1]
    /\ UNCHANGED <<phase, origin, conn, status, result>>

\* A closed session refuses the new stream: the executor throws, and the
\* reference taken for it is given back at once.
Resume(r) ==
    /\ pc[r] = "waiting"
    /\ \/ /\ phase[conn[r]] = "open"
          /\ streams' = [streams EXCEPT ![conn[r]] = @ + 1]
          /\ refd' = [refd EXCEPT ![conn[r]] = TRUE]
          /\ pc' = [pc EXCEPT ![r] = "stream"]
          /\ sent' = [sent EXCEPT ![r] = @ + 1]
          /\ UNCHANGED result
       \/ /\ phase[conn[r]] = "closed"
          /\ Settle(r, "error")
          /\ refd' = [refd EXCEPT ![conn[r]] = streams[conn[r]] # 0]
          /\ UNCHANGED <<streams, sent>>
       \/ /\ phase[conn[r]] = "failed"
          /\ Fetch(r)
          /\ UNCHANGED <<refd, streams, result>>
    /\ UNCHANGED <<phase, origin, conn, status>>

StreamResponds(r) ==
    /\ pc[r] = "stream" /\ status[r] = "none"
    /\ \E s \in {"plain", "retryable"} : status' = [status EXCEPT ![r] = s]
    /\ UNCHANGED <<connections, pc, conn, result, sent>>

StreamEnds(r) ==
    /\ pc[r] = "stream"
    /\ Settle(r, IF status[r] = "none" THEN "error" ELSE "response")
    /\ Release(conn[r])
    /\ UNCHANGED <<phase, origin, conn, status, sent>>

\* Mutant: a stream that broke before its answer is repeated over HTTP/1.
StreamFallsBack(r) ==
    /\ pc[r] = "stream" /\ status[r] = "none"
    /\ Fetch(r)
    /\ Release(conn[r])
    /\ UNCHANGED <<phase, origin, conn, status, result>>

\* The stream was reset, its session was destroyed, or it was silent for
\* HTTP2_REQUEST_TIMEOUT_MS.
StreamFails(r) ==
    /\ pc[r] = "stream"
    /\ Settle(r, BrokenAnswer(r))
    /\ Release(conn[r])
    /\ UNCHANGED <<phase, origin, conn, status, sent>>

-----------------------------------------------------------------------------
(* HTTP/1.                                                                 *)

\* Mutant: the downgrade does not look at the cache again.
DowngradedAnyway(r) == IF conn[r] # 0 THEN Http1 ELSE origin

\* An answer over HTTP/1 proves the origin's protocol, unless another
\* request has opened a new connection since the negotiation failed.
Downgraded(r) == IF conn[r] # 0 /\ origin = conn[r] THEN Http1 ELSE origin

FetchResponds(r) ==
    /\ pc[r] = "fetch"
    /\ \E s \in {"plain", "retryable"} : status' = [status EXCEPT ![r] = s]
    /\ pc' = [pc EXCEPT ![r] = "body"]
    /\ origin' = Downgraded(r)
    /\ UNCHANGED <<phase, refd, streams, conn, result, sent>>

FetchFails(r) ==
    /\ pc[r] = "fetch"
    /\ Settle(r, "error")
    /\ UNCHANGED <<connections, conn, status, sent>>

FetchBody(r) ==
    /\ pc[r] = "body"
    /\ \E outcome \in {"response", BrokenAnswer(r)} : Settle(r, outcome)
    /\ UNCHANGED <<connections, conn, status, sent>>

-----------------------------------------------------------------------------
Proceed(r) ==
    \/ Resume(r) \/ StreamResponds(r) \/ StreamEnds(r) \/ StreamFails(r)
    \/ FetchResponds(r) \/ FetchFails(r) \/ FetchBody(r)

Next ==
    \/ \E r \in Requests : SendHttp1(r) \/ SendShared(r) \/ Connect(r) \/ Proceed(r)
    \/ \E c \in Conns : Negotiated(c) \/ NegotiationFails(c) \/ GoAway(c)

Spec == Init /\ [][Next]_vars

\* Promises resume; negotiations and streams end, or time out after
\* HTTP2_REQUEST_TIMEOUT_MS; fetch has time-outs of its own.
Fairness ==
    /\ \A r \in Requests : WF_vars(Proceed(r))
    /\ \A c \in Conns : WF_vars(Negotiated(c) \/ NegotiationFails(c))

FairSpec == Spec /\ Fairness

-----------------------------------------------------------------------------
(* Properties                                                              *)

OnStream(c) == {r \in Requests : pc[r] = "stream" /\ conn[r] = c}

TypeOK ==
    /\ phase \in [Conns -> {"unused", "negotiating", "open", "closed", "failed"}]
    /\ refd \in [Conns -> BOOLEAN]
    /\ streams \in [Conns -> 0..Cardinality(Requests)]
    /\ origin \in Conns \cup {Unknown, Http1}
    /\ pc \in [Requests -> {"idle", "waiting", "stream", "fetch", "body", "settled"}]
    /\ conn \in [Requests -> Conns \cup {0}]
    /\ status \in [Requests -> {"none", "plain", "retryable"}]
    /\ result \in [Requests -> {"none", "response", "error"}]
    /\ sent \in [Requests -> Nat]

\* A request is handed to at most one transport, once: the fall-back to
\* HTTP/1 (index.ts:2657) never repeats an operation that a stream carried.
SentOnce == \A r \in Requests : sent[r] <= 1

\* The count of streams is the number of requests in flight, and a connection
\* keeps the process alive exactly while it negotiates or carries one: an
\* idle program exits, and one that waits for an answer does not (2577, 2627).
IdleLetsTheProcessExit ==
    \A c \in Conns :
        /\ streams[c] = Cardinality(OnStream(c))
        /\ refd[c] <=> phase[c] = "negotiating" \/ streams[c] > 0

\* A usable connection is always the one in the cache: requests share it, and
\* a slow HTTP/1 answer to an earlier failed negotiation does not throw it
\* away for the rest of the process (2669).
LiveConnectionIsCurrent ==
    \A c \in Conns : phase[c] \in {"negotiating", "open"} => origin = c

\* What sendRequest returns tells what arrived: no response without a status,
\* and no retryable status lost to a transport that broke after it (2617, 2674).
ArrivedStatusIsReported ==
    \A r \in Requests : pc[r] = "settled" =>
        /\ result[r] = "response" => status[r] # "none"
        /\ status[r] = "retryable" => result[r] = "response"

\* Every request settles, whatever happens to its connection.
EveryRequestSettles ==
    \A r \in Requests : pc[r] # "idle" ~> pc[r] = "settled"

-----------------------------------------------------------------------------
(* The inductive invariant.                                                *)

\* What a request has done and heard, by where it is.
RequestInv ==
    \A r \in Requests :
        /\ pc[r] = "idle" => conn[r] = 0
        /\ pc[r] \in {"idle", "waiting"} => sent[r] = 0
        /\ pc[r] \in {"idle", "waiting", "fetch"} => status[r] = "none"
        /\ pc[r] = "body" => status[r] # "none"

\* The cache names a connection that was begun; a request waits for one and
\* holds a stream of one that was negotiated; it is on HTTP/1 after its own
\* negotiation failed, if it began one.
ConnectionInv ==
    /\ origin \in Conns => phase[origin] # "unused"
    /\ \A r \in Requests :
        /\ pc[r] = "waiting" => conn[r] # 0 /\ phase[conn[r]] # "unused"
        /\ pc[r] = "stream" => conn[r] # 0 /\ phase[conn[r]] \in {"open", "closed"}
        /\ pc[r] \in {"fetch", "body"} => conn[r] = 0 \/ phase[conn[r]] = "failed"

TransportInv ==
    /\ RequestInv
    /\ ConnectionInv
    /\ SentOnce
    /\ IdleLetsTheProcessExit
    /\ LiveConnectionIsCurrent
    /\ ArrivedStatusIsReported
=============================================================================
