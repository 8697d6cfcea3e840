----------------------------- MODULE ApiServer -----------------------------
(***************************************************************************)
(* The Arker API as the clients in this repository see it: an origin that  *)
(* creates resources, an idempotency ledger in front of it, and a network  *)
(* with gateways that lose answers or replace them.  The server is not     *)
(* part of the repository; what is assumed of it is what openapi.json and  *)
(* the clients' comments promise:                                          *)
(*   - an Idempotency-Key is bound to the first request that takes effect  *)
(*     under it; the same request again is answered with the first result, *)
(*     a different one is a 409 idempotency_conflict, where "the whole     *)
(*     canonicalised request" is compared (go/vms.go:93);                  *)
(*   - an error that says recovery.work = "not_started" is truthful about  *)
(*     the request it answers, and recovery is present whenever the origin *)
(*     itself knows of effects;                                            *)
(*   - a gateway's 502 or 504 says nothing: the request may be lost, done, *)
(*     or still on its way and done later.                                 *)
(* A client waits for at most one answer per call, so a call has at most   *)
(* one request on the wire; the requests it stopped waiting for are its    *)
(* orphans, and the origin may perform an orphan at any later time.        *)
(***************************************************************************)
EXTENDS Integers, FiniteSets

CONSTANTS
    Calls,     \* API calls, each issued at most once
    Keys,      \* idempotency keys
    NoKey,     \* "no Idempotency-Key header"
    NoVm,      \* "the reply names no resource"
    Requests,  \* the requests a caller may issue
    Hints      \* retry_after_seconds values the server may send

NoHint == -1

Works == {"absent", "not_started", "stopped", "continuing", "unknown"}

Codes == {"none", "transient", "quota_exceeded", "idempotency_conflict", "other"}

\* One call of the client's request function: what it asks for and the retry
\* budget it carries.  window is queueing_timeout in seconds, 0 when absent.
RequestType ==
    [kind : {"read", "write"}, key : Keys \cup {NoKey}, window : Nat,
     attempts : Nat \ {0}]

ASSUME ServerAssumption ==
    /\ NoKey \notin Keys
    /\ NoVm \notin Calls
    /\ Hints \subseteq Nat
    /\ Requests \subseteq RequestType
    /\ \A r \in Requests : r.kind = "read" => r.key = NoKey /\ r.window = 0

\* A resource is named by the call whose request created it.
Replies ==
    [type : {"none", "payload", "error", "network"}, vm : Calls \cup {NoVm},
     code : Codes, work : Works, hint : Hints \cup {NoHint}]

Payload(vm) ==
    [type |-> "payload", vm |-> vm, code |-> "none", work |-> "absent", hint |-> NoHint]

Error(code, work, hint) ==
    [type |-> "error", vm |-> NoVm, code |-> code, work |-> work, hint |-> hint]

NoReply == [Payload(NoVm) EXCEPT !.type = "none"]

\* The connection fails, or times out, before a usable answer.
NetworkFailure == [Payload(NoVm) EXCEPT !.type = "network"]

VARIABLES
    req,      \* req[c]: the request call c makes
    wire,     \* wire[c]: the request (at most one) call c waits for an answer to
    orphans,  \* orphans[c]: requests of c nobody waits for, not performed yet
    inbox,    \* inbox[c]: the answer to c's request, not handled yet
    effects,  \* effects[c]: resources created by c's requests
    ledger    \* ledger[k]: at most one binding [owner, body] of key k

serverVars == <<req, wire, orphans, inbox, effects, ledger>>

\* A request as transmitted: its Idempotency-Key header, and all of its body
\* that a replay can change, the queueing_timeout in seconds.
Transmissions == [key : Keys \cup {NoKey}, secs : Nat]

Bindings == [owner : Calls, secs : Nat]

ServerTypeOK ==
    /\ req \in [Calls -> Requests]
    /\ wire \in [Calls -> SUBSET Transmissions]
    /\ orphans \in [Calls -> SUBSET Transmissions]
    /\ inbox \in [Calls -> Replies]
    /\ effects \in [Calls -> Nat]
    /\ ledger \in [Keys -> SUBSET Bindings]

ServerInit ==
    /\ req \in [Calls -> Requests]
    /\ wire = [c \in Calls |-> {}]
    /\ orphans = [c \in Calls |-> {}]
    /\ inbox = [c \in Calls |-> NoReply]
    /\ effects = [c \in Calls |-> 0]
    /\ ledger = [k \in Keys |-> {}]

Keyed(c) == req[c].key # NoKey

Bound(key) == IF key \in Keys THEN ledger[key] ELSE {}

\* The client puts a request on the wire and starts to wait.
Transmit(c, tx) ==
    /\ wire' = [wire EXCEPT ![c] = {tx}]
    /\ inbox' = [inbox EXCEPT ![c] = NoReply]

Deliver(c, reply) ==
    /\ wire' = [wire EXCEPT ![c] = {}]
    /\ inbox' = [inbox EXCEPT ![c] = reply]

\* The origin performs one request of c: a read changes nothing, a request
\* whose key is bound creates nothing, any other creates a resource.
Perform(c, tx) ==
    IF req[c].kind = "read" \/ Bound(tx.key) # {}
    THEN UNCHANGED <<effects, ledger>>
    ELSE /\ effects' = [effects EXCEPT ![c] = @ + 1]
         /\ ledger' = IF tx.key \in Keys
                      THEN [ledger EXCEPT ![tx.key] = {[owner |-> c, secs |-> tx.secs]}]
                      ELSE ledger

Answers(c, tx) ==
    IF Bound(tx.key) = {}
    THEN {Payload(c)}
    ELSE {IF b.secs = tx.secs
          THEN Payload(b.owner)
          ELSE Error("idempotency_conflict", "absent", NoHint) : b \in Bound(tx.key)}

\* The origin performs the request and its answer arrives.
Serve(c) ==
    \E tx \in wire[c] : \E answer \in Answers(c, tx) :
        /\ Perform(c, tx)
        /\ Deliver(c, answer)
        /\ UNCHANGED <<req, orphans>>

\* The origin begins an effectful request, fails, and says so.
FailAfterStart(c) ==
    \E tx \in wire[c], code \in {"transient", "other"},
       work \in {"stopped", "continuing"} :
        /\ req[c].kind = "write"
        /\ Bound(tx.key) = {}
        /\ Perform(c, tx)
        /\ Deliver(c, Error(code, work, NoHint))
        /\ UNCHANGED <<req, orphans>>

\* The request is refused before any work: rate limits, capacity, quotas,
\* validation.  Only the origin's own errors say that nothing was started.
Refuse(c) ==
    \E tx \in wire[c], code \in {"transient", "quota_exceeded", "other"},
       work \in {"absent", "not_started"}, hint \in Hints \cup {NoHint} :
        /\ Deliver(c, Error(code, work, hint))
        /\ UNCHANGED <<req, orphans, effects, ledger>>

\* A gateway answers 502 or 504 in place of the origin, or an error says that
\* its work is unknown, or the connection is lost or times out.  In each case
\* the request becomes an orphan.
Abandon(c, reply) ==
    \E tx \in wire[c] :
        /\ orphans' = [orphans EXCEPT ![c] = @ \cup {tx}]
        /\ Deliver(c, reply)
        /\ UNCHANGED <<req, effects, ledger>>

GatewayFails(c) ==
    \E work \in {"absent", "unknown"} : Abandon(c, Error("transient", work, NoHint))

ConnectionFails(c) == Abandon(c, NetworkFailure)

\* The origin performs an orphan, late; the answer reaches nobody.
OrphanRuns(c) ==
    \E tx \in orphans[c] :
        /\ Perform(c, tx)
        /\ orphans' = [orphans EXCEPT ![c] = @ \ {tx}]
        /\ UNCHANGED <<req, wire, inbox>>

ServerNext(c) ==
    \/ Serve(c)
    \/ FailAfterStart(c)
    \/ Refuse(c)
    \/ GatewayFails(c)
    \/ ConnectionFails(c)
    \/ OrphanRuns(c)

-----------------------------------------------------------------------------
(* The operation a call asks for: the call's own, or that of its key.      *)

SameOperation(c, d) == c = d \/ (Keyed(c) /\ req[c].key = req[d].key)

OperationOf(c) == IF Keyed(c) THEN <<"key", req[c].key>> ELSE <<"call", c>>

AllOperations == ({"key"} \X Keys) \cup ({"call"} \X Calls)

\* The n-th resource that the requests of c create.
Resource(c, n) == <<c, n>>

\* However often a request is replayed, delayed or duplicated, an operation
\* creates at most one resource: an unkeyed write because it is replayed only
\* when nothing was started, a keyed one because every replay carries its key.
AtMostOneEffect ==
    \A c, d \in Calls :
        effects[c] > 0 /\ SameOperation(c, d) => effects[c] = 1 /\ (d = c \/ effects[d] = 0)
=============================================================================
