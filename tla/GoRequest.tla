----------------------------- MODULE GoRequest -----------------------------
(***************************************************************************)
(* The request loop of the Go client (Client.do in go/client.go) against   *)
(* ApiServer.  It differs from the other clients: it replays any answer    *)
(* that looks transient, whatever the method, the key or recovery.work     *)
(* say; it has no queueing window, so a replay is the same request; the    *)
(* caller's context can end it anywhere; and a response whose body cannot  *)
(* be read is returned as it is.                                           *)
(***************************************************************************)
EXTENDS ApiServer

VARIABLES
    pc,         \* pc[c]: where call c is in the loop
    attempt,    \* attempt[c]: the loop counter
    last,       \* last[c]: the answer the call backs off after
    cancelled,  \* cancelled[c]: the caller's context has ended
    outcome     \* outcome[c]: what the caller of c was told

clientVars == <<pc, attempt, last, cancelled, outcome>>
vars == <<serverVars, clientVars>>

Outcomes ==
    [type : {"pending", "ok", "error", "transport", "unknown", "cancelled"},
     vm : Calls \cup {NoVm}, code : Codes]

Pending == [type |-> "pending", vm |-> NoVm, code |-> "none"]

TypeOK ==
    /\ ServerTypeOK
    /\ pc \in [Calls -> {"idle", "sent", "backoff", "settled"}]
    /\ attempt \in [Calls -> Nat]
    /\ \A c \in Calls : attempt[c] < req[c].attempts
    /\ last \in [Calls -> Replies]
    /\ cancelled \in [Calls -> BOOLEAN]
    /\ outcome \in [Calls -> Outcomes]

isRead(c) == req[c].kind = "read"

\* Neither the key nor recovery.work is looked at.
retryable(reply) == reply.code = "transient"

\* Mutant: one attempt too many.
LastAttemptLate(c) == attempt[c] = req[c].attempts

LastAttempt(c) == attempt[c] = req[c].attempts - 1

\* Fork: an explicit key wins, a minted one on request, none by default.
forkIdempotencyKey(key, idempotency, minted) ==
    IF key # NoKey THEN key ELSE IF idempotency THEN minted ELSE NoKey

\* Mutant: only the first attempt presents the key.
SendKeyOnce(c) ==
    Transmit(c, [key |-> IF pc[c] = "idle" THEN req[c].key ELSE NoKey, secs |-> req[c].window])

Send(c) == Transmit(c, [key |-> req[c].key, secs |-> req[c].window])

Start(c) ==
    /\ pc[c] = "idle"
    /\ pc' = [pc EXCEPT ![c] = "sent"]
    /\ Send(c)
    /\ UNCHANGED <<req, orphans, effects, ledger, attempt, last, cancelled, outcome>>

Settle(c, type, reply) ==
    /\ pc' = [pc EXCEPT ![c] = "settled"]
    /\ outcome' = [outcome EXCEPT ![c] = [type |-> type, vm |-> reply.vm, code |-> reply.code]]
    /\ inbox' = [inbox EXCEPT ![c] = NoReply]
    /\ UNCHANGED <<req, wire, orphans, effects, ledger, attempt, last, cancelled>>

BackOff(c, reply) ==
    /\ pc' = [pc EXCEPT ![c] = "backoff"]
    /\ last' = [last EXCEPT ![c] = reply]
    /\ inbox' = [inbox EXCEPT ![c] = NoReply]
    /\ UNCHANGED <<req, wire, orphans, effects, ledger, attempt, cancelled, outcome>>

OnPayload(c) ==
    /\ pc[c] = "sent" /\ inbox[c].type = "payload"
    /\ Settle(c, "ok", inbox[c])

\* The guard of the last attempt comes before the sleep.
OnError(c) ==
    /\ pc[c] = "sent" /\ inbox[c].type = "error"
    /\ IF retryable(inbox[c]) /\ ~LastAttempt(c)
       THEN BackOff(c, inbox[c])
       ELSE Settle(c, "error", inbox[c])

\* No response: the caller's context explains it, or a read is repeated, or
\* the outcome of a write is unknown.
OnSendFailure(c) ==
    /\ pc[c] = "sent" /\ inbox[c].type = "network"
    /\ \/ cancelled[c] /\ Settle(c, "cancelled", inbox[c])
       \/ ~cancelled[c] /\ ~isRead(c) /\ Settle(c, "unknown", inbox[c])
       \/ ~cancelled[c] /\ isRead(c) /\ LastAttempt(c) /\ Settle(c, "transport", inbox[c])
       \/ ~cancelled[c] /\ isRead(c) /\ ~LastAttempt(c) /\ BackOff(c, inbox[c])

\* Headers arrived and the body did not: drain's error is returned.
OnDrainFailure(c) ==
    /\ pc[c] = "sent" /\ inbox[c].type = "network"
    /\ Settle(c, "transport", inbox[c])

\* Mutant: a replay is not counted.
ResendUncounted(c) ==
    /\ pc[c] = "backoff"
    /\ pc' = [pc EXCEPT ![c] = "sent"]
    /\ last' = [last EXCEPT ![c] = NoReply]
    /\ Send(c)
    /\ UNCHANGED <<req, orphans, effects, ledger, attempt, cancelled, outcome>>

\* The back-off timer fires, or the context ends first and the answer that
\* caused the back-off is returned.  With both ready, select takes either.
Resend(c) ==
    /\ pc[c] = "backoff"
    /\ pc' = [pc EXCEPT ![c] = "sent"]
    /\ attempt' = [attempt EXCEPT ![c] = @ + 1]
    /\ last' = [last EXCEPT ![c] = NoReply]
    /\ Send(c)
    /\ UNCHANGED <<req, orphans, effects, ledger, cancelled, outcome>>

StopBackOff(c) ==
    /\ pc[c] = "backoff" /\ cancelled[c]
    /\ Settle(c, IF last[c].type = "error" THEN "error" ELSE "transport", last[c])

\* The caller's context ends.  A request under way fails on the client's side.
Cancel(c) ==
    /\ ~cancelled[c] /\ pc[c] \in {"sent", "backoff"}
    /\ cancelled' = [cancelled EXCEPT ![c] = TRUE]
    /\ UNCHANGED <<serverVars, pc, attempt, last, outcome>>

Init ==
    /\ ServerInit
    /\ pc = [c \in Calls |-> "idle"]
    /\ attempt = [c \in Calls |-> 0]
    /\ last = [c \in Calls |-> NoReply]
    /\ cancelled = [c \in Calls |-> FALSE]
    /\ outcome = [c \in Calls |-> Pending]

HandleReply(c) ==
    OnPayload(c) \/ OnError(c) \/ OnSendFailure(c) \/ OnDrainFailure(c)

ClientNext(c) ==
    Start(c) \/ HandleReply(c) \/ Resend(c) \/ StopBackOff(c) \/ Cancel(c)

Next ==
    \/ \E c \in Calls : ClientNext(c)
    \/ \E c \in Calls : ServerNext(c) /\ UNCHANGED clientVars

Spec == Init /\ [][Next]_vars

\* Goroutines and timers run; every request ends, at the HTTP client's timeout
\* at the latest.  Callers need not start, nor cancel.
Fairness ==
    \A c \in Calls :
        /\ WF_vars(HandleReply(c))
        /\ WF_vars(Resend(c) \/ StopBackOff(c))
        /\ WF_vars(ConnectionFails(c) /\ UNCHANGED clientVars)

FairSpec == Spec /\ Fairness

-----------------------------------------------------------------------------
(* Properties.                                                             *)

\* Two calls that succeed under one key return the one resource it made.
KeyedForksConverge ==
    \A c, d \in Calls :
        /\ outcome[c].type = "ok" /\ outcome[d].type = "ok"
        /\ Keyed(c) /\ SameOperation(c, d)
        => outcome[c].vm = outcome[d].vm /\ effects[outcome[c].vm] = 1

\* What the Go client keeps of at-most-once: a write that carries a key, or
\* that may be sent once only, takes effect at most once, however often it is
\* replayed or delayed, and whoever else replays its key; and the calls of one
\* key are told of the one machine.
SafeForksHappenOnce ==
    /\ \A c, d \in Calls :
          /\ Keyed(c) \/ req[c].attempts = 1
          /\ effects[c] > 0 /\ SameOperation(c, d)
          => effects[c] = 1 /\ (d = c \/ effects[d] = 0)
    /\ KeyedForksConverge

\* A call that was sent comes to an end.
EveryCallSettles == \A c \in Calls : pc[c] = "sent" ~> pc[c] = "settled"

\* "Every Fork carries an idempotency key", which is why replaying a 502 or a
\* 504 is safe: one fork makes one machine.
OneForkOneMachine == AtMostOneEffect

-----------------------------------------------------------------------------
(* The inductive invariant behind SafeForksHappenOnce.                     *)

\* Every request of a call carries the call's key.
KeysInv == \A c \in Calls : \A tx \in wire[c] \cup orphans[c] : tx.key = req[c].key

\* The ledger knows the one call that made a key's resource.
LedgerInv ==
    /\ \A k \in Keys : \A b, d \in ledger[k] : b = d
    /\ \A k \in Keys : \A b \in ledger[k] : req[b.owner].key = k /\ effects[b.owner] = 1
    /\ \A c \in Calls :
           Keyed(c) /\ effects[c] > 0 => \E b \in ledger[req[c].key] : b.owner = c
    /\ \A c \in Calls : req[c].kind = "read" => effects[c] = 0

\* vm is what c's key is bound to.
BoundTo(vm, c) == \E b \in ledger[req[c].key] : b.owner = vm

\* A keyed call is only ever told of the resource its key is bound to.
AnswerInv ==
    \A c \in Calls : Keyed(c) =>
        /\ inbox[c].type = "payload" => BoundTo(inbox[c].vm, c)
        /\ outcome[c].type = "ok" => BoundTo(outcome[c].vm, c)

\* A write without a key that may be sent once only.
SentOnce(c) == req[c].kind = "write" /\ ~Keyed(c) /\ req[c].attempts = 1

\* It has one chance to take effect: the request it waits for, or one orphan,
\* or the effect itself; and it never comes to wait for a second one.
OneChanceInv ==
    \A c \in Calls : SentOnce(c) =>
        /\ pc[c] # "backoff" /\ effects[c] <= 1
        /\ pc[c] = "idle" => wire[c] = {} /\ effects[c] = 0 /\ orphans[c] = {}
        /\ wire[c] # {} => effects[c] = 0 /\ orphans[c] = {}
        /\ orphans[c] # {} => effects[c] = 0
        /\ \A t, u \in orphans[c] : t = u

\* A call sleeps only if it may send once more.
BackOffInv == \A c \in Calls : pc[c] = "backoff" => ~LastAttempt(c)

SafetyInv == KeysInv /\ LedgerInv /\ AnswerInv /\ OneChanceInv /\ BackOffInv

\* What SafetyInv does not say of the callers: nobody is told anything before
\* the end, and a write that is sent once is only told of what it made itself.
ToldInv ==
    \A c \in Calls :
        /\ pc[c] # "settled" => outcome[c] = Pending
        /\ SentOnce(c) =>
               /\ inbox[c].type = "payload" => inbox[c].vm = c /\ effects[c] = 1
               /\ outcome[c].type = "ok" => outcome[c].vm = c /\ effects[c] = 1

-----------------------------------------------------------------------------
(* On the calls it is safe for, the loop implements AtMostOnce.            *)

\* The writes the Go client keeps the promise for.  Reads make nothing; an
\* unkeyed write that may be replayed is go_fork_twice's subject.
Promised(c) == Keyed(c) \/ SentOnce(c)

\* The Go client does not tell a refusal that is final from a failure.
AnswerOf(c) ==
    IF outcome[c].type = "pending" \/ ~Promised(c)
    THEN [type |-> "open", vm |-> NoVm]
    ELSE IF outcome[c].type = "ok"
    THEN [type |-> "ok", vm |-> Resource(outcome[c].vm, 1)]
    ELSE [type |-> "failed", vm |-> NoVm]

Made(o) ==
    UNION {{Resource(c, n) : n \in 1 .. effects[c]} :
           c \in {d \in Calls : Promised(d) /\ OperationOf(d) = o}}

Abstract == INSTANCE AtMostOnce WITH
    Operations <- AllOperations,
    Resources <- Calls \X {1},
    None <- NoVm,
    op <- [c \in Calls |-> OperationOf(c)],
    made <- [o \in AllOperations |-> Made(o)],
    answer <- [c \in Calls |-> AnswerOf(c)]

\* What Client.do does to the writes that carry a key, or that are sent once
\* only, is what AtMostOnce allows: replays after any transient answer, orphans
\* and a context that ends anywhere are invisible to the callers.
ImplementsAtMostOnce == Abstract!Spec
=============================================================================
