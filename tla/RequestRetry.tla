---------------------------- MODULE RequestRetry ----------------------------
(***************************************************************************)
(* The request loop of the TypeScript and Python clients (requestJson in   *)
(* typescript/src/index.ts, _request_json in python/src/arker/computer.py) *)
(* against ApiServer: which answers it retries, how long it waits, which   *)
(* budget it spends (attempts, or the queueing_timeout window) and what it *)
(* tells the caller.                                                       *)
(*                                                                         *)
(* Time is relative: left[c] is what is left of the call's window and      *)
(* sleep[c] of its back-off, in ticks, and Tick lowers both.  A timer may  *)
(* fire up to Lateness ticks after it is due, so both go below zero.       *)
(***************************************************************************)
EXTENDS ApiServer

CONSTANTS
    TicksPerSec,  \* resolution of the clock
    BaseDelay,    \* RetryOptions.baseDelayMs, in ticks
    MaxDelay,     \* RetryOptions.maxDelayMs, in ticks
    HintCap,      \* RetryConfig.hintCapMs: the cap on a server hint, in ticks
    Jitter,       \* RetryOptions.jitterMs, in ticks
    Lateness,     \* how late a timer may fire, in ticks
    LongestSleep, \* an upper bound of every back-off
    AttemptCap    \* where the attempt counter saturates

ASSUME RetryAssumption ==
    /\ TicksPerSec \in Nat \ {0}
    /\ BaseDelay \in Nat
    /\ MaxDelay \in Nat
    /\ HintCap \in Nat
    /\ Jitter \in Nat
    /\ Lateness \in Nat
    /\ LongestSleep \in Nat
    /\ AttemptCap \in Nat
    /\ \A r \in Requests : r.attempts <= AttemptCap

VARIABLES
    pc,       \* pc[c]: where call c is in the loop
    attempt,  \* attempt[c]: the loop counter
    left,     \* left[c]: ticks until queueingDeadline
    sleep,    \* sleep[c]: ticks until the back-off timer is due
    outcome   \* outcome[c]: what the caller of c was told

clientVars == <<pc, attempt, left, sleep, outcome>>
vars == <<serverVars, clientVars>>

Outcomes ==
    [type : {"pending", "ok", "error", "unavailable", "unknown"},
     vm : Calls \cup {NoVm}, code : Codes, work : Works]

Pending == [type |-> "pending", vm |-> NoVm, code |-> "none", work |-> "absent"]

TypeOK ==
    /\ ServerTypeOK
    /\ pc \in [Calls -> {"idle", "sent", "backoff", "settled"}]
    /\ attempt \in [Calls -> 0 .. AttemptCap]
    /\ left \in [Calls -> Int]
    /\ sleep \in [Calls -> Int]
    /\ outcome \in [Calls -> Outcomes]

-----------------------------------------------------------------------------
(* The decisions of the loop.                                              *)

Lesser(a, b) == IF a <= b THEN a ELSE b
Greater(a, b) == IF a >= b THEN a ELSE b

\* retry.attempts = 1 is exactly one request, window or not.
Windowed(c) == req[c].window > 0 /\ req[c].attempts > 1

RetryNetworkFailures(c) == req[c].kind = "read"

\* Mutant: every transient answer is taken for a refusal.
isRetryableUnkeyed(reply, replaySafe) ==
    reply.code = "transient" /\ reply.work \in {"absent", "not_started"}

\* Mutant: any word about the work is taken for safe to replay.
isRetryableStarted(reply, replaySafe) ==
    reply.code = "transient" /\ (reply.work # "absent" \/ replaySafe)

\* recovery.work outranks the caller's key: started work is never replayed,
\* work that did not start is safe to replay without one.
isRetryable(reply, replaySafe) ==
    /\ reply.code = "transient"
    /\ \/ reply.work = "not_started"
       \/ reply.work = "absent" /\ replaySafe

\* The key of one fork, chosen once, before the loop: the caller's own, a minted
\* one if the caller asked for it, and by default none.
forkIdempotencyKey(key, idempotency, minted) ==
    IF key # NoKey THEN key ELSE IF idempotency THEN minted ELSE NoKey

\* Mutant: one attempt too many.
canRetryOnceMore(c, delay) ==
    IF Windowed(c) THEN delay < left[c] ELSE attempt[c] < req[c].attempts

\* Mutant: the window is checked before the sleep, not after it.
canRetryInWindow(c, delay) ==
    IF Windowed(c) THEN 0 < left[c] ELSE attempt[c] < req[c].attempts - 1

\* Mutant: a window replaces the attempt count and bounds nothing.
canRetryForever(c, delay) == Windowed(c) \/ attempt[c] < req[c].attempts - 1

\* Without a window the attempt count is the budget; with one, the sleep must
\* still end inside it.
canRetryAgain(c, delay) ==
    IF Windowed(c) THEN delay < left[c] ELSE attempt[c] < req[c].attempts - 1

\* The server's hint beats exponential back-off; jitter is added to either.
retryDelay(n, hint) ==
    LET base == IF hint # NoHint
                THEN Lesser(hint * TicksPerSec, HintCap)
                ELSE Lesser(MaxDelay, BaseDelay * 2^n)
    IN  {d \in 0 .. LongestSleep : d \in base .. base + Jitter}

\* Mutant: the lower bound of one second is forgotten.
RemainingSecsUnbounded(ticks) == -((-ticks) \div TicksPerSec)

\* The remaining window in whole seconds, rounded up and never below one.
RemainingSecs(ticks) == Greater(1, -((-ticks) \div TicksPerSec))

-----------------------------------------------------------------------------
(* The loop.                                                               *)

Start(c) ==
    /\ pc[c] = "idle"
    /\ pc' = [pc EXCEPT ![c] = "sent"]
    /\ left' = [left EXCEPT ![c] = IF Windowed(c) THEN req[c].window * TicksPerSec ELSE 0]
    /\ Transmit(c, [key |-> req[c].key, secs |-> req[c].window])
    /\ UNCHANGED <<req, orphans, effects, ledger, attempt, sleep, outcome>>

Settle(c, type, reply) ==
    /\ pc' = [pc EXCEPT ![c] = "settled"]
    /\ outcome' = [outcome EXCEPT ![c] =
           [type |-> type, vm |-> reply.vm, code |-> reply.code, work |-> reply.work]]
    /\ inbox' = [inbox EXCEPT ![c] = NoReply]
    /\ UNCHANGED <<req, wire, orphans, effects, ledger, attempt, left, sleep>>

BackOff(c, delay) ==
    /\ pc' = [pc EXCEPT ![c] = "backoff"]
    /\ sleep' = [sleep EXCEPT ![c] = delay]
    /\ attempt' = [attempt EXCEPT ![c] = Lesser(@ + 1, AttemptCap)]
    /\ inbox' = [inbox EXCEPT ![c] = NoReply]
    /\ UNCHANGED <<req, wire, orphans, effects, ledger, left, outcome>>

OnPayload(c) ==
    /\ pc[c] = "sent" /\ inbox[c].type = "payload"
    /\ Settle(c, "ok", inbox[c])

OnError(c) ==
    /\ pc[c] = "sent" /\ inbox[c].type = "error"
    /\ \E delay \in retryDelay(attempt[c], inbox[c].hint) :
           IF /\ isRetryable(inbox[c], RetryNetworkFailures(c) \/ Keyed(c))
              /\ canRetryAgain(c, delay)
           THEN BackOff(c, delay)
           ELSE Settle(c, "error", inbox[c])

\* A failed transport is retried only for a read: an Idempotency-Key does not
\* change that, the caller of a write is told the outcome is unknown.
OnNetworkFailure(c) ==
    /\ pc[c] = "sent" /\ inbox[c].type = "network"
    /\ \/ /\ ~RetryNetworkFailures(c)
          /\ Settle(c, "unknown", inbox[c])
       \/ /\ RetryNetworkFailures(c)
          /\ \E delay \in retryDelay(attempt[c], NoHint) :
                 IF canRetryAgain(c, delay)
                 THEN BackOff(c, delay)
                 ELSE Settle(c, "unavailable", inbox[c])

\* Mutant: the replay loses its key.
ResendUnkeyed(c) ==
    /\ pc[c] = "backoff" /\ sleep[c] <= 0
    /\ pc' = [pc EXCEPT ![c] = "sent"]
    /\ Transmit(c, [key |-> NoKey, secs |-> req[c].window])
    /\ sleep' = [sleep EXCEPT ![c] = 0]
    /\ UNCHANGED <<req, orphans, effects, ledger, attempt, left, outcome>>

\* Mutant: every replay rewrites queueing_timeout, asked for or not.
ResendRewritten(c) ==
    /\ pc[c] = "backoff" /\ sleep[c] <= 0
    /\ pc' = [pc EXCEPT ![c] = "sent"]
    /\ Transmit(c, [key |-> req[c].key, secs |-> RemainingSecs(left[c])])
    /\ sleep' = [sleep EXCEPT ![c] = 0]
    /\ UNCHANGED <<req, orphans, effects, ledger, attempt, left, outcome>>

\* The sleep is over: a windowed call re-sends the remaining window.
Resend(c) ==
    /\ pc[c] = "backoff" /\ sleep[c] <= 0
    /\ pc' = [pc EXCEPT ![c] = "sent"]
    /\ Transmit(c, [key |-> req[c].key,
                    secs |-> IF Windowed(c) THEN RemainingSecs(left[c]) ELSE req[c].window])
    /\ sleep' = [sleep EXCEPT ![c] = 0]
    /\ UNCHANGED <<req, orphans, effects, ledger, attempt, left, outcome>>

\* Time passes.  left stops one tick below what any back-off can reach: from
\* there on every comparison with it has the same result.
Tick ==
    /\ \A c \in Calls : pc[c] = "backoff" => sleep[c] > -Lateness
    /\ left' = [c \in Calls |->
           IF Windowed(c) /\ pc[c] \in {"sent", "backoff"}
           THEN Greater(left[c] - 1, -Lateness - 1) ELSE left[c]]
    /\ sleep' = [c \in Calls |-> IF pc[c] = "backoff" THEN sleep[c] - 1 ELSE sleep[c]]
    /\ UNCHANGED <<serverVars, pc, attempt, outcome>>

Init ==
    /\ ServerInit
    /\ pc = [c \in Calls |-> "idle"]
    /\ attempt = [c \in Calls |-> 0]
    /\ left = [c \in Calls |-> 0]
    /\ sleep = [c \in Calls |-> 0]
    /\ outcome = [c \in Calls |-> Pending]

HandleReply(c) == OnPayload(c) \/ OnError(c) \/ OnNetworkFailure(c)

ClientNext(c) == Start(c) \/ HandleReply(c) \/ Resend(c)

Next ==
    \/ \E c \in Calls : ClientNext(c)
    \/ \E c \in Calls : ServerNext(c) /\ UNCHANGED clientVars
    \/ Tick

Spec == Init /\ [][Next]_vars

\* The event loop runs every handler that is due, every request ends (300 s
\* transport timeouts at the latest), and time does not stop.  Nothing is
\* assumed of orphans, nor that a caller starts a call.
Fairness ==
    /\ \A c \in Calls : /\ WF_vars(HandleReply(c))
                        /\ WF_vars(Resend(c))
                        /\ WF_vars(ConnectionFails(c) /\ UNCHANGED clientVars)
    /\ SF_vars(Tick)

FairSpec == Spec /\ Fairness

-----------------------------------------------------------------------------
(* Properties.                                                             *)

\* "not_started" told to the caller of an unkeyed write is the last word: no
\* request of the call did anything, and none that still could is under way.
RefusalIsFinal ==
    \A c \in Calls :
        /\ outcome[c].type = "error" /\ outcome[c].work = "not_started"
        /\ req[c].kind = "write" /\ ~Keyed(c)
        => effects[c] = 0 /\ orphans[c] = {}

\* The resource a write returns exists and was made by this operation, and two
\* calls that succeed under one key, retries of each other by hand or racing
\* from two processes, return the same one.
SuccessIsShared ==
    \A c, d \in Calls :
        outcome[c].type = "ok" /\ req[c].kind = "write" =>
            /\ effects[outcome[c].vm] = 1
            /\ SameOperation(c, outcome[c].vm)
            /\ outcome[d].type = "ok" /\ SameOperation(c, d) => outcome[d].vm = outcome[c].vm

\* While an unkeyed write sleeps before a replay, nothing it sent can still
\* take effect.
SafeToReplay ==
    \A c \in Calls :
        pc[c] = "backoff" /\ req[c].kind = "write" /\ ~Keyed(c) =>
            effects[c] = 0 /\ orphans[c] = {} /\ wire[c] = {}

\* A call without a queueing window keeps its body, so its key can only
\* conflict with another call that bound it to a different request.
ConflictIsForeign ==
    \A c \in Calls :
        outcome[c].code = "idempotency_conflict" /\ ~Windowed(c) =>
            \A b \in Bound(req[c].key) :
                /\ b.owner # c
                /\ Windowed(b.owner) \/ req[b.owner].window # req[c].window

ReplayFits(c) ==
    pc[c] = "backoff" /\ pc'[c] = "sent" /\ Windowed(c) =>
        /\ left[c] > -Lateness
        /\ \A tx \in wire'[c] :
               tx.secs * TicksPerSec < left[c] + TicksPerSec + Lateness

\* A replay leaves at most Lateness ticks after the window closed, and lets
\* the server hold it at most one rounded-up second past that.
WindowIsKept == [][\A c \in Calls : ReplayFits(c)]_vars

\* Without a window a call sends at most req.attempts requests, and with one
\* attempt exactly one, window or not.
AttemptsAreKept ==
    \A c \in Calls : ~Windowed(c) => attempt[c] < req[c].attempts

\* Every call that is sent is settled: by an answer, or by a budget that runs
\* out, even when the server's hints ask for immediate replays in a window.
EveryCallSettles == \A c \in Calls : pc[c] = "sent" ~> pc[c] = "settled"

-----------------------------------------------------------------------------
(* The inductive invariant behind the properties.                          *)

UnkeyedWrite(c) == req[c].kind = "write" /\ ~Keyed(c)

\* A call waits for an answer only while it is sent, and for one at a time.
WaitsInv ==
    \A c \in Calls :
        /\ pc[c] # "sent" => wire[c] = {} /\ inbox[c].type = "none"
        /\ pc[c] = "idle" => orphans[c] = {} /\ effects[c] = 0
        /\ wire[c] # {} => inbox[c].type = "none"
        /\ pc[c] # "settled" => outcome[c] = Pending

\* Every request of a call carries the call's key.
KeysInv == \A c \in Calls : \A tx \in wire[c] \cup orphans[c] : tx.key = req[c].key

\* The ledger knows the one call that made a key's resource.
LedgerInv ==
    /\ \A k \in Keys : \A b, d \in ledger[k] : b = d
    /\ \A k \in Keys : \A b \in ledger[k] : req[b.owner].key = k /\ effects[b.owner] = 1
    /\ \A c \in Calls :
           Keyed(c) /\ effects[c] > 0 => \E b \in ledger[req[c].key] : b.owner = c
    /\ \A c \in Calls : req[c].kind = "read" => effects[c] = 0

\* An unkeyed write has one chance to take effect: the request it waits for,
\* or one orphan, or the effect itself; and none while it may be replayed.
OneChanceInv ==
    \A c \in Calls : UnkeyedWrite(c) =>
        /\ effects[c] <= 1
        /\ wire[c] # {} => effects[c] = 0 /\ orphans[c] = {}
        /\ orphans[c] # {} => effects[c] = 0
        /\ \A t, u \in orphans[c] : t = u
        /\ inbox[c].work = "not_started" \/ outcome[c].work = "not_started" \/ pc[c] = "backoff"
               => effects[c] = 0 /\ orphans[c] = {} /\ wire[c] = {}

\* vm is the resource of the operation c asks for.
MadeFor(vm, c) ==
    /\ vm \in Calls
    /\ effects[vm] = 1
    /\ IF Keyed(c) THEN \E b \in ledger[req[c].key] : b.owner = vm ELSE vm = c

\* Who made the resource a write is answered with.
AnswerInv ==
    \A c \in Calls : req[c].kind = "write" =>
        /\ inbox[c].type = "payload" => MadeFor(inbox[c].vm, c)
        /\ outcome[c].type = "ok" => MadeFor(outcome[c].vm, c)

\* What key k is bound to is not what c sends: c keeps its body, and so did the
\* other call that bound k, unless it shrank its window.
BoundElsewhere(c) ==
    /\ Bound(req[c].key) # {}
    /\ \A b \in Bound(req[c].key) :
           /\ b.owner # c
           /\ Windowed(b.owner) \/ req[b.owner].window # req[c].window

\* A call without a window sends one body, and so knows whose conflict it got.
BodyInv ==
    /\ \A c \in Calls : ~Windowed(c) =>
           /\ \A tx \in wire[c] \cup orphans[c] : tx.secs = req[c].window
           /\ inbox[c].code = "idempotency_conflict" => BoundElsewhere(c)
           /\ outcome[c].code = "idempotency_conflict" => BoundElsewhere(c)
    /\ \A k \in Keys : \A b \in ledger[k] :
           ~Windowed(b.owner) => b.secs = req[b.owner].window

SafetyInv == WaitsInv /\ KeysInv /\ LedgerInv /\ OneChanceInv /\ AnswerInv /\ BodyInv

\* A back-off ends at most Lateness after it is due, and was to end in the window.
BudgetInv ==
    /\ AttemptsAreKept
    /\ \A c \in Calls : pc[c] = "backoff" =>
           sleep[c] >= -Lateness /\ (Windowed(c) => sleep[c] < left[c])

-----------------------------------------------------------------------------
(* The loop implements AtMostOnce.                                         *)

\* Reads make nothing and are not part of the abstract operations: their
\* answers are not mapped.
AnswerOf(c) ==
    IF outcome[c].type = "pending" \/ req[c].kind = "read"
    THEN [type |-> "open", vm |-> NoVm]
    ELSE IF outcome[c].type = "ok"
    THEN [type |-> "ok", vm |-> Resource(outcome[c].vm, 1)]
    ELSE IF outcome[c].work = "not_started" /\ ~Keyed(c)
    THEN [type |-> "refused", vm |-> NoVm]
    ELSE [type |-> "failed", vm |-> NoVm]

Made(o) ==
    UNION {{Resource(c, n) : n \in 1 .. effects[c]} : c \in {d \in Calls : OperationOf(d) = o}}

Abstract == INSTANCE AtMostOnce WITH
    Operations <- AllOperations,
    Resources <- Calls \X {1},
    None <- NoVm,
    op <- [c \in Calls |-> OperationOf(c)],
    made <- [o \in AllOperations |-> Made(o)],
    answer <- [c \in Calls |-> AnswerOf(c)]

\* Every behaviour of the clients is one of AtMostOnce: retries, orphans, the
\* ledger and the budgets are invisible to the callers.
ImplementsAtMostOnce == Abstract!Spec
=============================================================================
