------------------------- MODULE RequestRetryProofs -------------------------
(***************************************************************************)
(* Proofs about RequestRetry for any calls, keys, requests, budgets and    *)
(* timings: type correctness, that an operation takes effect at most once, *)
(* from the inductive invariant SafetyInv, the budgets of a call, and that *)
(* the loop implements AtMostOnce.                                         *)
(***************************************************************************)
EXTENDS RequestRetry, TLAPS

(* The replies the server and the transport build are replies.             *)
LEMMA ReplyTypes ==
    /\ NoReply \in Replies
    /\ NetworkFailure \in Replies
    /\ \A vm \in Calls : Payload(vm) \in Replies
    /\ \A code \in Codes, work \in Works, hint \in Hints \cup {NoHint} :
           Error(code, work, hint) \in Replies
  BY DEF NoReply, NetworkFailure, Payload, Error, Replies, Codes, Works

(* Every back-off is a number of ticks.                                    *)
LEMMA DelayType ==
    ASSUME NEW n, NEW hint, NEW d \in retryDelay(n, hint)
    PROVE  d \in Nat
  BY RetryAssumption DEF retryDelay

LEMMA RemainingSecsType ==
    ASSUME NEW ticks \in Int
    PROVE  RemainingSecs(ticks) \in Nat /\ RemainingSecs(ticks) >= 1
<1>1. (-ticks) \div TicksPerSec \in Int
  BY RetryAssumption
<1>. QED
  BY <1>1 DEF RemainingSecs, Greater

LEMMA InitType == Init => TypeOK
<1>. SUFFICES ASSUME Init PROVE TypeOK
  OBVIOUS
<1>1. ServerTypeOK
  BY ReplyTypes DEF Init, ServerInit, ServerTypeOK
<1>. QED
  BY <1>1, RetryAssumption DEF Init, TypeOK, Outcomes, Pending, Codes, Works

(* What performing a request does to the types.                            *)
LEMMA PerformType ==
    ASSUME TypeOK, NEW c \in Calls, NEW tx \in Transmissions, Perform(c, tx)
    PROVE  effects' \in [Calls -> Nat] /\ ledger' \in [Keys -> SUBSET Bindings]
<1>1. CASE req[c].kind = "read" \/ Bound(tx.key) # {}
  BY <1>1 DEF Perform, TypeOK, ServerTypeOK
<1>2. CASE ~(req[c].kind = "read" \/ Bound(tx.key) # {})
  <2>1. [owner |-> c, secs |-> tx.secs] \in Bindings
    BY DEF Transmissions, Bindings
  <2>. QED
    BY <1>2, <2>1 DEF Perform, TypeOK, ServerTypeOK
<1>. QED
  BY <1>1, <1>2

LEMMA DeliverType ==
    ASSUME TypeOK, NEW c \in Calls, NEW reply \in Replies, Deliver(c, reply)
    PROVE  wire' \in [Calls -> SUBSET Transmissions] /\ inbox' \in [Calls -> Replies]
  BY DEF Deliver, TypeOK, ServerTypeOK

LEMMA TransmitType ==
    ASSUME TypeOK, NEW c \in Calls, NEW secs \in Nat,
           Transmit(c, [key |-> req[c].key, secs |-> secs])
    PROVE  wire' \in [Calls -> SUBSET Transmissions] /\ inbox' \in [Calls -> Replies]
<1>1. req[c].key \in Keys \cup {NoKey}
  BY ServerAssumption DEF TypeOK, ServerTypeOK, RequestType
<1>2. [key |-> req[c].key, secs |-> secs] \in Transmissions
  BY <1>1 DEF Transmissions
<1>. QED
  BY <1>2, ReplyTypes DEF Transmit, TypeOK, ServerTypeOK

LEMMA AnswersType ==
    ASSUME TypeOK, NEW c \in Calls, NEW tx \in Transmissions, NEW a \in Answers(c, tx)
    PROVE  a \in Replies
<1>1. CASE Bound(tx.key) = {}
  BY <1>1, ReplyTypes DEF Answers
<1>2. CASE Bound(tx.key) # {}
  <2>1. Bound(tx.key) \subseteq Bindings
    BY DEF Bound, TypeOK, ServerTypeOK
  <2>2. PICK b \in Bound(tx.key) :
          a = IF b.secs = tx.secs THEN Payload(b.owner)
              ELSE Error("idempotency_conflict", "absent", NoHint)
    BY <1>2 DEF Answers
  <2>3. b.owner \in Calls
    BY <2>1, <2>2 DEF Bindings
  <2>. QED
    BY <2>2, <2>3, ReplyTypes DEF Codes, Works
<1>. QED
  BY <1>1, <1>2

LEMMA ServerStepType ==
    ASSUME TypeOK, NEW c \in Calls, ServerNext(c), UNCHANGED clientVars
    PROVE  TypeOK'
<1>. USE DEF TypeOK, ServerTypeOK, clientVars
<1>1. CASE Serve(c)
  <2>1. PICK tx \in wire[c] : \E a \in Answers(c, tx) :
             Perform(c, tx) /\ Deliver(c, a) /\ UNCHANGED <<req, orphans>>
    BY <1>1 DEF Serve
  <2>2. tx \in Transmissions
    BY <2>1
  <2>. QED
    BY <2>1, <2>2, AnswersType, PerformType, DeliverType
<1>2. CASE FailAfterStart(c)
  <2>1. PICK tx \in wire[c], code \in {"transient", "other"}, work \in {"stopped", "continuing"} :
             Perform(c, tx) /\ Deliver(c, Error(code, work, NoHint)) /\ UNCHANGED <<req, orphans>>
    BY <1>2 DEF FailAfterStart
  <2>2. tx \in Transmissions
    BY <2>1
  <2>3. Error(code, work, NoHint) \in Replies
    BY ReplyTypes DEF Codes, Works
  <2>. QED
    BY <2>1, <2>2, <2>3, PerformType, DeliverType
<1>3. CASE Refuse(c)
  <2>1. PICK code \in {"transient", "quota_exceeded", "other"}, work \in {"absent", "not_started"},
             hint \in Hints \cup {NoHint} :
             Deliver(c, Error(code, work, hint)) /\ UNCHANGED <<req, orphans, effects, ledger>>
    BY <1>3 DEF Refuse
  <2>2. Error(code, work, hint) \in Replies
    BY ReplyTypes DEF Codes, Works
  <2>. QED
    BY <2>1, <2>2, DeliverType
<1>4. ASSUME NEW reply \in Replies, Abandon(c, reply)
      PROVE  TypeOK'
  BY <1>4, DeliverType DEF Abandon
<1>5. CASE GatewayFails(c)
  BY <1>4, <1>5, ReplyTypes DEF GatewayFails, Codes, Works
<1>6. CASE ConnectionFails(c)
  BY <1>4, <1>6, ReplyTypes DEF ConnectionFails
<1>7. CASE OrphanRuns(c)
  BY <1>7, PerformType DEF OrphanRuns
<1>. QED
  BY <1>1, <1>2, <1>3, <1>5, <1>6, <1>7 DEF ServerNext

(* The two ways a handler ends: the caller is told, or the call sleeps.    *)
LEMMA SettleType ==
    ASSUME TypeOK, NEW c \in Calls, NEW type \in {"ok", "error", "unavailable", "unknown"},
           Settle(c, type, inbox[c])
    PROVE  TypeOK'
<1>1. inbox[c] \in Replies
  BY DEF TypeOK, ServerTypeOK
<1>2. [type |-> type, vm |-> inbox[c].vm, code |-> inbox[c].code, work |-> inbox[c].work]
          \in Outcomes
  BY <1>1 DEF Replies, Outcomes
<1>. QED
  BY <1>2, ReplyTypes DEF Settle, TypeOK, ServerTypeOK

LEMMA BackOffType ==
    ASSUME TypeOK, NEW c \in Calls, NEW delay \in Nat, BackOff(c, delay)
    PROVE  TypeOK'
<1>1. Lesser(attempt[c] + 1, AttemptCap) \in 0 .. AttemptCap
  BY RetryAssumption DEF Lesser, TypeOK
<1>. QED
  BY <1>1, ReplyTypes DEF BackOff, TypeOK, ServerTypeOK

LEMMA ClientStepType ==
    ASSUME TypeOK, NEW c \in Calls, ClientNext(c)
    PROVE  TypeOK'
<1>1. CASE Start(c)
  <2>1. req[c].window \in Nat
    BY ServerAssumption DEF TypeOK, ServerTypeOK, RequestType
  <2>2. wire' \in [Calls -> SUBSET Transmissions] /\ inbox' \in [Calls -> Replies]
    BY <1>1, <2>1, TransmitType DEF Start
  <2>3. (IF Windowed(c) THEN req[c].window * TicksPerSec ELSE 0) \in Int
    BY <2>1, RetryAssumption
  <2>. QED
    BY <1>1, <2>2, <2>3 DEF Start, TypeOK, ServerTypeOK
<1>2. CASE OnPayload(c)
  BY <1>2, SettleType DEF OnPayload
<1>3. CASE OnError(c)
  BY <1>3, SettleType, BackOffType, DelayType DEF OnError
<1>4. CASE OnNetworkFailure(c)
  BY <1>4, SettleType, BackOffType, DelayType DEF OnNetworkFailure
<1>5. CASE Resend(c)
  <2>. DEFINE secs == IF Windowed(c) THEN RemainingSecs(left[c]) ELSE req[c].window
  <2>1. req[c].window \in Nat
    BY ServerAssumption DEF TypeOK, ServerTypeOK, RequestType
  <2>2. secs \in Nat
    BY <2>1, RemainingSecsType DEF TypeOK
  <2>3. Transmit(c, [key |-> req[c].key, secs |-> secs])
    BY <1>5 DEF Resend
  <2>4. wire' \in [Calls -> SUBSET Transmissions] /\ inbox' \in [Calls -> Replies]
    BY <2>2, <2>3, TransmitType
  <2>5. /\ pc' = [pc EXCEPT ![c] = "sent"]
        /\ sleep' = [sleep EXCEPT ![c] = 0]
        /\ UNCHANGED <<req, orphans, effects, ledger, attempt, left, outcome>>
    BY <1>5 DEF Resend
  <2>. HIDE DEF secs
  <2>. QED
    BY <2>4, <2>5 DEF TypeOK, ServerTypeOK
<1>. QED
  BY <1>1, <1>2, <1>3, <1>4, <1>5 DEF ClientNext, HandleReply

LEMMA TickType == TypeOK /\ Tick => TypeOK'
  BY RetryAssumption DEF Tick, TypeOK, ServerTypeOK, serverVars, Greater

LEMMA NextType == TypeOK /\ [Next]_vars => TypeOK'
<1>1. TypeOK /\ UNCHANGED vars => TypeOK'
  BY DEF TypeOK, ServerTypeOK, vars, serverVars, clientVars
<1>. QED
  BY <1>1, ClientStepType, ServerStepType, TickType DEF Next

(* Every variable keeps its type: counters stay within their caps, and     *)
(* every answer, request and outcome is of the shape the code gives it.    *)
THEOREM TypeCorrect == Spec => []TypeOK
  BY InitType, NextType, PTL DEF Spec

-----------------------------------------------------------------------------
(* At most once.                                                           *)

(* A request that may still take effect, of an operation not bound yet, is *)
(* the first of its operation to do so.                                    *)
LEMMA FirstEffect ==
    ASSUME TypeOK, SafetyInv, NEW c \in Calls, NEW tx \in wire[c] \cup orphans[c],
           req[c].kind = "write", Bound(tx.key) = {}
    PROVE  \A d \in Calls : SameOperation(c, d) => effects[d] = 0
<1>1. tx.key = req[c].key
  BY DEF SafetyInv, KeysInv
<1>2. CASE Keyed(c)
  <2>1. req[c].key \in Keys /\ ledger[req[c].key] = {}
    BY <1>1, <1>2, ServerAssumption
       DEF Keyed, Bound, TypeOK, ServerTypeOK, RequestType
  <2>2. TAKE d \in Calls
  <2>3. HAVE SameOperation(c, d)
  <2>4. req[d].key = req[c].key /\ Keyed(d)
    BY <1>2, <2>3 DEF SameOperation, Keyed
  <2>. QED
    BY <2>1, <2>4 DEF SafetyInv, LedgerInv, TypeOK, ServerTypeOK
<1>3. CASE ~Keyed(c)
  <2>1. effects[c] = 0
    BY <1>3 DEF SafetyInv, OneChanceInv, UnkeyedWrite
  <2>. QED
    BY <1>3, <2>1 DEF SameOperation
<1>. QED
  BY <1>2, <1>3

(* What performing a request of c changes, if it changes anything.         *)
LEMMA PerformEffect ==
    ASSUME TypeOK, SafetyInv, NEW c \in Calls, NEW tx \in wire[c] \cup orphans[c],
           Perform(c, tx)
    PROVE  \/ /\ UNCHANGED <<effects, ledger>>
              /\ req[c].kind = "read" \/ Bound(tx.key) # {}
           \/ /\ req[c].kind = "write"
              /\ Bound(tx.key) = {}
              /\ effects[c] = 0
              /\ effects' = [effects EXCEPT ![c] = 1]
              /\ IF Keyed(c)
                 THEN ledger' = [ledger EXCEPT ![req[c].key] = {[owner |-> c, secs |-> tx.secs]}]
                 ELSE ledger' = ledger
<1>1. CASE req[c].kind = "read" \/ Bound(tx.key) # {}
  BY <1>1 DEF Perform
<1>2. CASE ~(req[c].kind = "read" \/ Bound(tx.key) # {})
  <2>1. req[c].kind = "write"
    BY <1>2, ServerAssumption DEF TypeOK, ServerTypeOK, RequestType
  <2>2. effects[c] = 0
    BY <1>2, <2>1, FirstEffect DEF SameOperation
  <2>3. tx.key = req[c].key /\ (tx.key \in Keys <=> Keyed(c))
    BY ServerAssumption DEF SafetyInv, KeysInv, Keyed, TypeOK, ServerTypeOK, RequestType
  <2>. QED
    BY <1>2, <2>1, <2>2, <2>3 DEF Perform
<1>. QED
  BY <1>1, <1>2

(* A key, once bound, stays bound to the same request.                     *)
LEMMA BoundStable ==
    ASSUME TypeOK, SafetyInv, NEW c \in Calls, NEW tx \in wire[c] \cup orphans[c],
           Perform(c, tx), NEW k \in Keys, ledger[k] # {}
    PROVE  ledger'[k] = ledger[k]
<1>1. tx.key = req[c].key
  BY DEF SafetyInv, KeysInv
<1>. QED
  BY <1>1, PerformEffect DEF Bound, TypeOK, ServerTypeOK

LEMMA LedgerStep ==
    ASSUME TypeOK, SafetyInv, NEW c \in Calls, NEW tx \in wire[c] \cup orphans[c],
           Perform(c, tx), UNCHANGED req
    PROVE  LedgerInv'
<1>1. CASE UNCHANGED <<effects, ledger>>
  BY <1>1 DEF SafetyInv, LedgerInv, Keyed
<1>2. CASE /\ req[c].kind = "write" /\ effects[c] = 0
           /\ effects' = [effects EXCEPT ![c] = 1]
           /\ ~Keyed(c) /\ ledger' = ledger
  BY <1>2, ServerAssumption DEF SafetyInv, LedgerInv, Keyed, TypeOK, ServerTypeOK
<1>3. CASE /\ req[c].kind = "write" /\ Bound(tx.key) = {} /\ effects[c] = 0
           /\ effects' = [effects EXCEPT ![c] = 1]
           /\ Keyed(c)
           /\ ledger' = [ledger EXCEPT ![req[c].key] = {[owner |-> c, secs |-> tx.secs]}]
  <2>1. tx.key = req[c].key /\ req[c].key \in Keys /\ ledger[req[c].key] = {}
    BY <1>3, ServerAssumption
       DEF SafetyInv, KeysInv, Keyed, Bound, TypeOK, ServerTypeOK, RequestType
  <2>2. ledger'[req[c].key] = {[owner |-> c, secs |-> tx.secs]}
    BY <1>3, <2>1 DEF TypeOK, ServerTypeOK
  <2>3. \A k \in Keys : k # req[c].key => ledger'[k] = ledger[k]
    BY <1>3 DEF TypeOK, ServerTypeOK
  <2>4. \A d \in Calls : d # c => effects'[d] = effects[d]
    BY <1>3 DEF TypeOK, ServerTypeOK
  <2>5. effects'[c] = 1
    BY <1>3 DEF TypeOK, ServerTypeOK
  <2>6. \A k \in Keys : \A b, d \in ledger'[k] : b = d
    BY <2>2, <2>3 DEF SafetyInv, LedgerInv
  <2>7. \A k \in Keys : \A b \in ledger'[k] : req[b.owner].key = k /\ effects'[b.owner] = 1
    <3>1. TAKE k \in Keys
    <3>2. TAKE b \in ledger'[k]
    <3>3. CASE k = req[c].key
      BY <2>2, <2>5, <3>3
    <3>4. CASE k # req[c].key
      <4>1. b \in ledger[k] /\ b.owner \in Calls /\ b.owner # c
        BY <2>3, <3>4 DEF SafetyInv, LedgerInv, TypeOK, ServerTypeOK, Bindings
      <4>. QED
        BY <2>4, <4>1 DEF SafetyInv, LedgerInv
    <3>. QED
      BY <3>3, <3>4
  <2>8. ASSUME NEW d \in Calls, Keyed(d), effects'[d] > 0
        PROVE  \E b \in ledger'[req[d].key] : b.owner = d
    <3>1. req[d].key \in Keys
      BY <2>8, ServerAssumption DEF Keyed, TypeOK, ServerTypeOK, RequestType
    <3>2. CASE d = c
      <4>1. [owner |-> c, secs |-> tx.secs] \in ledger'[req[d].key]
        BY <2>2, <3>2
      <4>. QED
        BY <3>2, <4>1
    <3>3. CASE d # c
      <4>1. PICK b \in ledger[req[d].key] : b.owner = d
        BY <2>4, <2>8, <3>3 DEF SafetyInv, LedgerInv
      <4>. QED
        BY <2>1, <2>3, <3>1, <4>1
    <3>. QED
      BY <3>2, <3>3
  <2>9. \A d \in Calls : req[d].kind = "read" => effects'[d] = 0
    BY <1>3, <2>4 DEF SafetyInv, LedgerInv
  <2>. QED
    BY <2>6, <2>7, <2>8, <2>9 DEF LedgerInv, Keyed
<1>. QED
  BY <1>1, <1>2, <1>3, PerformEffect

(* The resource an operation made is not made again.                       *)
LEMMA MadeForStable ==
    ASSUME TypeOK, SafetyInv, NEW c \in Calls, NEW tx \in wire[c] \cup orphans[c],
           Perform(c, tx), UNCHANGED req, NEW d \in Calls, NEW vm, MadeFor(vm, d)
    PROVE  MadeFor(vm, d)'
<1>1. vm \in Calls /\ effects[vm] = 1
  BY DEF MadeFor
<1>2. effects'[vm] = 1
  BY <1>1, PerformEffect DEF TypeOK, ServerTypeOK
<1>3. CASE Keyed(d)
  <2>1. req[d].key \in Keys /\ ledger[req[d].key] # {}
    BY <1>3, ServerAssumption DEF MadeFor, Keyed, TypeOK, ServerTypeOK, RequestType
  <2>2. ledger'[req[d].key] = ledger[req[d].key]
    BY <2>1, BoundStable
  <2>. QED
    BY <1>1, <1>2, <1>3, <2>2 DEF MadeFor, Keyed
<1>4. CASE ~Keyed(d)
  BY <1>1, <1>2, <1>4 DEF MadeFor, Keyed
<1>. QED
  BY <1>3, <1>4

LEMMA BoundElsewhereStable ==
    ASSUME TypeOK, SafetyInv, NEW c \in Calls, NEW tx \in wire[c] \cup orphans[c],
           Perform(c, tx), UNCHANGED req, NEW d \in Calls, BoundElsewhere(d)
    PROVE  BoundElsewhere(d)'
<1>1. req[d].key \in Keys /\ ledger[req[d].key] # {}
  BY DEF BoundElsewhere, Bound
<1>2. ledger'[req[d].key] = ledger[req[d].key]
  BY <1>1, BoundStable
<1>. QED
  BY <1>1, <1>2 DEF BoundElsewhere, Bound, Windowed

(* A key bound by a call without a window is bound to its one body.        *)
LEMMA BodyStep ==
    ASSUME TypeOK, SafetyInv, NEW c \in Calls, NEW tx \in wire[c] \cup orphans[c],
           Perform(c, tx), UNCHANGED req
    PROVE  \A k \in Keys : \A b \in ledger'[k] :
               ~Windowed(b.owner) => b.secs = req[b.owner].window
<1>1. ~Windowed(c) => tx.secs = req[c].window
  BY DEF SafetyInv, BodyInv
<1>2. \A k \in Keys : ledger'[k] = ledger[k] \/ ledger'[k] = {[owner |-> c, secs |-> tx.secs]}
  BY PerformEffect DEF TypeOK, ServerTypeOK
<1>. QED
  BY <1>1, <1>2 DEF SafetyInv, BodyInv

(* The origin performs the request a call waits for, and answers it.       *)
LEMMA ServedStep ==
    ASSUME TypeOK, SafetyInv, NEW c \in Calls, NEW tx \in wire[c], NEW reply \in Replies,
           Perform(c, tx), Deliver(c, reply), UNCHANGED <<req, orphans>>,
           UNCHANGED clientVars,
           reply.work # "not_started",
           reply.type = "payload" /\ req[c].kind = "write" => MadeFor(reply.vm, c)',
           reply.code = "idempotency_conflict" /\ ~Windowed(c) => BoundElsewhere(c)
    PROVE  SafetyInv'
<1>1. /\ wire' = [wire EXCEPT ![c] = {}]
      /\ inbox' = [inbox EXCEPT ![c] = reply]
  BY DEF Deliver
<1>2. pc[c] = "sent" /\ outcome[c] = Pending
  BY DEF SafetyInv, WaitsInv, TypeOK
<1>3. WaitsInv'
  <2>1. \A d \in Calls : d # c => effects'[d] = effects[d]
    BY PerformEffect DEF TypeOK, ServerTypeOK
  <2>. QED
    BY <1>1, <1>2, <2>1 DEF SafetyInv, WaitsInv, TypeOK, ServerTypeOK, clientVars
<1>4. KeysInv'
  BY <1>1 DEF SafetyInv, KeysInv, TypeOK, ServerTypeOK
<1>5. LedgerInv'
  BY LedgerStep
<1>6. OneChanceInv'
  <2>1. ASSUME NEW d \in Calls, UnkeyedWrite(d), d # c
        PROVE  effects'[d] = effects[d] /\ wire'[d] = wire[d] /\ inbox'[d] = inbox[d]
    BY <1>1, <2>1, PerformEffect DEF TypeOK, ServerTypeOK
  <2>2. ASSUME UnkeyedWrite(c)
        PROVE  /\ effects'[c] \in {0, 1}
               /\ wire'[c] = {} /\ orphans'[c] = {}
               /\ inbox'[c].work # "not_started" /\ outcome'[c].work # "not_started"
    <3>1. orphans[c] = {} /\ effects[c] = 0
      BY <2>2 DEF SafetyInv, OneChanceInv
    <3>2. effects'[c] \in {0, 1}
      BY <3>1, PerformEffect DEF TypeOK, ServerTypeOK
    <3>. QED
      BY <1>1, <1>2, <3>1, <3>2 DEF TypeOK, ServerTypeOK, clientVars, Pending
  <2>. QED
    BY <1>2, <2>1, <2>2 DEF SafetyInv, OneChanceInv, UnkeyedWrite, Keyed, clientVars
<1>7. AnswerInv'
  <2>1. ASSUME NEW d \in Calls, req[d].kind = "write", inbox'[d].type = "payload"
        PROVE  MadeFor(inbox[d].vm, d)'
    <3>1. CASE d = c
      <4>1. inbox'[d] = reply
        BY <1>1, <3>1 DEF TypeOK, ServerTypeOK
      <4>. QED
        BY <2>1, <3>1, <4>1 DEF MadeFor, Keyed
    <3>2. CASE d # c
      <4>1. inbox'[d] = inbox[d]
        BY <1>1, <3>2 DEF TypeOK, ServerTypeOK
      <4>2. PICK vm : vm = inbox[d].vm
        OBVIOUS
      <4>3. MadeFor(vm, d)
        BY <2>1, <4>1, <4>2 DEF SafetyInv, AnswerInv
      <4>4. MadeFor(vm, d)'
        BY <4>3, MadeForStable
      <4>. QED
        BY <4>1, <4>2, <4>4 DEF MadeFor, Keyed
    <3>. QED
      BY <3>1, <3>2
  <2>2. ASSUME NEW d \in Calls, req[d].kind = "write", outcome[d].type = "ok"
        PROVE  MadeFor(outcome[d].vm, d)'
    <3>1. PICK vm : vm = outcome[d].vm
      OBVIOUS
    <3>2. MadeFor(vm, d)
      BY <2>2, <3>1 DEF SafetyInv, AnswerInv
    <3>3. MadeFor(vm, d)'
      BY <3>2, MadeForStable
    <3>. QED
      BY <3>1, <3>3 DEF MadeFor, Keyed, clientVars
  <2>. QED
    BY <2>1, <2>2 DEF AnswerInv, clientVars
<1>8. BodyInv'
  <2>1. ASSUME NEW d \in Calls, ~Windowed(d)
        PROVE  /\ \A t \in wire'[d] \cup orphans'[d] : t.secs = req[d].window
               /\ inbox'[d].code = "idempotency_conflict" => BoundElsewhere(d)'
               /\ outcome'[d].code = "idempotency_conflict" => BoundElsewhere(d)'
    <3>1. BoundElsewhere(d) => BoundElsewhere(d)'
      BY BoundElsewhereStable
    <3>2. inbox'[d] = IF d = c THEN reply ELSE inbox[d]
      BY <1>1 DEF TypeOK, ServerTypeOK
    <3>3. wire'[d] \subseteq wire[d] /\ orphans'[d] = orphans[d] /\ outcome'[d] = outcome[d]
      BY <1>1 DEF TypeOK, ServerTypeOK, clientVars
    <3>. QED
      BY <2>1, <3>1, <3>2, <3>3 DEF SafetyInv, BodyInv
  <2>. QED
    BY <2>1, BodyStep DEF BodyInv, Windowed
<1>. QED
  BY <1>3, <1>4, <1>5, <1>6, <1>7, <1>8 DEF SafetyInv

(* A step that makes nothing keeps what is known of resources and keys.    *)
LEMMA Framed ==
    ASSUME UNCHANGED <<req, effects, ledger>>, SafetyInv
    PROVE  /\ LedgerInv'
           /\ \A d \in Calls : \A vm : MadeFor(vm, d) => MadeFor(vm, d)'
           /\ \A d \in Calls : BoundElsewhere(d) => BoundElsewhere(d)'
  BY DEF SafetyInv, LedgerInv, MadeFor, BoundElsewhere, Bound, Windowed, Keyed

(* The request of a call is answered without being performed: refused, or  *)
(* lost on the way and from then on an orphan.                             *)
LEMMA UnservedStep ==
    ASSUME TypeOK, SafetyInv, NEW c \in Calls, NEW tx \in wire[c], NEW reply \in Replies,
           Deliver(c, reply), UNCHANGED <<req, effects, ledger>>, UNCHANGED clientVars,
           reply.type # "payload", reply.code # "idempotency_conflict",
           \/ orphans' = orphans
           \/ /\ orphans' = [orphans EXCEPT ![c] = @ \cup {tx}]
              /\ reply.work # "not_started"
    PROVE  SafetyInv'
<1>1. /\ wire' = [wire EXCEPT ![c] = {}]
      /\ inbox' = [inbox EXCEPT ![c] = reply]
  BY DEF Deliver
<1>2. pc[c] = "sent" /\ outcome[c] = Pending
  BY DEF SafetyInv, WaitsInv, TypeOK
<1>3. \A d \in Calls : d # c =>
          wire'[d] = wire[d] /\ inbox'[d] = inbox[d] /\ orphans'[d] = orphans[d]
  BY <1>1 DEF TypeOK, ServerTypeOK
<1>4. wire'[c] = {} /\ inbox'[c] = reply /\ orphans'[c] \in {orphans[c], orphans[c] \cup {tx}}
  BY <1>1 DEF TypeOK, ServerTypeOK
<1>5. WaitsInv'
  BY <1>2, <1>3, <1>4 DEF SafetyInv, WaitsInv, clientVars
<1>6. KeysInv'
  BY <1>3, <1>4 DEF SafetyInv, KeysInv
<1>7. OneChanceInv'
  <2>1. ASSUME UnkeyedWrite(c)
        PROVE  /\ effects[c] = 0 /\ orphans[c] = {}
               /\ orphans'[c] = {} \/ (orphans'[c] = {tx} /\ reply.work # "not_started")
    <3>1. effects[c] = 0 /\ orphans[c] = {}
      BY <2>1 DEF SafetyInv, OneChanceInv
    <3>. QED
      BY <3>1, <1>4 DEF TypeOK, ServerTypeOK
  <2>. QED
    BY <1>2, <1>3, <1>4, <2>1
       DEF SafetyInv, OneChanceInv, UnkeyedWrite, Keyed, clientVars, Pending
<1>8. AnswerInv'
  BY <1>3, <1>4 DEF SafetyInv, AnswerInv, MadeFor, Keyed, clientVars
<1>9. BodyInv'
  BY <1>3, <1>4
     DEF SafetyInv, BodyInv, BoundElsewhere, Bound, Windowed, clientVars
<1>. QED
  BY <1>5, <1>6, <1>7, <1>8, <1>9, Framed DEF SafetyInv

(* The origin performs a request nobody waits for.                         *)
LEMMA OrphanStep ==
    ASSUME TypeOK, SafetyInv, NEW c \in Calls, OrphanRuns(c), UNCHANGED clientVars
    PROVE  SafetyInv'
<1>1. PICK tx \in orphans[c] :
          /\ Perform(c, tx)
          /\ orphans' = [orphans EXCEPT ![c] = @ \ {tx}]
          /\ UNCHANGED <<req, wire, inbox>>
  BY DEF OrphanRuns
<1>2. \A d \in Calls : orphans'[d] \subseteq orphans[d]
  BY <1>1 DEF TypeOK, ServerTypeOK
<1>3. \A d \in Calls : d # c => effects'[d] = effects[d] /\ orphans'[d] = orphans[d]
  BY <1>1, PerformEffect DEF TypeOK, ServerTypeOK
<1>4. pc[c] # "idle"
  BY <1>1 DEF SafetyInv, WaitsInv
<1>5. WaitsInv'
  BY <1>1, <1>3, <1>4 DEF SafetyInv, WaitsInv, clientVars
<1>6. KeysInv'
  BY <1>1, <1>2 DEF SafetyInv, KeysInv
<1>7. LedgerInv'
  BY <1>1, LedgerStep
<1>8. OneChanceInv'
  <2>1. ASSUME UnkeyedWrite(c)
        PROVE  /\ effects'[c] \in {0, 1} /\ orphans'[c] = {} /\ wire[c] = {}
               /\ inbox[c].work # "not_started" /\ outcome[c].work # "not_started"
               /\ pc[c] # "backoff"
    <3>1. /\ effects[c] = 0 /\ wire[c] = {} /\ \A t \in orphans[c] : t = tx
          /\ inbox[c].work # "not_started" /\ outcome[c].work # "not_started"
          /\ pc[c] # "backoff"
      BY <1>1, <2>1 DEF SafetyInv, OneChanceInv
    <3>2. effects'[c] \in {0, 1}
      BY <1>1, <3>1, PerformEffect DEF TypeOK, ServerTypeOK
    <3>3. orphans'[c] = {}
      BY <1>1, <3>1 DEF TypeOK, ServerTypeOK
    <3>. QED
      BY <3>1, <3>2, <3>3
  <2>. QED
    BY <1>1, <1>3, <2>1 DEF SafetyInv, OneChanceInv, UnkeyedWrite, Keyed, clientVars
<1>9. AnswerInv'
  <2>1. \A d \in Calls : \A vm : MadeFor(vm, d) => MadeFor(vm, d)'
    BY <1>1, MadeForStable
  <2>. QED
    BY <1>1, <2>1 DEF SafetyInv, AnswerInv, MadeFor, Keyed, clientVars
<1>10. BodyInv'
  <2>1. ASSUME NEW d \in Calls, ~Windowed(d)
        PROVE  /\ \A t \in wire'[d] \cup orphans'[d] : t.secs = req[d].window
               /\ inbox'[d].code = "idempotency_conflict" => BoundElsewhere(d)'
               /\ outcome'[d].code = "idempotency_conflict" => BoundElsewhere(d)'
    <3>1. BoundElsewhere(d) => BoundElsewhere(d)'
      BY <1>1, BoundElsewhereStable
    <3>. QED
      BY <1>1, <1>2, <2>1, <3>1 DEF SafetyInv, BodyInv, clientVars
  <2>. QED
    BY <1>1, <2>1, BodyStep DEF BodyInv, Windowed
<1>. QED
  BY <1>5, <1>6, <1>7, <1>8, <1>9, <1>10 DEF SafetyInv

LEMMA ServeStep ==
    ASSUME TypeOK, SafetyInv, NEW c \in Calls, Serve(c), UNCHANGED clientVars
    PROVE  SafetyInv'
<1>1. PICK tx \in wire[c] : \E answer \in Answers(c, tx) :
          Perform(c, tx) /\ Deliver(c, answer) /\ UNCHANGED <<req, orphans>>
  BY DEF Serve
<1>2. PICK reply \in Answers(c, tx) :
          Perform(c, tx) /\ Deliver(c, reply) /\ UNCHANGED <<req, orphans>>
  BY <1>1
<1>3. tx \in Transmissions /\ tx.key = req[c].key
  BY <1>1 DEF TypeOK, ServerTypeOK, SafetyInv, KeysInv
<1>4. reply \in Replies
  BY <1>2, <1>3, AnswersType
<1>5. CASE Bound(tx.key) = {}
  <2>1. reply = Payload(c)
    BY <1>2, <1>5 DEF Answers
  <2>2. ASSUME req[c].kind = "write"
        PROVE  MadeFor(c, c)'
    <3>1. /\ effects' = [effects EXCEPT ![c] = 1]
          /\ Keyed(c) =>
                 ledger' = [ledger EXCEPT ![req[c].key] = {[owner |-> c, secs |-> tx.secs]}]
      BY <1>2, <1>5, <2>2, PerformEffect
    <3>2. effects'[c] = 1
      BY <3>1 DEF TypeOK, ServerTypeOK
    <3>3. ASSUME Keyed(c)
          PROVE  [owner |-> c, secs |-> tx.secs] \in ledger'[req[c].key]
      <4>1. req[c].key \in Keys
        BY <3>3, ServerAssumption DEF Keyed, TypeOK, ServerTypeOK, RequestType
      <4>. QED
        BY <3>1, <3>3, <4>1 DEF TypeOK, ServerTypeOK
    <3>4. Keyed(c) => \E b \in ledger'[req[c].key] : b.owner = c
      BY <3>3
    <3>. QED
      BY <1>2, <3>2, <3>4 DEF MadeFor, Keyed
  <2>. QED
    BY <1>2, <1>4, <2>1, <2>2, ServedStep DEF Payload
<1>6. CASE Bound(tx.key) # {}
  <2>1. PICK b \in Bound(tx.key) :
            reply = IF b.secs = tx.secs THEN Payload(b.owner)
                    ELSE Error("idempotency_conflict", "absent", NoHint)
    BY <1>2, <1>6 DEF Answers
  <2>2. tx.key \in Keys /\ b \in ledger[tx.key] /\ Keyed(c)
    BY <1>3, <2>1, ServerAssumption DEF Bound, Keyed
  <2>3. b.owner \in Calls /\ effects[b.owner] = 1
    BY <2>2 DEF SafetyInv, LedgerInv, TypeOK, ServerTypeOK, Bindings
  <2>4. MadeFor(b.owner, c)
    BY <1>3, <2>2, <2>3 DEF MadeFor
  <2>5. MadeFor(b.owner, c)'
    BY <1>2, <2>4, MadeForStable
  <2>6. ASSUME ~Windowed(c), b.secs # tx.secs
        PROVE  BoundElsewhere(c)
    <3>1. tx.secs = req[c].window
      BY <1>1, <2>6 DEF SafetyInv, BodyInv
    <3>2. ~Windowed(b.owner) => b.secs = req[b.owner].window
      BY <2>2 DEF SafetyInv, BodyInv
    <3>3. \A d \in Bound(req[c].key) : d = b
      BY <1>3, <2>1, <2>2 DEF Bound, SafetyInv, LedgerInv
    <3>. QED
      BY <1>3, <1>6, <2>6, <3>1, <3>2, <3>3 DEF BoundElsewhere
  <2>7. CASE b.secs = tx.secs
    BY <1>2, <1>4, <2>1, <2>5, <2>7, ServedStep DEF Payload
  <2>8. CASE b.secs # tx.secs
    BY <1>2, <1>4, <2>1, <2>6, <2>8, ServedStep DEF Error
  <2>. QED
    BY <2>7, <2>8
<1>. QED
  BY <1>5, <1>6

LEMMA ServerStepSafe ==
    ASSUME TypeOK, SafetyInv, NEW c \in Calls, ServerNext(c), UNCHANGED clientVars
    PROVE  SafetyInv'
<1>1. CASE Serve(c)
  BY <1>1, ServeStep
<1>2. CASE FailAfterStart(c)
  <2>1. PICK tx \in wire[c], code \in {"transient", "other"}, work \in {"stopped", "continuing"} :
             Perform(c, tx) /\ Deliver(c, Error(code, work, NoHint)) /\ UNCHANGED <<req, orphans>>
    BY <1>2 DEF FailAfterStart
  <2>2. Error(code, work, NoHint) \in Replies
    BY ReplyTypes DEF Codes, Works
  <2>. QED
    BY <2>1, <2>2, ServedStep DEF Error
<1>3. CASE Refuse(c)
  <2>1. PICK tx \in wire[c], code \in {"transient", "quota_exceeded", "other"},
             work \in {"absent", "not_started"}, hint \in Hints \cup {NoHint} :
             Deliver(c, Error(code, work, hint)) /\ UNCHANGED <<req, orphans, effects, ledger>>
    BY <1>3 DEF Refuse
  <2>2. Error(code, work, hint) \in Replies
    BY ReplyTypes DEF Codes, Works
  <2>. QED
    BY <2>1, <2>2, UnservedStep DEF Error
<1>4. CASE GatewayFails(c)
  <2>1. PICK tx \in wire[c], work \in {"absent", "unknown"} :
             /\ orphans' = [orphans EXCEPT ![c] = @ \cup {tx}]
             /\ Deliver(c, Error("transient", work, NoHint))
             /\ UNCHANGED <<req, effects, ledger>>
    BY <1>4 DEF GatewayFails, Abandon
  <2>2. Error("transient", work, NoHint) \in Replies
    BY ReplyTypes DEF Codes, Works
  <2>. QED
    BY <2>1, <2>2, UnservedStep DEF Error
<1>5. CASE ConnectionFails(c)
  BY <1>5, ReplyTypes, UnservedStep DEF ConnectionFails, Abandon, NetworkFailure, Payload
<1>6. CASE OrphanRuns(c)
  BY <1>6, OrphanStep
<1>. QED
  BY <1>1, <1>2, <1>3, <1>4, <1>5, <1>6 DEF ServerNext

(* A call sends its request, the first or a replay.                        *)
LEMMA TransmitStep ==
    ASSUME TypeOK, SafetyInv, NEW c \in Calls, NEW secs \in Nat,
           pc[c] \in {"idle", "backoff"}, pc' = [pc EXCEPT ![c] = "sent"],
           Transmit(c, [key |-> req[c].key, secs |-> secs]),
           ~Windowed(c) => secs = req[c].window,
           UNCHANGED <<req, orphans, effects, ledger, outcome>>
    PROVE  SafetyInv'
<1>1. /\ wire' = [wire EXCEPT ![c] = {[key |-> req[c].key, secs |-> secs]}]
      /\ inbox' = [inbox EXCEPT ![c] = NoReply]
  BY DEF Transmit
<1>2. outcome[c] = Pending
  BY DEF SafetyInv, WaitsInv
<1>3. \A d \in Calls : d # c => wire'[d] = wire[d] /\ inbox'[d] = inbox[d] /\ pc'[d] = pc[d]
  BY <1>1 DEF TypeOK, ServerTypeOK
<1>4. wire'[c] = {[key |-> req[c].key, secs |-> secs]} /\ inbox'[c] = NoReply /\ pc'[c] = "sent"
  BY <1>1 DEF TypeOK, ServerTypeOK
<1>5. NoReply.type = "none" /\ NoReply.work = "absent" /\ NoReply.code = "none"
  BY DEF NoReply, Payload
<1>6. WaitsInv'
  BY <1>2, <1>3, <1>4, <1>5 DEF SafetyInv, WaitsInv
<1>7. KeysInv'
  BY <1>3, <1>4 DEF SafetyInv, KeysInv
<1>8. OneChanceInv'
  <2>1. UnkeyedWrite(c) => effects[c] = 0 /\ orphans[c] = {}
    BY DEF SafetyInv, WaitsInv, OneChanceInv
  <2>. QED
    BY <1>2, <1>3, <1>4, <1>5, <2>1 DEF SafetyInv, OneChanceInv, UnkeyedWrite, Keyed, Pending
<1>9. AnswerInv'
  BY <1>3, <1>4, <1>5 DEF SafetyInv, AnswerInv, MadeFor, Keyed
<1>10. BodyInv'
  BY <1>3, <1>4, <1>5 DEF SafetyInv, BodyInv, BoundElsewhere, Bound, Windowed
<1>. QED
  BY <1>6, <1>7, <1>8, <1>9, <1>10, Framed DEF SafetyInv

(* The caller is told the answer.                                          *)
LEMMA SettleStep ==
    ASSUME TypeOK, SafetyInv, NEW c \in Calls, pc[c] = "sent", inbox[c].type # "none",
           NEW type \in {"ok", "error", "unavailable", "unknown"},
           type = "ok" => inbox[c].type = "payload",
           Settle(c, type, inbox[c])
    PROVE  SafetyInv'
<1>1. /\ \A d \in Calls : d # c =>
             inbox'[d] = inbox[d] /\ outcome'[d] = outcome[d] /\ pc'[d] = pc[d]
      /\ UNCHANGED <<req, wire, orphans, effects, ledger>>
  BY DEF Settle, TypeOK, ServerTypeOK
<1>2. /\ inbox'[c] = NoReply /\ pc'[c] = "settled"
      /\ outcome'[c] = [type |-> type, vm |-> inbox[c].vm,
                        code |-> inbox[c].code, work |-> inbox[c].work]
  BY DEF Settle, TypeOK, ServerTypeOK
<1>3. wire[c] = {}
  BY DEF SafetyInv, WaitsInv
<1>4. NoReply.type = "none" /\ NoReply.work = "absent" /\ NoReply.code = "none"
  BY DEF NoReply, Payload
<1>5. WaitsInv'
  BY <1>1, <1>2, <1>3, <1>4 DEF SafetyInv, WaitsInv
<1>6. KeysInv'
  BY <1>1 DEF SafetyInv, KeysInv
<1>7. OneChanceInv'
  BY <1>1, <1>2, <1>4 DEF SafetyInv, OneChanceInv, UnkeyedWrite, Keyed
<1>8. AnswerInv'
  BY <1>1, <1>2, <1>4 DEF SafetyInv, AnswerInv, MadeFor, Keyed
<1>9. BodyInv'
  BY <1>1, <1>2, <1>4 DEF SafetyInv, BodyInv, BoundElsewhere, Bound, Windowed
<1>. QED
  BY <1>1, <1>5, <1>6, <1>7, <1>8, <1>9, Framed DEF SafetyInv

(* The call sleeps before a replay: if it is an unkeyed write, only after  *)
(* an answer that says nothing was started.                                *)
LEMMA BackOffStep ==
    ASSUME TypeOK, SafetyInv, NEW c \in Calls, NEW delay \in Nat,
           pc[c] = "sent", inbox[c].type # "none",
           UnkeyedWrite(c) => inbox[c].work = "not_started",
           BackOff(c, delay)
    PROVE  SafetyInv'
<1>1. /\ \A d \in Calls : d # c => inbox'[d] = inbox[d] /\ pc'[d] = pc[d]
      /\ UNCHANGED <<req, wire, orphans, effects, ledger, outcome>>
  BY DEF BackOff, TypeOK, ServerTypeOK
<1>2. inbox'[c] = NoReply /\ pc'[c] = "backoff"
  BY DEF BackOff, TypeOK, ServerTypeOK
<1>3. wire[c] = {}
  BY DEF SafetyInv, WaitsInv
<1>4. NoReply.type = "none" /\ NoReply.work = "absent" /\ NoReply.code = "none"
  BY DEF NoReply, Payload
<1>5. WaitsInv'
  BY <1>1, <1>2, <1>3, <1>4 DEF SafetyInv, WaitsInv
<1>6. KeysInv'
  BY <1>1 DEF SafetyInv, KeysInv
<1>7. OneChanceInv'
  BY <1>1, <1>2, <1>4 DEF SafetyInv, OneChanceInv, UnkeyedWrite, Keyed
<1>8. AnswerInv'
  BY <1>1, <1>2, <1>4 DEF SafetyInv, AnswerInv, MadeFor, Keyed
<1>9. BodyInv'
  BY <1>1, <1>2, <1>4 DEF SafetyInv, BodyInv, BoundElsewhere, Bound, Windowed
<1>. QED
  BY <1>1, <1>5, <1>6, <1>7, <1>8, <1>9, Framed DEF SafetyInv

LEMMA ClientStepSafe ==
    ASSUME TypeOK, SafetyInv, NEW c \in Calls, ClientNext(c)
    PROVE  SafetyInv'
<1>1. CASE Start(c)
  <2>1. req[c].window \in Nat
    BY ServerAssumption DEF TypeOK, ServerTypeOK, RequestType
  <2>. QED
    BY <1>1, <2>1, TransmitStep DEF Start
<1>2. CASE OnPayload(c)
  BY <1>2, SettleStep DEF OnPayload
<1>3. CASE OnError(c)
  <2>1. PICK delay \in retryDelay(attempt[c], inbox[c].hint) :
            IF /\ isRetryable(inbox[c], RetryNetworkFailures(c) \/ Keyed(c))
               /\ canRetryAgain(c, delay)
            THEN BackOff(c, delay)
            ELSE Settle(c, "error", inbox[c])
    BY <1>3 DEF OnError
  <2>2. delay \in Nat
    BY DelayType
  <2>3. isRetryable(inbox[c], RetryNetworkFailures(c) \/ Keyed(c)) /\ UnkeyedWrite(c)
            => inbox[c].work = "not_started"
    BY DEF isRetryable, UnkeyedWrite, RetryNetworkFailures
  <2>. QED
    BY <1>3, <2>1, <2>2, <2>3, BackOffStep, SettleStep DEF OnError
<1>4. CASE OnNetworkFailure(c)
  <2>1. CASE ~RetryNetworkFailures(c)
    BY <1>4, <2>1, SettleStep DEF OnNetworkFailure
  <2>2. CASE RetryNetworkFailures(c)
    <3>1. ~UnkeyedWrite(c)
      BY <2>2 DEF UnkeyedWrite, RetryNetworkFailures
    <3>. QED
      BY <1>4, <2>2, <3>1, BackOffStep, SettleStep, DelayType DEF OnNetworkFailure
  <2>. QED
    BY <2>1, <2>2
<1>5. CASE Resend(c)
  <2>. DEFINE secs == IF Windowed(c) THEN RemainingSecs(left[c]) ELSE req[c].window
  <2>1. req[c].window \in Nat
    BY ServerAssumption DEF TypeOK, ServerTypeOK, RequestType
  <2>2. secs \in Nat /\ (~Windowed(c) => secs = req[c].window)
    BY <2>1, RemainingSecsType DEF TypeOK
  <2>3. /\ pc[c] = "backoff" /\ pc' = [pc EXCEPT ![c] = "sent"]
        /\ Transmit(c, [key |-> req[c].key, secs |-> secs])
        /\ UNCHANGED <<req, orphans, effects, ledger, outcome>>
    BY <1>5 DEF Resend
  <2>. HIDE DEF secs
  <2>. QED
    BY <2>2, <2>3, TransmitStep
<1>. QED
  BY <1>1, <1>2, <1>3, <1>4, <1>5 DEF ClientNext, HandleReply

(* Steps that touch nothing the invariant speaks of.                       *)
LEMMA QuietStep ==
    ASSUME SafetyInv, UNCHANGED <<serverVars, pc, outcome>>
    PROVE  SafetyInv'
  BY DEF SafetyInv, WaitsInv, KeysInv, LedgerInv, OneChanceInv, UnkeyedWrite, AnswerInv,
         MadeFor, BodyInv, BoundElsewhere, Bound, Windowed, Keyed, serverVars

LEMMA NextSafe == TypeOK /\ SafetyInv /\ [Next]_vars => SafetyInv'
  BY ClientStepSafe, ServerStepSafe, QuietStep DEF Next, Tick, vars, clientVars

LEMMA InitSafe == Init => SafetyInv
<1>. SUFFICES ASSUME Init PROVE SafetyInv
  OBVIOUS
<1>1. NoReply.type = "none" /\ NoReply.work = "absent" /\ NoReply.code = "none"
  BY DEF NoReply, Payload
<1>. QED
  BY <1>1 DEF Init, ServerInit, SafetyInv, WaitsInv, KeysInv, LedgerInv, OneChanceInv,
              UnkeyedWrite, AnswerInv, BodyInv, Pending, Keyed

(* The strengthening of the safety properties is an invariant.             *)
THEOREM Inductive == Spec => [](TypeOK /\ SafetyInv)
<1>1. Init => TypeOK /\ SafetyInv
  BY InitType, InitSafe
<1>2. TypeOK /\ SafetyInv /\ [Next]_vars => (TypeOK /\ SafetyInv)'
  BY NextType, NextSafe
<1>. QED
  BY <1>1, <1>2, PTL DEF Spec

-----------------------------------------------------------------------------
(* The properties the runs check, for any calls, keys and budgets.         *)

(* One operation creates at most one resource, however its requests are    *)
(* replayed, delayed or orphaned: requestJson replays an unkeyed write     *)
(* only after "not_started" and binds a key to every replay.               *)
THEOREM OneEffect == Spec => []AtMostOneEffect
<1>1. TypeOK /\ SafetyInv => AtMostOneEffect
  <2>. SUFFICES ASSUME TypeOK, SafetyInv, NEW c \in Calls, NEW d \in Calls,
                       effects[c] > 0, SameOperation(c, d)
                PROVE  effects[c] = 1 /\ (d = c \/ effects[d] = 0)
    BY DEF AtMostOneEffect
  <2>2. effects[c] \in Nat /\ effects[d] \in Nat /\ req[c].kind \in {"read", "write"}
    BY ServerAssumption DEF TypeOK, ServerTypeOK, RequestType
  <2>3. CASE Keyed(c)
    <3>1. req[c].key \in Keys /\ req[d].key = req[c].key /\ Keyed(d)
      BY <2>3, ServerAssumption
         DEF SameOperation, Keyed, TypeOK, ServerTypeOK, RequestType
    <3>2. PICK b \in ledger[req[c].key] : b.owner = c
      BY <2>3 DEF SafetyInv, LedgerInv
    <3>3. effects[c] = 1
      BY <3>1, <3>2 DEF SafetyInv, LedgerInv
    <3>4. ASSUME effects[d] > 0
          PROVE  d = c
      <4>1. PICK e \in ledger[req[c].key] : e.owner = d
        BY <3>1, <3>4 DEF SafetyInv, LedgerInv
      <4>. QED
        BY <3>1, <3>2, <4>1 DEF SafetyInv, LedgerInv
    <3>. QED
      BY <2>2, <3>3, <3>4
  <2>4. CASE ~Keyed(c)
    <3>1. d = c
      BY <2>4 DEF SameOperation
    <3>2. req[c].kind = "write"
      BY <2>2 DEF SafetyInv, LedgerInv
    <3>3. effects[c] <= 1
      BY <2>4, <3>2 DEF SafetyInv, OneChanceInv, UnkeyedWrite
    <3>. QED
      BY <2>2, <3>1, <3>3
  <2>. QED
    BY <2>3, <2>4
<1>. QED
  BY <1>1, Inductive, PTL

(* An unkeyed write whose caller is told "not_started" did nothing and     *)
(* never will.                                                             *)
THEOREM FinalRefusal == Spec => []RefusalIsFinal
<1>1. SafetyInv => RefusalIsFinal
  BY DEF SafetyInv, OneChanceInv, UnkeyedWrite, RefusalIsFinal
<1>. QED
  BY <1>1, Inductive, PTL

(* Nothing an unkeyed write sent can still take effect while it sleeps     *)
(* before a replay.                                                        *)
THEOREM SafeReplay == Spec => []SafeToReplay
<1>1. SafetyInv => SafeToReplay
  BY DEF SafetyInv, OneChanceInv, UnkeyedWrite, SafeToReplay
<1>. QED
  BY <1>1, Inductive, PTL

(* A write that succeeds returns a resource of its own operation, and the  *)
(* calls that succeed under one key return the same one.                   *)
THEOREM SharedSuccess == Spec => []SuccessIsShared
<1>1. TypeOK /\ SafetyInv => SuccessIsShared
  <2>. SUFFICES ASSUME TypeOK, SafetyInv, NEW c \in Calls, NEW d \in Calls,
                        outcome[c].type = "ok", req[c].kind = "write"
                 PROVE  /\ effects[outcome[c].vm] = 1
                        /\ SameOperation(c, outcome[c].vm)
                        /\ outcome[d].type = "ok" /\ SameOperation(c, d)
                               => outcome[d].vm = outcome[c].vm
    BY DEF SuccessIsShared
  <2>2. MadeFor(outcome[c].vm, c)
    BY DEF SafetyInv, AnswerInv
  <2>3. SameOperation(c, outcome[c].vm)
    <3>1. Keyed(c) => req[c].key \in Keys
      BY ServerAssumption DEF Keyed, TypeOK, ServerTypeOK, RequestType
    <3>. QED
      BY <2>2, <3>1 DEF MadeFor, SameOperation, SafetyInv, LedgerInv
  <2>4. ASSUME outcome[d].type = "ok", SameOperation(c, d), d # c
        PROVE  outcome[d].vm = outcome[c].vm
    <3>1. req[d].key = req[c].key /\ Keyed(c) /\ Keyed(d) /\ req[c].key \in Keys
      BY <2>4, ServerAssumption
         DEF SameOperation, Keyed, TypeOK, ServerTypeOK, RequestType
    <3>2. req[d].kind = "write"
      BY <3>1, ServerAssumption DEF Keyed, TypeOK, ServerTypeOK, RequestType
    <3>3. MadeFor(outcome[d].vm, d)
      BY <2>4, <3>2 DEF SafetyInv, AnswerInv
    <3>. QED
      BY <2>2, <3>1, <3>3 DEF MadeFor, SafetyInv, LedgerInv
  <2>. QED
    BY <2>2, <2>3, <2>4 DEF MadeFor
<1>. QED
  BY <1>1, Inductive, PTL

(* A call without a queueing window never conflicts with itself.           *)
THEOREM ForeignConflict == Spec => []ConflictIsForeign
<1>1. SafetyInv => ConflictIsForeign
  BY DEF SafetyInv, BodyInv, BoundElsewhere, ConflictIsForeign
<1>. QED
  BY <1>1, Inductive, PTL

-----------------------------------------------------------------------------
(* Budgets.                                                                *)

LEMMA InitBudget == Init => BudgetInv
  BY ServerAssumption, RetryAssumption
     DEF Init, ServerInit, BudgetInv, AttemptsAreKept, RequestType, Windowed

LEMMA BackOffBudget ==
    ASSUME TypeOK, BudgetInv, NEW c \in Calls, NEW delay \in Nat,
           canRetryAgain(c, delay), BackOff(c, delay)
    PROVE  BudgetInv'
<1>1. UNCHANGED <<req, left>>
  BY DEF BackOff
<1>2. \A d \in Calls : Windowed(d)' = Windowed(d)
  BY <1>1 DEF Windowed
<1>3. \A d \in Calls : d # c =>
          pc'[d] = pc[d] /\ sleep'[d] = sleep[d] /\ attempt'[d] = attempt[d]
  BY DEF BackOff, TypeOK
<1>4. sleep'[c] = delay /\ attempt'[c] = Lesser(attempt[c] + 1, AttemptCap)
  BY DEF BackOff, TypeOK
<1>5. ~Windowed(c) => attempt'[c] < req[c].attempts
  <2>1. req[c].attempts \in Nat /\ attempt[c] \in Nat
    BY ServerAssumption DEF TypeOK, ServerTypeOK, RequestType
  <2>. QED
    BY <1>4, <2>1, RetryAssumption DEF canRetryAgain, Lesser
<1>6. sleep'[c] >= -Lateness /\ (Windowed(c) => sleep'[c] < left[c])
  BY <1>4, RetryAssumption DEF canRetryAgain
<1>. QED
  BY <1>1, <1>2, <1>3, <1>5, <1>6 DEF BudgetInv, AttemptsAreKept

LEMMA TickBudget == TypeOK /\ BudgetInv /\ Tick => BudgetInv'
<1>. SUFFICES ASSUME TypeOK, BudgetInv, Tick PROVE BudgetInv'
  OBVIOUS
<1>1. \A d \in Calls : Windowed(d)' = Windowed(d)
  BY DEF Tick, serverVars, Windowed
<1>2. AttemptsAreKept'
  BY <1>1 DEF Tick, serverVars, BudgetInv, AttemptsAreKept
<1>3. ASSUME NEW c \in Calls, pc'[c] = "backoff"
      PROVE  sleep'[c] >= -Lateness /\ (Windowed(c) => sleep'[c] < left'[c])
  <2>1. pc[c] = "backoff" /\ sleep[c] > -Lateness /\ (Windowed(c) => sleep[c] < left[c])
    BY <1>3 DEF Tick, BudgetInv
  <2>2. sleep'[c] = sleep[c] - 1
    BY <2>1 DEF Tick
  <2>3. Windowed(c) => left'[c] = Greater(left[c] - 1, -Lateness - 1)
    BY <2>1 DEF Tick
  <2>. QED
    BY <2>1, <2>2, <2>3, RetryAssumption DEF Greater, TypeOK
<1>. QED
  BY <1>1, <1>2, <1>3 DEF BudgetInv

LEMMA NextBudget == TypeOK /\ BudgetInv /\ [Next]_vars => BudgetInv'
<1>. SUFFICES ASSUME TypeOK, BudgetInv, [Next]_vars PROVE BudgetInv'
  OBVIOUS
<1>1. ASSUME UNCHANGED <<req, attempt, left, sleep>>,
             \A c \in Calls : pc'[c] = "backoff" => pc[c] = "backoff"
      PROVE  BudgetInv'
  BY <1>1 DEF BudgetInv, AttemptsAreKept, Windowed
<1>2. ASSUME NEW c \in Calls, Start(c) \/ Resend(c)
      PROVE  BudgetInv'
  <2>1. UNCHANGED <<req, attempt>> /\ pc'[c] = "sent"
    BY <1>2 DEF Start, Resend, TypeOK
  <2>2. \A d \in Calls : d # c =>
            pc'[d] = pc[d] /\ left'[d] = left[d] /\ sleep'[d] = sleep[d]
    BY <1>2 DEF Start, Resend, TypeOK
  <2>. QED
    BY <2>1, <2>2 DEF BudgetInv, AttemptsAreKept, Windowed
<1>3. ASSUME NEW c \in Calls, NEW type, NEW reply, Settle(c, type, reply)
      PROVE  BudgetInv'
  BY <1>1, <1>3 DEF Settle, TypeOK
<1>4. ASSUME NEW c \in Calls, HandleReply(c)
      PROVE  BudgetInv'
  BY <1>3, <1>4, BackOffBudget, DelayType
     DEF HandleReply, OnPayload, OnError, OnNetworkFailure
<1>5. ASSUME NEW c \in Calls, ServerNext(c), UNCHANGED clientVars
      PROVE  BudgetInv'
  <2>1. UNCHANGED req
    BY <1>5 DEF ServerNext, Serve, FailAfterStart, Refuse, GatewayFails, ConnectionFails,
                Abandon, OrphanRuns
  <2>. QED
    BY <1>1, <1>5, <2>1 DEF clientVars
<1>6. CASE UNCHANGED vars
  BY <1>1, <1>6 DEF vars, serverVars, clientVars
<1>. QED
  BY <1>2, <1>4, <1>5, <1>6, TickBudget DEF Next, ClientNext

(* What is left of the budgets is an invariant.                            *)
THEOREM BudgetCorrect == Spec => [](TypeOK /\ BudgetInv)
<1>1. Init => TypeOK /\ BudgetInv
  BY InitType, InitBudget
<1>2. TypeOK /\ BudgetInv /\ [Next]_vars => (TypeOK /\ BudgetInv)'
  BY NextType, NextBudget
<1>. QED
  BY <1>1, <1>2, PTL DEF Spec

(* Without a window a call sends at most its number of attempts.           *)
THEOREM AttemptsKept == Spec => []AttemptsAreKept
<1>1. BudgetInv => AttemptsAreKept
  BY DEF BudgetInv
<1>. QED
  BY <1>1, BudgetCorrect, PTL

(* The remaining window is rounded up to whole seconds: by less than one.  *)
LEMMA RoundedUp ==
    ASSUME NEW ticks \in Int, ticks > -Lateness
    PROVE  RemainingSecs(ticks) * TicksPerSec < ticks + TicksPerSec + Lateness
<1>. DEFINE q == (-ticks) \div TicksPerSec
<1>1. TicksPerSec \in Nat /\ TicksPerSec > 0 /\ Lateness \in Nat
  BY RetryAssumption
<1>2. q \in Int
  BY <1>1
<1>3. -ticks < (q + 1) * TicksPerSec
  BY <1>1, Z3
<1>4. (-q) * TicksPerSec < ticks + TicksPerSec
  BY <1>1, <1>2, <1>3
<1>5. RemainingSecs(ticks) = 1 \/ RemainingSecs(ticks) = -q
  BY DEF RemainingSecs, Greater
<1>. QED
  BY <1>1, <1>2, <1>4, <1>5

(* A replay of a call with a queueing window leaves at most Lateness after *)
(* the window closed and never asks the server to hold it for longer than  *)
(* the rest of the window, rounded up: canRetryAgain counts the sleep.     *)
THEOREM WindowKept == Spec => WindowIsKept
<1>1. ASSUME TypeOK, BudgetInv, Next
      PROVE  \A c \in Calls : ReplayFits(c)
  <2>. SUFFICES ASSUME NEW c \in Calls, pc[c] = "backoff", pc'[c] = "sent", Windowed(c)
                PROVE  /\ left[c] > -Lateness
                       /\ \A tx \in wire'[c] :
                              tx.secs * TicksPerSec < left[c] + TicksPerSec + Lateness
    BY DEF ReplayFits
  <2>1. left[c] > -Lateness
    BY <1>1, RetryAssumption DEF BudgetInv, TypeOK
  <2>2. Resend(c)
    <3>1. ASSUME NEW d \in Calls, ClientNext(d)
          PROVE  Resend(c)
      <4>1. ASSUME NEW type, NEW reply, Settle(d, type, reply)
            PROVE  FALSE
        BY <1>1, <4>1 DEF Settle, TypeOK
      <4>2. ASSUME NEW delay, BackOff(d, delay)
            PROVE  FALSE
        BY <1>1, <4>2 DEF BackOff, TypeOK
      <4>3. ~HandleReply(d)
        BY <4>1, <4>2 DEF HandleReply, OnPayload, OnError, OnNetworkFailure
      <4>4. ~Start(d)
        BY <1>1 DEF Start, TypeOK
      <4>5. Resend(d)
        BY <3>1, <4>3, <4>4 DEF ClientNext
      <4>6. d = c
        BY <1>1, <4>5 DEF Resend, TypeOK
      <4>. QED
        BY <4>5, <4>6
    <3>. QED
      BY <1>1, <3>1 DEF Next, Tick, clientVars
  <2>3. \A tx \in wire'[c] : tx.secs = RemainingSecs(left[c])
    BY <1>1, <2>2 DEF Resend, Transmit, TypeOK, ServerTypeOK
  <2>. QED
    BY <1>1, <2>1, <2>3, RoundedUp DEF TypeOK
<1>. QED
  BY <1>1, BudgetCorrect, PTL DEF Spec, WindowIsKept

-----------------------------------------------------------------------------
(* RequestRetry implements AtMostOnce.  The inductive invariant says what  *)
(* the mapping needs: no call makes two resources, a call that was refused *)
(* has nothing left that could make one, and a payload names what the      *)
(* operation made.                                                         *)

(* Calls ask for one abstract operation exactly if they share a key.       *)
LEMMA Operation ==
    ASSUME TypeOK
    PROVE  \A c, d \in Calls :
               /\ OperationOf(c) \in AllOperations
               /\ OperationOf(c) = OperationOf(d) <=> SameOperation(c, d)
<1>1. \A c \in Calls : req[c].key \in Keys \cup {NoKey}
  BY ServerAssumption DEF TypeOK, ServerTypeOK, RequestType
<1>2. ASSUME NEW c \in Calls
      PROVE  OperationOf(c) \in AllOperations
  BY <1>1 DEF OperationOf, AllOperations, Keyed
<1>3. ASSUME NEW c \in Calls, NEW d \in Calls
      PROVE  OperationOf(c) = OperationOf(d) <=> SameOperation(c, d)
  BY DEF OperationOf, SameOperation, Keyed
<1>. QED
  BY <1>2, <1>3

LEMMA AtMostOne ==
    ASSUME TypeOK, SafetyInv
    PROVE  \A c \in Calls : effects[c] \in {0, 1}
<1>. TAKE c \in Calls
<1>1. effects[c] \in Nat /\ req[c].kind \in {"read", "write"}
  BY ServerAssumption DEF TypeOK, ServerTypeOK, RequestType
<1>2. CASE req[c].kind = "read"
  BY <1>2 DEF SafetyInv, LedgerInv
<1>3. CASE req[c].kind = "write" /\ ~Keyed(c)
  BY <1>1, <1>3 DEF SafetyInv, OneChanceInv, UnkeyedWrite
<1>4. CASE Keyed(c) /\ effects[c] > 0
  <2>1. req[c].key \in Keys
    BY <1>4, ServerAssumption DEF Keyed, TypeOK, ServerTypeOK, RequestType
  <2>. QED
    BY <1>4, <2>1 DEF SafetyInv, LedgerInv
<1>. QED
  BY <1>1, <1>2, <1>3, <1>4

(* Counters that are 0 or 1 count one resource each.                       *)
LEMMA OneEach ==
    ASSUME NEW S \in SUBSET Calls, NEW f \in [Calls -> {0, 1}]
    PROVE  UNION {{Resource(d, n) : n \in 1 .. f[d]} : d \in S}
               = {Resource(d, 1) : d \in {e \in S : f[e] = 1}}
<1>1. \A d \in S : {Resource(d, n) : n \in 1 .. f[d]}
                       = IF f[d] = 1 THEN {Resource(d, 1)} ELSE {}
  <2>. TAKE d \in S
  <2>1. CASE f[d] = 0
    <3>1. 1 .. f[d] = {}
      BY <2>1
    <3>. QED
      BY <2>1, <3>1
  <2>2. CASE f[d] = 1
    <3>1. 1 .. f[d] = {1}
      BY <2>2
    <3>. QED
      BY <2>2, <3>1
  <2>. QED
    BY <2>1, <2>2
<1>. QED
  BY <1>1

(* An operation made what its calls made.                                  *)
LEMMA MadeMembers ==
    ASSUME TypeOK, SafetyInv, NEW o
    PROVE  Made(o) = {Resource(d, 1) : d \in {e \in Calls : OperationOf(e) = o /\ effects[e] = 1}}
<1>1. effects \in [Calls -> {0, 1}]
  BY AtMostOne DEF TypeOK, ServerTypeOK
<1>2. {d \in Calls : OperationOf(d) = o} \in SUBSET Calls
  OBVIOUS
<1>. QED
  BY <1>1, <1>2, OneEach DEF Made

LEMMA InitRefines == Init => Abstract!Init
<1>. SUFFICES ASSUME Init PROVE Abstract!Init
  OBVIOUS
<1>1. TypeOK /\ SafetyInv
  BY InitType, InitSafe
<1>2. \A o : Made(o) = {}
  BY <1>1, MadeMembers DEF Init, ServerInit
<1>3. \A c \in Calls : OperationOf(c) \in AllOperations
  BY <1>1, Operation
<1>4. \A c \in Calls : AnswerOf(c) = [type |-> "open", vm |-> NoVm]
  BY DEF Init, AnswerOf, Pending
<1>. QED
  BY <1>2, <1>3, <1>4 DEF Abstract!Init, Abstract!Open

(* Steps that neither make anything nor tell a caller anything stutter.    *)
LEMMA Stutters ==
    ASSUME UNCHANGED <<req, effects, outcome>>
    PROVE  UNCHANGED Abstract!vars
<1>1. \A c \in Calls : OperationOf(c)' = OperationOf(c)
  BY DEF OperationOf, Keyed
<1>2. \A c \in Calls : AnswerOf(c)' = AnswerOf(c)
  BY DEF AnswerOf, Keyed
<1>3. \A o : Made(o)' = Made(o)
  BY <1>1 DEF Made
<1>. QED
  BY <1>1, <1>2, <1>3 DEF Abstract!vars

(* Performing a request makes the abstract operation happen, or stutters.  *)
LEMMA PerformRefines ==
    ASSUME TypeOK, SafetyInv, NEW c \in Calls, NEW tx \in wire[c] \cup orphans[c],
           Perform(c, tx), UNCHANGED <<req, outcome>>
    PROVE  [Abstract!Next]_(Abstract!vars)
<1>1. CASE UNCHANGED effects
  BY <1>1, Stutters
<1>2. CASE ~UNCHANGED effects
  <2>1. /\ req[c].kind = "write" /\ Bound(tx.key) = {}
        /\ effects' = [effects EXCEPT ![c] = 1]
    BY <1>2, PerformEffect
  <2>2. \A d \in Calls : SameOperation(c, d) => effects[d] = 0
    BY <2>1, FirstEffect
  <2>3. \A d \in Calls : OperationOf(d)' = OperationOf(d)
    BY DEF OperationOf, Keyed
  <2>4. Made(OperationOf(c)) = {}
    BY <2>2, Operation, MadeMembers
  <2>5. effects' \in [Calls -> {0, 1}]
    BY <2>1, AtMostOne DEF TypeOK, ServerTypeOK
  <2>6. \A o : Made(o)' =
            {Resource(d, 1) : d \in {e \in Calls : OperationOf(e) = o /\ effects'[e] = 1}}
    <3>1. \A o : {d \in Calls : OperationOf(d) = o} \in SUBSET Calls
      OBVIOUS
    <3>. QED
      BY <2>3, <2>5, <3>1, OneEach DEF Made
  <2>7. Made(OperationOf(c))' = {Resource(c, 1)}
    BY <2>1, <2>2, <2>3, <2>6, Operation DEF TypeOK, ServerTypeOK
  <2>8. \A o : o # OperationOf(c) => Made(o)' = Made(o)
    BY <2>1, <2>3, <2>6, MadeMembers DEF TypeOK, ServerTypeOK
  <2>9. AnswerOf(c).type # "refused"
    BY <2>1 DEF AnswerOf, SafetyInv, OneChanceInv, UnkeyedWrite
  <2>10. \A d \in Calls : AnswerOf(d)' = AnswerOf(d)
    BY DEF AnswerOf, Keyed
  <2>11. Abstract!Happen(c, Resource(c, 1))
    BY <2>3, <2>4, <2>7, <2>8, <2>9, <2>10, Operation DEF Abstract!Happen
  <2>12. Resource(c, 1) \in Calls \X {1}
    BY DEF Resource
  <2>. QED
    BY <2>11, <2>12 DEF Abstract!Next
<1>. QED
  BY <1>1, <1>2

(* Telling a caller is an abstract answer, or nothing if it made a read.   *)
LEMMA SettleRefines ==
    ASSUME TypeOK, SafetyInv, NEW c \in Calls, pc[c] = "sent", inbox[c].type # "none",
           NEW type \in {"ok", "error", "unavailable", "unknown"},
           type = "ok" => inbox[c].type = "payload",
           Settle(c, type, inbox[c])
    PROVE  [Abstract!Next]_(Abstract!vars)
<1>1. UNCHANGED <<req, effects>>
  BY DEF Settle
<1>2. /\ outcome[c] = Pending
      /\ outcome' = [outcome EXCEPT ![c] = [type |-> type, vm |-> inbox[c].vm,
                                            code |-> inbox[c].code, work |-> inbox[c].work]]
  BY DEF Settle, SafetyInv, WaitsInv
<1>3. \A d \in Calls : OperationOf(d)' = OperationOf(d)
  BY <1>1 DEF OperationOf, Keyed
<1>4. \A o : Made(o)' = Made(o)
  BY <1>1, <1>3 DEF Made
<1>5. \A d \in Calls : d # c => AnswerOf(d)' = AnswerOf(d)
  BY <1>1, <1>2 DEF AnswerOf, Keyed, TypeOK
<1>6. AnswerOf(c) = [type |-> "open", vm |-> NoVm]
  BY <1>2 DEF AnswerOf, Pending
<1>7. ASSUME NEW a, AnswerOf(c)' = a
      PROVE  Abstract!Answer(c, a)
  BY <1>3, <1>4, <1>5, <1>6, <1>7 DEF Abstract!Answer, Abstract!Open
<1>8. outcome'[c] = [type |-> type, vm |-> inbox[c].vm,
                     code |-> inbox[c].code, work |-> inbox[c].work]
  BY <1>2 DEF TypeOK
<1>9. CASE req[c].kind = "read"
  <2>1. AnswerOf(c)' = AnswerOf(c)
    BY <1>1, <1>6, <1>9 DEF AnswerOf
  <2>. QED
    BY <1>3, <1>4, <1>5, <2>1 DEF Abstract!vars
<1>10. CASE req[c].kind = "write" /\ type = "ok"
  <2>1. MadeFor(inbox[c].vm, c)
    BY <1>10 DEF SafetyInv, AnswerInv
  <2>2. AnswerOf(c)' = [type |-> "ok", vm |-> Resource(inbox[c].vm, 1)]
    <3>1. /\ outcome'[c].type = "ok" /\ outcome'[c].vm = inbox[c].vm
          /\ req'[c].kind = "write"
      BY <1>1, <1>8, <1>10
    <3>. QED
      BY <3>1 DEF AnswerOf, Resource
  <2>3. SameOperation(c, inbox[c].vm) /\ inbox[c].vm \in Calls /\ effects[inbox[c].vm] = 1
    <3>1. Keyed(c) => req[c].key \in Keys
      BY ServerAssumption DEF Keyed, TypeOK, ServerTypeOK, RequestType
    <3>. QED
      BY <2>1, <3>1 DEF MadeFor, SameOperation, SafetyInv, LedgerInv
  <2>4. Resource(inbox[c].vm, 1) \in Made(OperationOf(c))
    BY <2>3, Operation, MadeMembers
  <2>5. Abstract!Succeed(c)
    <3>1. Abstract!Answer(c, [type |-> "ok", vm |-> Resource(inbox[c].vm, 1)])
      BY <1>7, <2>2
    <3>. QED
      BY <2>4, <3>1, Operation DEF Abstract!Succeed
  <2>. QED
    BY <2>5 DEF Abstract!Next
<1>11. CASE req[c].kind = "write" /\ type # "ok" /\ inbox[c].work = "not_started" /\ ~Keyed(c)
  <2>1. AnswerOf(c)' = [type |-> "refused", vm |-> NoVm]
    <3>1. /\ outcome'[c].type \notin {"pending", "ok"}
          /\ outcome'[c].work = "not_started"
          /\ req'[c] = req[c]
      BY <1>1, <1>8, <1>11
    <3>. QED
      BY <1>11, <3>1 DEF AnswerOf, Keyed
  <2>2. effects[c] = 0
    BY <1>11 DEF SafetyInv, OneChanceInv, UnkeyedWrite
  <2>3. \A d \in Calls : OperationOf(d) = OperationOf(c) => d = c
    BY <1>11, Operation DEF SameOperation, Keyed
  <2>4. Made(OperationOf(c)) = {}
    BY <2>2, <2>3, MadeMembers
  <2>5. Abstract!Refused(c)
    <3>1. Abstract!Answer(c, [type |-> "refused", vm |-> NoVm])
      BY <1>7, <2>1
    <3>. QED
      BY <2>3, <2>4, <3>1, Operation DEF Abstract!Refused
  <2>. QED
    BY <2>5 DEF Abstract!Next
<1>12. CASE /\ req[c].kind = "write" /\ type # "ok"
            /\ ~(inbox[c].work = "not_started" /\ ~Keyed(c))
  <2>1. AnswerOf(c)' = [type |-> "failed", vm |-> NoVm]
    BY <1>1, <1>8, <1>12 DEF AnswerOf, Keyed
  <2>2. Abstract!Fail(c)
    BY <1>7, <2>1 DEF Abstract!Fail
  <2>. QED
    BY <2>2 DEF Abstract!Next
<1>13. req[c].kind \in {"read", "write"}
  BY ServerAssumption DEF TypeOK, ServerTypeOK, RequestType
<1>. QED
  BY <1>9, <1>10, <1>11, <1>12, <1>13

LEMMA NextRefines ==
    ASSUME TypeOK, SafetyInv, [Next]_vars
    PROVE  [Abstract!Next]_(Abstract!vars)
<1>1. ASSUME NEW c \in Calls, HandleReply(c)
      PROVE  [Abstract!Next]_(Abstract!vars)
  <2>1. ASSUME NEW delay, BackOff(c, delay)
        PROVE  [Abstract!Next]_(Abstract!vars)
    BY <2>1, Stutters DEF BackOff
  <2>. QED
    BY <1>1, <2>1, SettleRefines DEF HandleReply, OnPayload, OnError, OnNetworkFailure
<1>2. ASSUME NEW c \in Calls, Start(c) \/ Resend(c)
      PROVE  [Abstract!Next]_(Abstract!vars)
  BY <1>2, Stutters DEF Start, Resend
<1>3. ASSUME NEW c \in Calls, ServerNext(c), UNCHANGED clientVars
      PROVE  [Abstract!Next]_(Abstract!vars)
  <2>1. CASE Serve(c) \/ FailAfterStart(c) \/ OrphanRuns(c)
    BY <1>3, <2>1, PerformRefines DEF Serve, FailAfterStart, OrphanRuns, clientVars
  <2>2. CASE Refuse(c) \/ GatewayFails(c) \/ ConnectionFails(c)
    BY <1>3, <2>2, Stutters DEF Refuse, GatewayFails, ConnectionFails, Abandon, clientVars
  <2>. QED
    BY <1>3, <2>1, <2>2 DEF ServerNext
<1>4. CASE Tick \/ UNCHANGED vars
  BY <1>4, Stutters DEF Tick, vars, serverVars, clientVars
<1>. QED
  BY <1>1, <1>2, <1>3, <1>4 DEF Next, ClientNext

(* Whatever the network does, callers see an operation that happens at     *)
(* most once, whose resource they are given, and that stays undone when    *)
(* they are told it was refused.                                           *)
THEOREM Refinement == Spec => ImplementsAtMostOnce
<1>. QED
  BY InitRefines, NextRefines, Inductive, PTL
     DEF Spec, ImplementsAtMostOnce, Abstract!Spec
=============================================================================
