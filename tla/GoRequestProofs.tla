-------------------------- MODULE GoRequestProofs --------------------------
(***************************************************************************)
(* Proofs about GoRequest for any calls, keys, requests and attempts: the  *)
(* Go client replays whatever looks transient, and yet the calls that      *)
(* succeed under one key share one resource, and a write that carries a    *)
(* key, or is never replayed, takes effect at most once.                   *)
(***************************************************************************)
EXTENDS GoRequest, TLAPS

-----------------------------------------------------------------------------
(* Types.                                                                  *)

(* The replies the server and the transport build are replies.             *)
LEMMA ReplyTypes ==
    /\ NoReply \in Replies
    /\ NetworkFailure \in Replies
    /\ \A vm \in Calls : Payload(vm) \in Replies
    /\ \A code \in Codes, work \in Works, hint \in Hints \cup {NoHint} :
           Error(code, work, hint) \in Replies
  BY DEF NoReply, NetworkFailure, Payload, Error, Replies, Codes, Works

LEMMA RequestTypes ==
    ASSUME TypeOK, NEW c \in Calls
    PROVE  /\ req[c].kind \in {"read", "write"}
           /\ req[c].key \in Keys \cup {NoKey} /\ (req[c].key \in Keys <=> Keyed(c))
           /\ req[c].window \in Nat /\ req[c].attempts \in Nat \ {0}
           /\ Keyed(c) => req[c].kind = "write"
  BY ServerAssumption DEF TypeOK, ServerTypeOK, RequestType, Keyed

LEMMA InitType == Init => TypeOK
<1>. SUFFICES ASSUME Init PROVE TypeOK
  OBVIOUS
<1>1. ServerTypeOK
  BY ReplyTypes DEF Init, ServerInit, ServerTypeOK
<1>2. \A c \in Calls : attempt[c] < req[c].attempts
  BY ServerAssumption DEF Init, ServerInit, RequestType
<1>. QED
  BY <1>1, <1>2, ReplyTypes DEF Init, TypeOK, Outcomes, Pending, Codes

LEMMA PerformType ==
    ASSUME TypeOK, NEW c \in Calls, NEW tx \in Transmissions, Perform(c, tx)
    PROVE  effects' \in [Calls -> Nat] /\ ledger' \in [Keys -> SUBSET Bindings]
<1>1. CASE req[c].kind = "read" \/ Bound(tx.key) # {}
  BY <1>1 DEF Perform, TypeOK, ServerTypeOK
<1>2. CASE ~(req[c].kind = "read" \/ Bound(tx.key) # {})
  <2>1. [owner |-> c, secs |-> tx.secs] \in Bindings
    BY DEF Transmissions, Bindings
  <2>. QED
    BY <1>2, <2>1 DEF Perform, TypeOK, ServerTypeOK
<1>. QED
  BY <1>1, <1>2

LEMMA AnswersType ==
    ASSUME TypeOK, NEW c \in Calls, NEW tx \in Transmissions, NEW a \in Answers(c, tx)
    PROVE  a \in Replies
<1>1. CASE Bound(tx.key) = {}
  BY <1>1, ReplyTypes DEF Answers
<1>2. CASE Bound(tx.key) # {}
  <2>1. PICK b \in Bound(tx.key) :
          a = IF b.secs = tx.secs THEN Payload(b.owner)
              ELSE Error("idempotency_conflict", "absent", NoHint)
    BY <1>2 DEF Answers
  <2>2. b.owner \in Calls
    BY <2>1 DEF Bound, TypeOK, ServerTypeOK, Bindings
  <2>. QED
    BY <2>1, <2>2, ReplyTypes DEF Codes, Works
<1>. QED
  BY <1>1, <1>2

(* What a step of the server and the network does to one call: its request *)
(* is performed or not, and answered, or it becomes an orphan; or one of   *)
(* its orphans is performed.                                               *)
Answered(c, tx, reply) ==
    /\ Perform(c, tx) /\ Deliver(c, reply)
    /\ UNCHANGED <<req, orphans>>
    /\ reply.type = "payload" => reply \in Answers(c, tx)

Unserved(c, tx, reply) ==
    /\ Deliver(c, reply) /\ reply.type # "payload"
    /\ UNCHANGED <<req, effects, ledger>>
    /\ orphans' = orphans \/ orphans' = [orphans EXCEPT ![c] = @ \cup {tx}]

LEMMA ServerCases ==
    ASSUME TypeOK, NEW c \in Calls, ServerNext(c)
    PROVE  \/ \E tx \in wire[c], reply \in Replies :
                  Answered(c, tx, reply) \/ Unserved(c, tx, reply)
           \/ OrphanRuns(c)
<1>1. CASE Serve(c)
  <2>1. PICK tx \in wire[c] : \E answer \in Answers(c, tx) :
            Perform(c, tx) /\ Deliver(c, answer) /\ UNCHANGED <<req, orphans>>
    BY <1>1 DEF Serve
  <2>2. tx \in Transmissions
    BY <2>1 DEF TypeOK, ServerTypeOK
  <2>. QED
    BY <2>1, <2>2, AnswersType DEF Answered
<1>2. CASE FailAfterStart(c)
  <2>1. PICK tx \in wire[c], code \in {"transient", "other"}, work \in {"stopped", "continuing"} :
            Perform(c, tx) /\ Deliver(c, Error(code, work, NoHint)) /\ UNCHANGED <<req, orphans>>
    BY <1>2 DEF FailAfterStart
  <2>2. Error(code, work, NoHint) \in Replies /\ Error(code, work, NoHint).type # "payload"
    BY ReplyTypes DEF Codes, Works, Error
  <2>. QED
    BY <2>1, <2>2 DEF Answered
<1>3. CASE Refuse(c)
  <2>1. PICK tx \in wire[c], code \in {"transient", "quota_exceeded", "other"},
             work \in {"absent", "not_started"}, hint \in Hints \cup {NoHint} :
            Deliver(c, Error(code, work, hint)) /\ UNCHANGED <<req, orphans, effects, ledger>>
    BY <1>3 DEF Refuse
  <2>2. Error(code, work, hint) \in Replies /\ Error(code, work, hint).type # "payload"
    BY ReplyTypes DEF Codes, Works, Error
  <2>. QED
    BY <2>1, <2>2 DEF Unserved
<1>4. ASSUME NEW reply \in Replies, reply.type # "payload", Abandon(c, reply)
      PROVE  \E tx \in wire[c] : Unserved(c, tx, reply)
  BY <1>4 DEF Abandon, Unserved
<1>5. CASE GatewayFails(c)
  <2>1. \A work \in Works : /\ Error("transient", work, NoHint) \in Replies
                            /\ Error("transient", work, NoHint).type # "payload"
    BY ReplyTypes DEF Codes, Error
  <2>. QED
    BY <1>4, <1>5, <2>1 DEF GatewayFails, Works
<1>6. CASE ConnectionFails(c)
  <2>1. NetworkFailure \in Replies /\ NetworkFailure.type # "payload"
    BY ReplyTypes DEF NetworkFailure, Payload
  <2>. QED
    BY <1>4, <1>6, <2>1 DEF ConnectionFails
<1>. QED
  BY <1>1, <1>2, <1>3, <1>5, <1>6 DEF ServerNext

LEMMA ServerStepType ==
    ASSUME TypeOK, NEW c \in Calls, ServerNext(c), UNCHANGED clientVars
    PROVE  TypeOK'
<1>. USE DEF TypeOK, ServerTypeOK, clientVars
<1>1. ASSUME NEW tx \in wire[c], NEW reply \in Replies, Answered(c, tx, reply)
      PROVE  TypeOK'
  BY <1>1, PerformType DEF Answered, Deliver
<1>2. ASSUME NEW tx \in wire[c], NEW reply \in Replies, Unserved(c, tx, reply)
      PROVE  TypeOK'
  BY <1>2 DEF Unserved, Deliver
<1>3. CASE OrphanRuns(c)
  BY <1>3, PerformType DEF OrphanRuns
<1>. QED
  BY <1>1, <1>2, <1>3, ServerCases

LEMMA SettleType ==
    ASSUME TypeOK, NEW c \in Calls, NEW reply \in Replies,
           NEW type \in {"ok", "error", "transport", "unknown", "cancelled"},
           Settle(c, type, reply)
    PROVE  TypeOK'
<1>1. [type |-> type, vm |-> reply.vm, code |-> reply.code] \in Outcomes
  BY DEF Replies, Outcomes
<1>. QED
  BY <1>1, ReplyTypes DEF Settle, TypeOK, ServerTypeOK

LEMMA SendType ==
    ASSUME TypeOK, NEW c \in Calls, Send(c)
    PROVE  wire' \in [Calls -> SUBSET Transmissions] /\ inbox' \in [Calls -> Replies]
<1>1. [key |-> req[c].key, secs |-> req[c].window] \in Transmissions
  BY RequestTypes DEF Transmissions
<1>. QED
  BY <1>1, ReplyTypes DEF Send, Transmit, TypeOK, ServerTypeOK

LEMMA ClientStepType ==
    ASSUME TypeOK, SafetyInv, NEW c \in Calls, ClientNext(c)
    PROVE  TypeOK'
<1>1. inbox[c] \in Replies /\ last[c] \in Replies
  BY DEF TypeOK, ServerTypeOK
<1>2. CASE Start(c)
  BY <1>2, SendType DEF Start, TypeOK, ServerTypeOK
<1>3. ASSUME NEW reply \in Replies, BackOff(c, reply)
      PROVE  TypeOK'
  BY <1>3, ReplyTypes DEF BackOff, TypeOK, ServerTypeOK
<1>4. CASE HandleReply(c)
  BY <1>1, <1>3, <1>4, SettleType
     DEF HandleReply, OnPayload, OnError, OnSendFailure, OnDrainFailure
<1>5. CASE Resend(c)
  <2>1. attempt[c] \in Nat /\ attempt[c] + 1 < req[c].attempts
    BY <1>5, RequestTypes DEF Resend, TypeOK, SafetyInv, BackOffInv, LastAttempt
  <2>2. \A d \in Calls : attempt'[d] \in Nat /\ attempt'[d] < req[d].attempts
    BY <1>5, <2>1 DEF Resend, TypeOK
  <2>3. wire' \in [Calls -> SUBSET Transmissions] /\ inbox' \in [Calls -> Replies]
    BY <1>5, SendType DEF Resend
  <2>. QED
    BY <1>5, <2>1, <2>2, <2>3, ReplyTypes DEF Resend, TypeOK, ServerTypeOK
<1>6. CASE StopBackOff(c)
  BY <1>1, <1>6, SettleType DEF StopBackOff
<1>7. CASE Cancel(c)
  BY <1>7 DEF Cancel, TypeOK, ServerTypeOK, serverVars
<1>. QED
  BY <1>2, <1>4, <1>5, <1>6, <1>7 DEF ClientNext

-----------------------------------------------------------------------------
(* The ledger.                                                             *)

(* What performing a request of c changes, if it changes anything: the     *)
(* first effect of a keyed call binds its key.                             *)
LEMMA PerformEffect ==
    ASSUME TypeOK, SafetyInv, NEW c \in Calls, NEW tx \in wire[c] \cup orphans[c],
           Perform(c, tx)
    PROVE  /\ \A d \in Calls : d # c => effects'[d] = effects[d]
           /\ \A k \in Keys : ledger[k] # {} => ledger'[k] = ledger[k]
           /\ \/ UNCHANGED <<effects, ledger>>
              \/ /\ req[c].kind = "write" /\ ~Keyed(c)
                 /\ effects'[c] = effects[c] + 1 /\ ledger' = ledger
              \/ /\ Keyed(c) /\ ledger[req[c].key] = {}
                 /\ effects[c] = 0 /\ effects'[c] = 1
                 /\ ledger' = [ledger EXCEPT ![req[c].key] = {[owner |-> c, secs |-> tx.secs]}]
<1>1. tx.key = req[c].key
  BY DEF SafetyInv, KeysInv
<1>2. CASE req[c].kind = "read" \/ Bound(tx.key) # {}
  BY <1>2 DEF Perform
<1>3. CASE req[c].kind = "write" /\ Bound(tx.key) = {} /\ ~Keyed(c)
  BY <1>1, <1>3, RequestTypes DEF Perform, TypeOK, ServerTypeOK
<1>4. CASE req[c].kind = "write" /\ Bound(tx.key) = {} /\ Keyed(c)
  <2>1. req[c].key \in Keys /\ ledger[req[c].key] = {}
    BY <1>1, <1>4, RequestTypes DEF Bound
  <2>2. effects[c] = 0
    BY <1>4, <2>1 DEF SafetyInv, LedgerInv, TypeOK, ServerTypeOK
  <2>. QED
    BY <1>1, <1>4, <2>1, <2>2 DEF Perform, TypeOK, ServerTypeOK
<1>. QED
  BY <1>2, <1>3, <1>4, RequestTypes

LEMMA LedgerStep ==
    ASSUME TypeOK, SafetyInv, NEW c \in Calls, NEW tx \in wire[c] \cup orphans[c],
           Perform(c, tx), UNCHANGED req
    PROVE  LedgerInv'
<1>1. CASE UNCHANGED <<effects, ledger>>
  BY <1>1 DEF SafetyInv, LedgerInv, Keyed
<1>2. CASE /\ req[c].kind = "write" /\ ~Keyed(c)
           /\ effects'[c] = effects[c] + 1 /\ ledger' = ledger
  <2>1. \A k \in Keys : \A b \in ledger[k] : b.owner \in Calls /\ b.owner # c
    BY <1>2, RequestTypes DEF SafetyInv, LedgerInv, TypeOK, ServerTypeOK, Bindings
  <2>. QED
    BY <1>2, <2>1, PerformEffect DEF SafetyInv, LedgerInv, Keyed
<1>3. CASE /\ Keyed(c) /\ ledger[req[c].key] = {}
           /\ effects[c] = 0 /\ effects'[c] = 1
           /\ ledger' = [ledger EXCEPT ![req[c].key] = {[owner |-> c, secs |-> tx.secs]}]
  <2>1. req[c].key \in Keys /\ req[c].kind = "write"
    BY <1>3, RequestTypes
  <2>2. ledger'[req[c].key] = {[owner |-> c, secs |-> tx.secs]}
    BY <1>3, <2>1 DEF TypeOK, ServerTypeOK
  <2>3. \A k \in Keys : k # req[c].key => ledger'[k] = ledger[k]
    BY <1>3 DEF TypeOK, ServerTypeOK
  <2>4. \A d \in Calls : d # c => effects'[d] = effects[d]
    BY PerformEffect
  <2>5. \A k \in Keys : \A b, d \in ledger'[k] : b = d
    BY <2>2, <2>3 DEF SafetyInv, LedgerInv
  <2>6. ASSUME NEW k \in Keys, NEW b \in ledger'[k]
        PROVE  req[b.owner].key = k /\ effects'[b.owner] = 1
    <3>1. CASE k = req[c].key
      BY <1>3, <2>2, <2>6, <3>1
    <3>2. CASE k # req[c].key
      <4>1. b \in ledger[k] /\ b.owner \in Calls /\ b.owner # c
        BY <2>3, <2>6, <3>2 DEF SafetyInv, LedgerInv, TypeOK, ServerTypeOK, Bindings
      <4>. QED
        BY <2>4, <4>1 DEF SafetyInv, LedgerInv
    <3>. QED
      BY <3>1, <3>2
  <2>7. ASSUME NEW d \in Calls, Keyed(d), effects'[d] > 0
        PROVE  \E b \in ledger'[req[d].key] : b.owner = d
    <3>1. CASE d = c
      <4>1. [owner |-> c, secs |-> tx.secs] \in ledger'[req[d].key]
        BY <2>2, <3>1
      <4>. QED
        BY <3>1, <4>1
    <3>2. CASE d # c
      <4>1. PICK b \in ledger[req[d].key] : b.owner = d
        BY <2>4, <2>7, <3>2 DEF SafetyInv, LedgerInv
      <4>2. req[d].key \in Keys /\ req[d].key # req[c].key
        BY <1>3, <2>7, <4>1, RequestTypes
      <4>. QED
        BY <2>3, <4>1, <4>2
    <3>. QED
      BY <3>1, <3>2
  <2>8. \A d \in Calls : req[d].kind = "read" => effects'[d] = 0
    BY <2>1, <2>4 DEF SafetyInv, LedgerInv
  <2>. QED
    BY <2>5, <2>6, <2>7, <2>8 DEF LedgerInv, Keyed
<1>. QED
  BY <1>1, <1>2, <1>3, PerformEffect

(* What a key is bound to stays what it is bound to.                       *)
LEMMA BoundStable ==
    ASSUME TypeOK, SafetyInv, NEW c \in Calls, NEW tx \in wire[c] \cup orphans[c],
           Perform(c, tx), UNCHANGED req, NEW d \in Calls, Keyed(d), NEW vm, BoundTo(vm, d)
    PROVE  BoundTo(vm, d)'
<1>1. req[d].key \in Keys /\ ledger[req[d].key] # {}
  BY RequestTypes DEF BoundTo
<1>. QED
  BY <1>1, PerformEffect DEF BoundTo

(* A request that is answered with a payload names what its key is bound   *)
(* to, from now on at the latest.                                          *)
LEMMA AnswerNamesOwner ==
    ASSUME TypeOK, SafetyInv, NEW c \in Calls, Keyed(c), NEW tx \in wire[c], NEW reply,
           Answered(c, tx, reply), reply.type = "payload"
    PROVE  BoundTo(reply.vm, c)'
<1>1. tx.key = req[c].key /\ req[c].key \in Keys /\ req[c].kind = "write"
  BY RequestTypes DEF SafetyInv, KeysInv
<1>2. Perform(c, tx) /\ req' = req /\ reply \in Answers(c, tx)
  BY DEF Answered
<1>3. CASE ledger[req[c].key] = {}
  <2>1. reply = Payload(c)
    BY <1>1, <1>2, <1>3 DEF Answers, Bound
  <2>2. [owner |-> c, secs |-> tx.secs] \in ledger'[req[c].key]
    BY <1>1, <1>2, <1>3 DEF Perform, Bound, TypeOK, ServerTypeOK
  <2>. QED
    BY <1>2, <2>1, <2>2 DEF BoundTo, Payload
<1>4. CASE ledger[req[c].key] # {}
  <2>1. PICK b \in ledger[req[c].key] :
            reply = IF b.secs = tx.secs THEN Payload(b.owner)
                    ELSE Error("idempotency_conflict", "absent", NoHint)
    BY <1>1, <1>2, <1>4 DEF Answers, Bound
  <2>2. reply = Payload(b.owner)
    BY <2>1 DEF Error
  <2>3. BoundTo(reply.vm, c)
    BY <2>1, <2>2 DEF BoundTo, Payload
  <2>. QED
    BY <1>2, <2>3, BoundStable
<1>. QED
  BY <1>3, <1>4

-----------------------------------------------------------------------------
(* Steps of the server and the network.                                    *)

(* The answer of one call changes: what the others were told stands.       *)
LEMMA ServedStep ==
    ASSUME TypeOK, SafetyInv, NEW c \in Calls, UNCHANGED clientVars,
           NEW tx \in wire[c], NEW reply \in Replies, Answered(c, tx, reply)
    PROVE  SafetyInv'
<1>1. /\ \A d \in Calls : d # c => wire'[d] = wire[d] /\ inbox'[d] = inbox[d]
      /\ wire'[c] = {} /\ inbox'[c] = reply
      /\ UNCHANGED <<req, orphans>>
  BY DEF Answered, Deliver, TypeOK, ServerTypeOK
<1>2. Perform(c, tx)
  BY DEF Answered
<1>3. KeysInv' /\ BackOffInv'
  BY <1>1 DEF SafetyInv, KeysInv, BackOffInv, LastAttempt, clientVars
<1>4. LedgerInv'
  BY <1>1, <1>2, LedgerStep
<1>5. AnswerInv'
  <2>1. ASSUME NEW d \in Calls, Keyed(d), NEW vm, BoundTo(vm, d)
        PROVE  BoundTo(vm, d)'
    BY <1>1, <1>2, <2>1, BoundStable
  <2>2. ASSUME NEW d \in Calls, Keyed(d), inbox'[d].type = "payload"
        PROVE  BoundTo(inbox[d].vm, d)'
    <3>1. CASE d = c
      <4>1. BoundTo(reply.vm, d)'
        BY <1>1, <2>2, <3>1, AnswerNamesOwner
      <4>. QED
        BY <1>1, <3>1, <4>1 DEF BoundTo
    <3>2. CASE d # c
      <4>1. BoundTo(inbox[d].vm, d)
        BY <1>1, <2>2, <3>2 DEF SafetyInv, AnswerInv
      <4>2. PICK vm : vm = inbox[d].vm
        OBVIOUS
      <4>3. BoundTo(vm, d)'
        BY <2>1, <2>2, <4>1, <4>2
      <4>. QED
        BY <1>1, <3>2, <4>2, <4>3 DEF BoundTo
    <3>. QED
      BY <3>1, <3>2
  <2>3. ASSUME NEW d \in Calls, Keyed(d), outcome[d].type = "ok"
        PROVE  BoundTo(outcome[d].vm, d)'
    <3>1. PICK vm : vm = outcome[d].vm
      OBVIOUS
    <3>2. BoundTo(vm, d)'
      BY <2>1, <2>3, <3>1 DEF SafetyInv, AnswerInv
    <3>. QED
      BY <3>1, <3>2 DEF BoundTo, clientVars
  <2>. QED
    BY <1>1, <2>2, <2>3 DEF AnswerInv, Keyed, clientVars
<1>6. OneChanceInv'
  <2>1. ASSUME NEW d \in Calls, SentOnce(d), d # c
        PROVE  effects'[d] = effects[d] /\ wire'[d] = wire[d] /\ orphans'[d] = orphans[d]
    BY <1>1, <1>2, <2>1, PerformEffect
  <2>2. ASSUME SentOnce(c)
        PROVE  /\ effects'[c] \in {0, 1} /\ wire'[c] = {} /\ orphans'[c] = {}
               /\ pc[c] \notin {"idle", "backoff"}
    <3>1. effects[c] = 0 /\ orphans[c] = {} /\ pc[c] \notin {"idle", "backoff"}
      BY <2>2 DEF SafetyInv, OneChanceInv
    <3>. QED
      BY <1>1, <1>2, <2>2, <3>1, PerformEffect DEF SentOnce
  <2>. QED
    BY <1>1, <2>1, <2>2 DEF SafetyInv, OneChanceInv, SentOnce, Keyed, clientVars
<1>. QED
  BY <1>3, <1>4, <1>5, <1>6 DEF SafetyInv

(* Nothing is performed: a request is refused, or becomes an orphan.       *)
LEMMA UnservedStep ==
    ASSUME TypeOK, SafetyInv, NEW c \in Calls, UNCHANGED clientVars,
           NEW tx \in wire[c], NEW reply \in Replies, Unserved(c, tx, reply)
    PROVE  SafetyInv'
<1>1. /\ \A d \in Calls : d # c =>
             wire'[d] = wire[d] /\ inbox'[d] = inbox[d] /\ orphans'[d] = orphans[d]
      /\ wire'[c] = {} /\ inbox'[c] = reply /\ reply.type # "payload"
      /\ orphans'[c] \in {orphans[c], orphans[c] \cup {tx}}
      /\ UNCHANGED <<req, effects, ledger>>
  BY DEF Unserved, Deliver, TypeOK, ServerTypeOK
<1>2. KeysInv'
  BY <1>1 DEF SafetyInv, KeysInv
<1>3. LedgerInv'
  BY <1>1 DEF SafetyInv, LedgerInv, Keyed
<1>4. AnswerInv' /\ BackOffInv'
  BY <1>1 DEF SafetyInv, AnswerInv, BoundTo, Keyed, BackOffInv, LastAttempt, clientVars
<1>5. OneChanceInv'
  <2>1. SentOnce(c) => /\ effects[c] = 0 /\ orphans[c] = {}
                       /\ pc[c] \notin {"idle", "backoff"}
    BY DEF SafetyInv, OneChanceInv
  <2>. QED
    BY <1>1, <2>1 DEF SafetyInv, OneChanceInv, SentOnce, Keyed, clientVars
<1>. QED
  BY <1>2, <1>3, <1>4, <1>5 DEF SafetyInv

(* The origin performs a request nobody waits for.                         *)
LEMMA OrphanStep ==
    ASSUME TypeOK, SafetyInv, NEW c \in Calls, OrphanRuns(c), UNCHANGED clientVars
    PROVE  SafetyInv'
<1>1. PICK tx \in orphans[c] :
          /\ Perform(c, tx)
          /\ orphans' = [orphans EXCEPT ![c] = @ \ {tx}]
          /\ UNCHANGED <<req, wire, inbox>>
  BY DEF OrphanRuns
<1>2. /\ \A d \in Calls : d # c => orphans'[d] = orphans[d]
      /\ orphans'[c] = orphans[c] \ {tx}
  BY <1>1 DEF TypeOK, ServerTypeOK
<1>3. KeysInv' /\ BackOffInv'
  BY <1>1, <1>2 DEF SafetyInv, KeysInv, BackOffInv, LastAttempt, clientVars
<1>4. LedgerInv'
  BY <1>1, LedgerStep
<1>5. AnswerInv'
  <2>1. ASSUME NEW d \in Calls, Keyed(d), NEW vm, BoundTo(vm, d)
        PROVE  \E b \in ledger'[req[d].key] : b.owner = vm
    <3>1. BoundTo(vm, d)'
      BY <1>1, <2>1, BoundStable
    <3>. QED
      BY <1>1, <3>1 DEF BoundTo
  <2>2. ASSUME NEW d \in Calls, Keyed(d)
        PROVE  /\ inbox[d].type = "payload" =>
                      \E b \in ledger'[req[d].key] : b.owner = inbox[d].vm
               /\ outcome[d].type = "ok" =>
                      \E b \in ledger'[req[d].key] : b.owner = outcome[d].vm
    BY <2>1, <2>2 DEF SafetyInv, AnswerInv
  <2>. QED
    BY <1>1, <2>2 DEF AnswerInv, BoundTo, Keyed, clientVars
<1>6. OneChanceInv'
  <2>1. \A d \in Calls : d # c => effects'[d] = effects[d]
    BY <1>1, PerformEffect
  <2>2. ASSUME SentOnce(c)
        PROVE  /\ effects'[c] \in {0, 1} /\ wire[c] = {} /\ orphans'[c] = {}
               /\ pc[c] \notin {"idle", "backoff"}
    <3>1. /\ effects[c] = 0 /\ wire[c] = {} /\ \A t \in orphans[c] : t = tx
          /\ pc[c] \notin {"idle", "backoff"}
      BY <1>1, <2>2 DEF SafetyInv, OneChanceInv
    <3>. QED
      BY <1>1, <1>2, <2>2, <3>1, PerformEffect DEF SentOnce
  <2>. QED
    BY <1>1, <1>2, <2>1, <2>2 DEF SafetyInv, OneChanceInv, SentOnce, Keyed, clientVars
<1>. QED
  BY <1>3, <1>4, <1>5, <1>6 DEF SafetyInv

-----------------------------------------------------------------------------
(* Steps of the client.                                                    *)

(* A call sends its request, or is told or remembers an answer: nothing is *)
(* made.                                                                   *)
LEMMA ClientStep ==
    ASSUME TypeOK, SafetyInv, NEW c \in Calls, UNCHANGED <<req, orphans, effects, ledger>>,
           \A d \in Calls : d # c =>
               /\ pc'[d] = pc[d] /\ wire'[d] = wire[d] /\ inbox'[d] = inbox[d]
               /\ outcome'[d] = outcome[d] /\ attempt'[d] = attempt[d],
           wire'[c] = wire[c] \/ (pc[c] \in {"idle", "backoff"} /\ pc'[c] = "sent"),
           \A tx \in wire'[c] : tx.key = req[c].key,
           inbox'[c] = inbox[c] \/ inbox'[c] = NoReply,
           outcome'[c] = outcome[c] \/ outcome'[c].type # "ok"
               \/ (inbox[c].type = "payload" /\ outcome'[c].vm = inbox[c].vm),
           pc'[c] # "idle" \/ (pc'[c] = pc[c] /\ wire'[c] = wire[c]),
           pc'[c] = "backoff" => ~LastAttempt(c)' /\ ~SentOnce(c)
    PROVE  SafetyInv'
<1>1. KeysInv'
  BY DEF SafetyInv, KeysInv
<1>2. LedgerInv'
  BY DEF SafetyInv, LedgerInv, Keyed
<1>3. AnswerInv'
  <2>1. NoReply.type # "payload"
    BY DEF NoReply, Payload
  <2>. QED
    BY <2>1 DEF SafetyInv, AnswerInv, BoundTo, Keyed
<1>4. OneChanceInv'
  <2>1. ASSUME NEW d \in Calls, SentOnce(d), d # c
        PROVE  pc'[d] = pc[d] /\ wire'[d] = wire[d]
    BY <2>1
  <2>2. ASSUME SentOnce(c)
        PROVE  /\ pc'[c] # "backoff"
               /\ pc'[c] = "idle" => pc[c] = "idle" /\ wire'[c] = wire[c]
               /\ wire'[c] # wire[c] => pc[c] = "idle"
    BY <2>2 DEF SafetyInv, OneChanceInv
  <2>. QED
    BY <2>1, <2>2 DEF SafetyInv, OneChanceInv, SentOnce, Keyed
<1>5. BackOffInv'
  BY DEF SafetyInv, BackOffInv, LastAttempt
<1>. QED
  BY <1>1, <1>2, <1>3, <1>4, <1>5 DEF SafetyInv

LEMMA SettleStep ==
    ASSUME TypeOK, SafetyInv, NEW c \in Calls, NEW type, NEW reply, Settle(c, type, reply),
           type = "ok" => reply = inbox[c] /\ inbox[c].type = "payload"
    PROVE  SafetyInv'
<1>1. /\ pc'[c] = "settled" /\ inbox'[c] = NoReply
      /\ outcome'[c] = [type |-> type, vm |-> reply.vm, code |-> reply.code]
      /\ \A d \in Calls : d # c =>
             pc'[d] = pc[d] /\ inbox'[d] = inbox[d] /\ outcome'[d] = outcome[d]
      /\ UNCHANGED <<req, wire, orphans, effects, ledger, attempt>>
  BY DEF Settle, TypeOK, ServerTypeOK
<1>2. \A tx \in wire'[c] : tx.key = req[c].key
  BY <1>1 DEF SafetyInv, KeysInv
<1>. QED
  BY <1>1, <1>2, ClientStep

LEMMA BackOffStep ==
    ASSUME TypeOK, SafetyInv, NEW c \in Calls, NEW reply, BackOff(c, reply), ~LastAttempt(c)
    PROVE  SafetyInv'
<1>1. /\ pc'[c] = "backoff" /\ inbox'[c] = NoReply
      /\ \A d \in Calls : d # c => pc'[d] = pc[d] /\ inbox'[d] = inbox[d]
      /\ UNCHANGED <<req, wire, orphans, effects, ledger, attempt, outcome>>
  BY DEF BackOff, TypeOK, ServerTypeOK
<1>2. \A tx \in wire'[c] : tx.key = req[c].key
  BY <1>1 DEF SafetyInv, KeysInv
<1>3. ~SentOnce(c)
  BY DEF SentOnce, LastAttempt, TypeOK
<1>4. ~LastAttempt(c)'
  BY <1>1 DEF LastAttempt
<1>. QED
  BY <1>1, <1>2, <1>3, <1>4, ClientStep

LEMMA SendStep ==
    ASSUME TypeOK, SafetyInv, NEW c \in Calls, Start(c) \/ Resend(c)
    PROVE  SafetyInv'
<1>1. /\ pc[c] \in {"idle", "backoff"} /\ pc'[c] = "sent" /\ inbox'[c] = NoReply
      /\ wire'[c] = {[key |-> req[c].key, secs |-> req[c].window]}
      /\ \A d \in Calls : d # c => /\ pc'[d] = pc[d] /\ wire'[d] = wire[d]
                                   /\ inbox'[d] = inbox[d] /\ attempt'[d] = attempt[d]
      /\ UNCHANGED <<req, orphans, effects, ledger, outcome>>
  BY DEF Start, Resend, Send, Transmit, TypeOK, ServerTypeOK
<1>. QED
  BY <1>1, ClientStep

LEMMA ClientStepSafe ==
    ASSUME TypeOK, SafetyInv, NEW c \in Calls, ClientNext(c)
    PROVE  SafetyInv'
<1>1. CASE OnPayload(c)
  BY <1>1, SettleStep DEF OnPayload
<1>2. CASE OnError(c) \/ OnSendFailure(c) \/ OnDrainFailure(c)
  BY <1>2, SettleStep, BackOffStep DEF OnError, OnSendFailure, OnDrainFailure
<1>3. CASE StopBackOff(c)
  BY <1>3, SettleStep DEF StopBackOff
<1>4. CASE Cancel(c)
  BY <1>4 DEF Cancel, serverVars, SafetyInv, KeysInv, LedgerInv, AnswerInv, OneChanceInv,
              BackOffInv, LastAttempt, BoundTo, SentOnce, Keyed
<1>. QED
  BY <1>1, <1>2, <1>3, <1>4, SendStep DEF ClientNext, HandleReply

LEMMA InitSafe == Init => SafetyInv
<1>. SUFFICES ASSUME Init PROVE SafetyInv
  OBVIOUS
<1>1. NoReply.type = "none"
  BY DEF NoReply, Payload
<1>. QED
  BY <1>1 DEF Init, ServerInit, SafetyInv, KeysInv, LedgerInv, AnswerInv, OneChanceInv,
              BackOffInv, Pending

LEMMA NextSafe == TypeOK /\ SafetyInv /\ [Next]_vars => TypeOK' /\ SafetyInv'
<1>. SUFFICES ASSUME TypeOK, SafetyInv, [Next]_vars
              PROVE  TypeOK' /\ SafetyInv'
  OBVIOUS
<1>1. ASSUME NEW c \in Calls, ClientNext(c)
      PROVE  TypeOK' /\ SafetyInv'
  BY <1>1, ClientStepType, ClientStepSafe
<1>2. ASSUME NEW c \in Calls, ServerNext(c), UNCHANGED clientVars
      PROVE  TypeOK' /\ SafetyInv'
  BY <1>2, ServerStepType, ServerCases, ServedStep, UnservedStep, OrphanStep
<1>3. CASE UNCHANGED vars
  BY <1>3 DEF vars, serverVars, clientVars, TypeOK, ServerTypeOK, SafetyInv, KeysInv,
              LedgerInv, AnswerInv, OneChanceInv, BackOffInv, LastAttempt, BoundTo,
              SentOnce, Keyed
<1>. QED
  BY <1>1, <1>2, <1>3 DEF Next

(* The types, and the invariant the properties follow from.                *)
THEOREM Inductive == Spec => [](TypeOK /\ SafetyInv)
<1>1. Init => TypeOK /\ SafetyInv
  BY InitType, InitSafe
<1>. QED
  BY <1>1, NextSafe, PTL DEF Spec

(* Every variable keeps its type; in particular a call never sends more    *)
(* requests than its attempts, however the caller's context ends.          *)
THEOREM TypeCorrect == Spec => []TypeOK
  BY Inductive, PTL

-----------------------------------------------------------------------------
(* The properties the runs check.                                          *)

(* Calls of the Go client that succeed under one key, replayed as often as *)
(* Client.do likes, are told of one resource, made once.                   *)
LEMMA Converged == TypeOK /\ SafetyInv => KeyedForksConverge
<1>. SUFFICES ASSUME TypeOK, SafetyInv, NEW c \in Calls, NEW d \in Calls,
                     outcome[c].type = "ok", outcome[d].type = "ok",
                     Keyed(c), SameOperation(c, d)
              PROVE  outcome[c].vm = outcome[d].vm /\ effects[outcome[c].vm] = 1
  BY DEF KeyedForksConverge
<1>1. req[d].key = req[c].key /\ Keyed(d) /\ req[c].key \in Keys
  BY RequestTypes DEF SameOperation, Keyed
<1>2. BoundTo(outcome[c].vm, c) /\ BoundTo(outcome[d].vm, d)
  BY <1>1 DEF SafetyInv, AnswerInv
<1>. QED
  BY <1>1, <1>2 DEF BoundTo, SafetyInv, LedgerInv

THEOREM ForksConverge == Spec => []KeyedForksConverge
BY Converged, Inductive, PTL

(* A keyed write, or one that may be sent once only, takes effect at most  *)
(* once, and what it made is what its callers are told (Client.do).        *)
THEOREM SafeOnce == Spec => []SafeForksHappenOnce
<1>1. TypeOK /\ SafetyInv => SafeForksHappenOnce
  <2>. SUFFICES ASSUME TypeOK, SafetyInv, NEW c \in Calls, NEW d \in Calls,
                       Keyed(c) \/ req[c].attempts = 1,
                       effects[c] > 0, SameOperation(c, d)
                PROVE  effects[c] = 1 /\ (d = c \/ effects[d] = 0)
    BY Converged DEF SafeForksHappenOnce
  <2>1. effects[c] \in Nat /\ effects[d] \in Nat
    BY DEF TypeOK, ServerTypeOK
  <2>2. CASE Keyed(c)
    <3>1. req[d].key = req[c].key /\ Keyed(d) /\ req[c].key \in Keys
      BY <2>2, RequestTypes DEF SameOperation, Keyed
    <3>2. PICK b \in ledger[req[c].key] : b.owner = c
      BY <2>2 DEF SafetyInv, LedgerInv
    <3>3. effects[c] = 1
      BY <3>1, <3>2 DEF SafetyInv, LedgerInv
    <3>4. effects[d] > 0 => d = c
      BY <3>1, <3>2 DEF SafetyInv, LedgerInv
    <3>. QED
      BY <2>1, <3>3, <3>4
  <2>3. CASE ~Keyed(c)
    <3>1. d = c /\ req[c].kind = "write" /\ req[c].attempts = 1
      BY <2>3, RequestTypes DEF SameOperation, SafetyInv, LedgerInv
    <3>. QED
      BY <2>1, <2>3, <3>1 DEF SafetyInv, OneChanceInv, SentOnce
  <2>. QED
    BY <2>2, <2>3
<1>. QED
  BY <1>1, Inductive, PTL

-----------------------------------------------------------------------------
(* What the callers are told.                                              *)

(* A request of a write that is sent once: it makes the write's own        *)
(* resource and names it.                                                  *)
LEMMA SentOnceAnswer ==
    ASSUME TypeOK, SafetyInv, NEW c \in Calls, SentOnce(c), NEW tx \in wire[c],
           NEW reply \in Replies, Answered(c, tx, reply), reply.type = "payload"
    PROVE  reply.vm = c /\ effects'[c] = 1
<1>1. tx.key = req[c].key /\ req[c].key \notin Keys /\ effects[c] = 0
  BY RequestTypes DEF SafetyInv, KeysInv, OneChanceInv, SentOnce
<1>2. Bound(tx.key) = {}
  BY <1>1 DEF Bound
<1>3. reply = Payload(c)
  BY <1>2 DEF Answered, Answers
<1>4. effects' = [effects EXCEPT ![c] = @ + 1]
  BY <1>2 DEF Answered, Perform, SentOnce
<1>. QED
  BY <1>1, <1>3, <1>4 DEF Payload, TypeOK, ServerTypeOK

LEMMA ToldServerStep ==
    ASSUME TypeOK, SafetyInv, ToldInv, NEW c \in Calls, ServerNext(c), UNCHANGED clientVars
    PROVE  ToldInv'
<1>1. ASSUME NEW tx \in wire[c], NEW reply \in Replies, Answered(c, tx, reply)
      PROVE  ToldInv'
  <2>1. /\ \A d \in Calls : d # c => inbox'[d] = inbox[d] /\ effects'[d] = effects[d]
        /\ inbox'[c] = reply /\ req' = req
    BY <1>1, PerformEffect DEF Answered, Deliver, TypeOK, ServerTypeOK
  <2>2. SentOnce(c) /\ reply.type = "payload" => reply.vm = c /\ effects'[c] = 1
    BY <1>1, SentOnceAnswer
  <2>3. SentOnce(c) => outcome[c].type # "ok"
    BY DEF SafetyInv, OneChanceInv, ToldInv
  <2>. QED
    BY <2>1, <2>2, <2>3 DEF ToldInv, SentOnce, Keyed, clientVars
<1>2. ASSUME NEW tx \in wire[c], NEW reply \in Replies, Unserved(c, tx, reply)
      PROVE  ToldInv'
  <2>1. /\ \A d \in Calls : d # c => inbox'[d] = inbox[d]
        /\ inbox'[c].type # "payload" /\ UNCHANGED <<req, effects>>
    BY <1>2 DEF Unserved, Deliver, TypeOK, ServerTypeOK
  <2>. QED
    BY <2>1 DEF ToldInv, SentOnce, Keyed, clientVars
<1>3. CASE OrphanRuns(c)
  <2>1. PICK tx \in orphans[c] : Perform(c, tx) /\ UNCHANGED <<req, inbox>>
    BY <1>3 DEF OrphanRuns
  <2>2. \A d \in Calls : d # c => effects'[d] = effects[d]
    BY <2>1, PerformEffect
  <2>3. SentOnce(c) => effects[c] = 0
    BY <2>1 DEF SafetyInv, OneChanceInv
  <2>. QED
    BY <2>1, <2>2, <2>3 DEF ToldInv, SentOnce, Keyed, clientVars
<1>. QED
  BY <1>1, <1>2, <1>3, ServerCases

LEMMA ToldSettle ==
    ASSUME TypeOK, ToldInv, NEW c \in Calls, NEW type, NEW reply, Settle(c, type, reply),
           type = "ok" => reply = inbox[c] /\ inbox[c].type = "payload"
    PROVE  ToldInv'
<1>1. /\ pc'[c] = "settled" /\ inbox'[c].type = "none"
      /\ outcome'[c] = [type |-> type, vm |-> reply.vm, code |-> reply.code]
      /\ \A d \in Calls : d # c =>
             pc'[d] = pc[d] /\ inbox'[d] = inbox[d] /\ outcome'[d] = outcome[d]
      /\ UNCHANGED <<req, effects>>
  BY DEF Settle, NoReply, Payload, TypeOK, ServerTypeOK
<1>. QED
  BY <1>1 DEF ToldInv, SentOnce, Keyed

LEMMA ToldClientStep ==
    ASSUME TypeOK, ToldInv, NEW c \in Calls, ClientNext(c)
    PROVE  ToldInv'
<1>1. CASE OnPayload(c)
  BY <1>1, ToldSettle DEF OnPayload
<1>2. ASSUME NEW type \in {"error", "transport", "unknown", "cancelled"}, NEW reply,
             Settle(c, type, reply)
      PROVE  ToldInv'
  BY <1>2, ToldSettle
<1>3. ASSUME pc[c] # "settled", UNCHANGED <<req, effects, outcome>>, pc'[c] # "settled",
             \A d \in Calls : d # c => pc'[d] = pc[d] /\ inbox'[d] = inbox[d],
             inbox'[c] \in {inbox[c], NoReply}
      PROVE  ToldInv'
  <2>1. NoReply.type # "payload"
    BY DEF NoReply, Payload
  <2>. QED
    BY <1>3, <2>1 DEF ToldInv, SentOnce, Keyed
<1>4. CASE Start(c) \/ Resend(c)
  BY <1>3, <1>4 DEF Start, Resend, Send, Transmit, TypeOK, ServerTypeOK
<1>5. ASSUME NEW reply, BackOff(c, reply), pc[c] = "sent"
      PROVE  ToldInv'
  BY <1>3, <1>5 DEF BackOff, TypeOK, ServerTypeOK
<1>6. CASE OnError(c) \/ OnSendFailure(c) \/ OnDrainFailure(c)
  BY <1>2, <1>5, <1>6 DEF OnError, OnSendFailure, OnDrainFailure
<1>7. CASE StopBackOff(c)
  BY <1>2, <1>7 DEF StopBackOff
<1>8. CASE Cancel(c)
  BY <1>8 DEF Cancel, serverVars, ToldInv, SentOnce, Keyed
<1>. QED
  BY <1>1, <1>4, <1>6, <1>7, <1>8 DEF ClientNext, HandleReply

(* Nobody is told anything before the end, and a write that is sent once   *)
(* is only told of what it made (Client.do).                               *)
THEOREM ToldCorrect == Spec => []ToldInv
<1>1. Init => ToldInv
  <2>. SUFFICES ASSUME Init PROVE ToldInv
    OBVIOUS
  <2>. QED
    BY DEF Init, ServerInit, ToldInv, Pending, NoReply, Payload
<1>2. TypeOK /\ SafetyInv /\ ToldInv /\ [Next]_vars => ToldInv'
  <2>. SUFFICES ASSUME TypeOK, SafetyInv, ToldInv, [Next]_vars
                PROVE  ToldInv'
    OBVIOUS
  <2>1. CASE UNCHANGED vars
    BY <2>1 DEF vars, serverVars, clientVars, ToldInv, SentOnce, Keyed
  <2>. QED
    BY <2>1, ToldServerStep, ToldClientStep DEF Next
<1>. QED
  BY <1>1, <1>2, Inductive, PTL DEF Spec

-----------------------------------------------------------------------------
(* On the calls it is safe for, GoRequest implements AtMostOnce.           *)

(* Calls ask for one abstract operation exactly if they share a key, and   *)
(* then the promise is made to all of them or to none.                     *)
LEMMA Operation ==
    ASSUME TypeOK
    PROVE  \A c, d \in Calls :
               /\ OperationOf(c) \in AllOperations
               /\ OperationOf(c) = OperationOf(d) <=> SameOperation(c, d)
               /\ SameOperation(c, d) => (Promised(c) <=> Promised(d))
<1>1. ASSUME NEW c \in Calls
      PROVE  OperationOf(c) \in AllOperations
  BY RequestTypes DEF OperationOf, AllOperations
<1>2. ASSUME NEW c \in Calls, NEW d \in Calls
      PROVE  OperationOf(c) = OperationOf(d) <=> SameOperation(c, d)
  BY DEF OperationOf, SameOperation, Keyed
<1>3. ASSUME NEW c \in Calls, NEW d \in Calls, SameOperation(c, d)
      PROVE  Promised(c) <=> Promised(d)
  BY <1>3 DEF SameOperation, Promised, Keyed
<1>. QED
  BY <1>1, <1>2, <1>3

LEMMA AtMostOne ==
    ASSUME TypeOK, SafetyInv, NEW c \in Calls, Promised(c)
    PROVE  effects[c] \in {0, 1}
<1>1. effects[c] \in Nat
  BY DEF TypeOK, ServerTypeOK
<1>2. CASE SentOnce(c)
  BY <1>1, <1>2 DEF SafetyInv, OneChanceInv
<1>3. CASE Keyed(c) /\ effects[c] > 0
  BY <1>3, RequestTypes DEF SafetyInv, LedgerInv
<1>. QED
  BY <1>1, <1>2, <1>3 DEF Promised

(* Counters that are 0 or 1 count one resource each.                       *)
LEMMA OneEach ==
    ASSUME NEW S \in SUBSET Calls, NEW f, \A d \in S : f[d] \in {0, 1}
    PROVE  UNION {{Resource(d, n) : n \in 1 .. f[d]} : d \in S}
               = {Resource(d, 1) : d \in {e \in S : f[e] = 1}}
<1>1. \A d \in S : {Resource(d, n) : n \in 1 .. f[d]}
                       = IF f[d] = 1 THEN {Resource(d, 1)} ELSE {}
  <2>. TAKE d \in S
  <2>1. CASE f[d] = 0
    <3>1. 1 .. f[d] = {}
      BY <2>1
    <3>. QED
      BY <2>1, <3>1
  <2>2. CASE f[d] = 1
    <3>1. 1 .. f[d] = {1}
      BY <2>2
    <3>. QED
      BY <2>2, <3>1
  <2>. QED
    BY <2>1, <2>2
<1>. QED
  BY <1>1

(* An operation made what the calls it is promised to made.                *)
LEMMA MadeMembers ==
    ASSUME NEW o, \A c \in Calls : Promised(c) => effects[c] \in {0, 1}
    PROVE  Made(o) = {Resource(d, 1) :
                          d \in {e \in Calls : Promised(e) /\ OperationOf(e) = o /\ effects[e] = 1}}
<1>1. {d \in Calls : Promised(d) /\ OperationOf(d) = o} \in SUBSET Calls
  OBVIOUS
<1>. QED
  BY <1>1, OneEach DEF Made

LEMMA InitRefines == Init => Abstract!Init
<1>. SUFFICES ASSUME Init PROVE Abstract!Init
  OBVIOUS
<1>1. TypeOK
  BY InitType
<1>2. \A c \in Calls : effects[c] = 0
  BY DEF Init, ServerInit
<1>3. \A o : Made(o) = {}
  BY <1>2, MadeMembers
<1>4. \A c \in Calls : OperationOf(c) \in AllOperations
  BY <1>1, Operation
<1>5. \A c \in Calls : AnswerOf(c) = [type |-> "open", vm |-> NoVm]
  BY DEF Init, AnswerOf, Pending
<1>. QED
  BY <1>3, <1>4, <1>5 DEF Abstract!Init, Abstract!Open

(* Steps that neither make anything nor tell a caller anything stutter.    *)
LEMMA Stutters ==
    ASSUME UNCHANGED <<req, effects, outcome>>
    PROVE  UNCHANGED Abstract!vars
<1>1. \A c \in Calls : OperationOf(c)' = OperationOf(c)
  BY DEF OperationOf, Keyed
<1>2. \A c \in Calls : AnswerOf(c)' = AnswerOf(c)
  BY DEF AnswerOf, Promised, SentOnce, Keyed
<1>3. \A o : Made(o)' = Made(o)
  BY <1>1 DEF Made, Promised, SentOnce, Keyed
<1>. QED
  BY <1>1, <1>2, <1>3 DEF Abstract!vars

(* Performing a request of a promised write makes the abstract operation   *)
(* happen, or stutters; that of any other call is not the operation's.     *)
LEMMA PerformRefines ==
    ASSUME TypeOK, SafetyInv, NEW c \in Calls, NEW tx \in wire[c] \cup orphans[c],
           Perform(c, tx), UNCHANGED <<req, outcome>>
    PROVE  [Abstract!Next]_(Abstract!vars)
<1>1. \A d \in Calls : /\ OperationOf(d)' = OperationOf(d)
                       /\ Promised(d)' = Promised(d)
                       /\ AnswerOf(d)' = AnswerOf(d)
  BY DEF OperationOf, AnswerOf, Promised, SentOnce, Keyed
<1>2. \A d \in Calls : d # c => effects'[d] = effects[d]
  BY PerformEffect
<1>3. \A o : Made(o) = {Resource(d, 1) :
                  d \in {e \in Calls : Promised(e) /\ OperationOf(e) = o /\ effects[e] = 1}}
  BY AtMostOne, MadeMembers
<1>4. \A o : Made(o)' = {Resource(d, 1) :
                  d \in {e \in Calls : Promised(e) /\ OperationOf(e) = o /\ effects'[e] = 1}}
  <2>1. \A d \in Calls : Promised(d) => effects'[d] \in {0, 1}
    <3>1. SentOnce(c) => effects[c] = 0
      BY DEF SafetyInv, OneChanceInv
    <3>2. Promised(c) => effects'[c] \in {0, 1}
      BY <3>1, AtMostOne, PerformEffect DEF Promised
    <3>. QED
      BY <1>2, <3>2, AtMostOne
  <2>2. \A o : {d \in Calls : Promised(d) /\ OperationOf(d) = o} \in SUBSET Calls
    OBVIOUS
  <2>. QED
    BY <1>1, <2>1, <2>2, OneEach DEF Made
<1>5. CASE ~Promised(c) \/ effects'[c] = effects[c]
  <2>1. \A o : Made(o)' = Made(o)
    BY <1>2, <1>3, <1>4, <1>5
  <2>. QED
    BY <1>1, <2>1 DEF Abstract!vars
<1>6. CASE Promised(c) /\ effects'[c] # effects[c]
  <2>1. effects[c] = 0 /\ effects'[c] = 1
    BY <1>6, PerformEffect DEF Promised, SentOnce, SafetyInv, OneChanceInv, TypeOK, ServerTypeOK
  <2>2. ASSUME NEW d \in Calls, SameOperation(c, d)
        PROVE  effects[d] # 1
    <3>1. CASE d # c
      <4>1. Keyed(c) /\ Keyed(d) /\ req[d].key = req[c].key
        BY <2>2, <3>1 DEF SameOperation, Keyed
      <4>2. ledger[req[c].key] = {}
        BY <1>6, <4>1, PerformEffect
      <4>. QED
        BY <4>1, <4>2 DEF SafetyInv, LedgerInv
    <3>. QED
      BY <2>1, <3>1
  <2>3. Made(OperationOf(c)) = {}
    BY <1>3, <2>2, Operation
  <2>4. Made(OperationOf(c))' = {Resource(c, 1)}
    <3>1. {e \in Calls : Promised(e) /\ OperationOf(e) = OperationOf(c) /\ effects'[e] = 1} = {c}
      BY <1>2, <1>6, <2>1, <2>2, Operation
    <3>2. Made(OperationOf(c))' = {Resource(d, 1) : d \in {c}}
      BY <1>1, <1>4, <3>1
    <3>. QED
      BY <3>2
  <2>5. \A o : o # OperationOf(c) => Made(o)' = Made(o)
    BY <1>2, <1>3, <1>4
  <2>6. AnswerOf(c).type # "refused"
    BY DEF AnswerOf
  <2>7. Abstract!Happen(c, Resource(c, 1))
    BY <1>1, <2>3, <2>4, <2>5, <2>6, Operation DEF Abstract!Happen
  <2>8. Resource(c, 1) \in Calls \X {1}
    BY DEF Resource
  <2>. QED
    BY <2>7, <2>8 DEF Abstract!Next
<1>. QED
  BY <1>5, <1>6

(* Telling a caller is an abstract answer, or nothing if nothing was       *)
(* promised to it.                                                         *)
LEMMA SettleRefines ==
    ASSUME TypeOK, SafetyInv, ToldInv, NEW c \in Calls, pc[c] # "settled", NEW reply,
           NEW type \in {"ok", "error", "transport", "unknown", "cancelled"},
           type = "ok" => reply = inbox[c] /\ inbox[c].type = "payload",
           Settle(c, type, reply)
    PROVE  [Abstract!Next]_(Abstract!vars)
<1>1. UNCHANGED <<req, effects>>
  BY DEF Settle
<1>2. /\ outcome[c] = Pending
      /\ outcome'[c] = [type |-> type, vm |-> reply.vm, code |-> reply.code]
      /\ \A d \in Calls : d # c => outcome'[d] = outcome[d]
  BY DEF Settle, ToldInv, TypeOK
<1>3. \A d \in Calls : OperationOf(d)' = OperationOf(d) /\ Promised(d)' = Promised(d)
  BY <1>1 DEF OperationOf, Promised, SentOnce, Keyed
<1>4. \A o : Made(o)' = Made(o)
  BY <1>1, <1>3 DEF Made
<1>5. \A d \in Calls : d # c => AnswerOf(d)' = AnswerOf(d)
  BY <1>2, <1>3 DEF AnswerOf
<1>6. AnswerOf(c) = [type |-> "open", vm |-> NoVm]
  BY <1>2 DEF AnswerOf, Pending
<1>7. ASSUME NEW a, AnswerOf(c)' = a
      PROVE  Abstract!Answer(c, a)
  BY <1>3, <1>4, <1>5, <1>6, <1>7 DEF Abstract!Answer, Abstract!Open
<1>8. CASE ~Promised(c)
  <2>1. AnswerOf(c)' = AnswerOf(c)
    BY <1>3, <1>6, <1>8 DEF AnswerOf
  <2>. QED
    BY <1>3, <1>4, <1>5, <2>1 DEF Abstract!vars
<1>9. CASE Promised(c) /\ type = "ok"
  <2>1. AnswerOf(c)' = [type |-> "ok", vm |-> Resource(inbox[c].vm, 1)]
    <3>1. outcome'[c].type = "ok" /\ outcome'[c].vm = inbox[c].vm
      BY <1>2, <1>9
    <3>. QED
      BY <1>3, <1>9, <3>1 DEF AnswerOf, Resource
  <2>2. /\ inbox[c].vm \in Calls /\ effects[inbox[c].vm] = 1
        /\ SameOperation(c, inbox[c].vm)
    <3>1. CASE SentOnce(c)
      BY <1>9, <3>1 DEF ToldInv, SameOperation
    <3>2. CASE Keyed(c)
      <4>1. PICK b \in ledger[req[c].key] : b.owner = inbox[c].vm
        BY <1>9, <3>2 DEF SafetyInv, AnswerInv, BoundTo
      <4>2. req[c].key \in Keys /\ b.owner \in Calls
        BY <3>2, <4>1, RequestTypes DEF TypeOK, ServerTypeOK, Bindings
      <4>. QED
        BY <3>2, <4>1, <4>2 DEF SafetyInv, LedgerInv, SameOperation
    <3>. QED
      BY <1>9, <3>1, <3>2 DEF Promised
  <2>3. Resource(inbox[c].vm, 1) \in Made(OperationOf(c))
    <3>1. OperationOf(inbox[c].vm) = OperationOf(c) /\ Promised(inbox[c].vm)
      BY <1>9, <2>2, Operation
    <3>. QED
      BY <2>2, <3>1, AtMostOne, MadeMembers
  <2>4. Abstract!Succeed(c)
    <3>1. Abstract!Answer(c, [type |-> "ok", vm |-> Resource(inbox[c].vm, 1)])
      BY <1>7, <2>1
    <3>. QED
      BY <2>3, <3>1, Operation DEF Abstract!Succeed
  <2>. QED
    BY <2>4 DEF Abstract!Next
<1>10. CASE Promised(c) /\ type # "ok"
  <2>1. AnswerOf(c)' = [type |-> "failed", vm |-> NoVm]
    BY <1>2, <1>3, <1>10 DEF AnswerOf
  <2>2. Abstract!Fail(c)
    BY <1>7, <2>1 DEF Abstract!Fail
  <2>. QED
    BY <2>2 DEF Abstract!Next
<1>. QED
  BY <1>8, <1>9, <1>10

LEMMA NextRefines ==
    ASSUME TypeOK, SafetyInv, ToldInv, [Next]_vars
    PROVE  [Abstract!Next]_(Abstract!vars)
<1>1. ASSUME NEW c \in Calls, HandleReply(c) \/ StopBackOff(c)
      PROVE  [Abstract!Next]_(Abstract!vars)
  <2>1. ASSUME NEW reply, BackOff(c, reply)
        PROVE  [Abstract!Next]_(Abstract!vars)
    BY <2>1, Stutters DEF BackOff
  <2>2. CASE OnPayload(c)
    BY <2>2, SettleRefines DEF OnPayload
  <2>3. ASSUME NEW type \in {"error", "transport", "unknown", "cancelled"}, NEW reply,
               pc[c] # "settled", Settle(c, type, reply)
        PROVE  [Abstract!Next]_(Abstract!vars)
    BY <2>3, SettleRefines
  <2>4. CASE OnError(c) \/ OnSendFailure(c) \/ OnDrainFailure(c)
    BY <2>1, <2>3, <2>4 DEF OnError, OnSendFailure, OnDrainFailure
  <2>5. CASE StopBackOff(c)
    BY <2>3, <2>5 DEF StopBackOff
  <2>. QED
    BY <1>1, <2>2, <2>4, <2>5 DEF HandleReply
<1>2. ASSUME NEW c \in Calls, Start(c) \/ Resend(c) \/ Cancel(c)
      PROVE  [Abstract!Next]_(Abstract!vars)
  BY <1>2, Stutters DEF Start, Resend, Cancel, serverVars
<1>3. ASSUME NEW c \in Calls, ServerNext(c), UNCHANGED clientVars
      PROVE  [Abstract!Next]_(Abstract!vars)
  <2>1. CASE Serve(c) \/ FailAfterStart(c) \/ OrphanRuns(c)
    BY <1>3, <2>1, PerformRefines DEF Serve, FailAfterStart, OrphanRuns, clientVars
  <2>2. CASE Refuse(c) \/ GatewayFails(c) \/ ConnectionFails(c)
    BY <1>3, <2>2, Stutters DEF Refuse, GatewayFails, ConnectionFails, Abandon, clientVars
  <2>. QED
    BY <1>3, <2>1, <2>2 DEF ServerNext
<1>4. CASE UNCHANGED vars
  BY <1>4, Stutters DEF vars, serverVars, clientVars
<1>. QED
  BY <1>1, <1>2, <1>3, <1>4 DEF Next, ClientNext

(* Client.do may replay after any transient answer and be ended at any     *)
(* moment, and yet the callers of writes that carry a key, or that are     *)
(* sent once only, see an operation that happens at most once and whose    *)
(* resource they are given.                                                *)
THEOREM Refinement == Spec => ImplementsAtMostOnce
<1>1. TypeOK /\ SafetyInv /\ ToldInv /\ [Next]_vars => [Abstract!Next]_(Abstract!vars)
  BY NextRefines
<1>. QED
  BY <1>1, InitRefines, Inductive, ToldCorrect, PTL
     DEF Spec, ImplementsAtMostOnce, Abstract!Spec
=============================================================================
