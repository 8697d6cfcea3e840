--------------------------- MODULE MCRequestRetry ---------------------------
(***************************************************************************)
(* Instances of RequestRetry for TLC: which calls are made.                *)
(***************************************************************************)
EXTENDS RequestRetry

CONSTANTS k1, c1, c2

Read(n) == [kind |-> "read", key |-> NoKey, window |-> 0, attempts |-> n]
Write(k, w, n) == [kind |-> "write", key |-> k, window |-> w, attempts |-> n]

\* Stands for a call that is not made.
Nobody == Read(1)

KeyedWrite == Write(k1, 0, 2)
Queueing == Write(k1, 2, 2)
QueueingOnce == Write(k1, 2, 1)
DefaultFork == Write(forkIdempotencyKey(NoKey, FALSE, k1), 0, 2)

\* The writes that c1 and c2 make together: of one operation, with equal and with
\* different bodies, and of two.
Pairs ==
    {<<KeyedWrite, KeyedWrite>>, <<Queueing, KeyedWrite>>, <<QueueingOnce, KeyedWrite>>,
     <<DefaultFork, KeyedWrite>>}

\* Every kind of call, alone: the whole retry budget.
SoloRequests ==
    {Read(3), Write(NoKey, 0, 3), Write(k1, 0, 3), Write(NoKey, 2, 2),
     Write(k1, 2, 2), Write(k1, 2, 1), Write(NoKey, 0, 1)}

EveryRequest ==
    {KeyedWrite, Queueing, QueueingOnce, DefaultFork} \cup SoloRequests \cup {Nobody}

\* Either c1 is the one call that is made, or both make a write.
Alone == req[c2] = Nobody

MCInit ==
    /\ Init
    /\ \/ Alone /\ req[c1] \in SoloRequests
       \/ <<req[c1], req[c2]>> \in Pairs

\* Two writes get no hints, sleep a second on timers that are in time, and do
\* nothing in the middle of a second.
MidSecond ==
    \E c \in Calls :
        pc[c] \in {"sent", "backoff"} /\ (left[c] % TicksPerSec # 0 \/ sleep[c] % TicksPerSec # 0)

Punctual ==
    /\ MidSecond => Tick
    /\ \A c \in Calls :
           /\ inbox'[c].hint = NoHint
           /\ pc[c] = "sent" /\ pc'[c] = "backoff" => sleep'[c] = TicksPerSec
           /\ pc'[c] = "backoff" => sleep'[c] >= 0

\* A caller need not start a call: these are behaviours of RequestRetry.
MCNext == Next /\ (IF Alone THEN pc'[c2] = "idle" ELSE Punctual)

MCSpec == MCInit /\ [][MCNext]_vars /\ Fairness
=============================================================================
