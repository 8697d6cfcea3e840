---------------------------- MODULE MCGoRequest ----------------------------
(***************************************************************************)
(* Instances of GoRequest for TLC: which calls are made.                   *)
(***************************************************************************)
EXTENDS GoRequest

CONSTANTS k1, c1, c2

Read(n) == [kind |-> "read", key |-> NoKey, window |-> 0, attempts |-> n]
Write(k, n) == [kind |-> "write", key |-> k, window |-> 0, attempts |-> n]

\* The calls the Go client keeps its promises for: reads, keyed writes, and
\* unkeyed writes that are not retried.
SafeRequests == {Read(2), Write(k1, 2), Write(NoKey, 1)}

\* Fork with neither IdempotencyKey nor Idempotency.
DefaultFork == {Write(forkIdempotencyKey(NoKey, FALSE, k1), 2)}
=============================================================================
