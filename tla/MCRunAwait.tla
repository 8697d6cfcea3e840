---------------------------- MODULE MCRunAwait ----------------------------
(***************************************************************************)
(* The calls of the TLC instances of RunAwait.                             *)
(***************************************************************************)
EXTENDS RunAwait

Call(client, timeout, skip) == [client |-> client, timeout |-> timeout, skip |-> skip]

\* The three clients, with and without a time limit, and calls that ask not
\* to wait.
EveryClient ==
    {Call(c, t, "no") : c \in {"typescript", "python", "go"}, t \in {0, 2}}
        \cup {Call("typescript", 0, s) : s \in {"zero", "alias"}}

\* A call that waits without a limit.
Unlimited == {Call("typescript", 0, "no")}
=============================================================================
