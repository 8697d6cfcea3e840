----------------------------- MODULE AtMostOnce -----------------------------
(***************************************************************************)
(* What the API clients promise about one effectful operation, whatever    *)
(* the network does: it happens at most once; a caller that is told "ok"   *)
(* gets the resource it made; a caller that is told "refused" knows that   *)
(* its call did nothing and never will.  A caller may also be told nothing *)
(* definite ("failed"), and the operation may then happen later.           *)
(***************************************************************************)
CONSTANTS
    Calls,       \* the calls made
    Operations,  \* what calls ask for; several calls may ask for one operation
    Resources,   \* resources an operation may create
    None         \* "no resource"

VARIABLES
    op,      \* op[c]: the operation call c asks for
    made,    \* made[o]: the resources operation o created
    answer   \* answer[c]: [type, vm], what the caller was told

vars == <<op, made, answer>>

Open == [type |-> "open", vm |-> None]

Init ==
    /\ op \in [Calls -> Operations]
    /\ made = [o \in Operations |-> {}]
    /\ answer = [c \in Calls |-> Open]

\* The operation happens, for a call that was not refused.
Happen(c, r) ==
    /\ answer[c].type # "refused"
    /\ made[op[c]] = {}
    /\ made' = [made EXCEPT ![op[c]] = {r}]
    /\ UNCHANGED <<op, answer>>

Answer(c, a) ==
    /\ answer[c] = Open
    /\ answer' = [answer EXCEPT ![c] = a]
    /\ UNCHANGED <<op, made>>

Succeed(c) == \E r \in made[op[c]] : Answer(c, [type |-> "ok", vm |-> r])

Fail(c) == Answer(c, [type |-> "failed", vm |-> None])

\* Only an operation that is the call's own can be refused for good: another
\* call may still perform a shared one.
Refused(c) ==
    /\ made[op[c]] = {}
    /\ \A d \in Calls : op[d] = op[c] => d = c
    /\ Answer(c, [type |-> "refused", vm |-> None])

Next ==
    \E c \in Calls :
        \/ \E r \in Resources : Happen(c, r)
        \/ Succeed(c)
        \/ Fail(c)
        \/ Refused(c)

Spec == Init /\ [][Next]_vars
=============================================================================
