----------------------------- MODULE RunServer -----------------------------
(***************************************************************************)
(* One run on the server, as the clients see it.  The server is not part   *)
(* of the repository; what is assumed of it is what openapi.json, the      *)
(* clients' comments and their tests' stubs say:                           *)
(*   - a run is pending while an earlier run holds its session or its      *)
(*     machine is suspended (RunState), and runs in between;               *)
(*   - timeout is the "maximum command runtime": time spent running counts *)
(*     and time spent pending does not;                                    *)
(*   - the status call may show less output than there is, and after a     *)
(*     failure or a cancellation output may be gone; a completed run shows *)
(*     all that is retained (typescript/tests/unit.ts:2299, 2337);         *)
(*   - output beyond the retention limit is replaced by a marker and the   *)
(*     last bytes (typescript/tests/unit.ts:2318).                         *)
(* stderr is handled exactly as stdout: one stream is modelled.            *)
(***************************************************************************)
EXTENDS Integers, Sequences

CONSTANTS
    Bytes,        \* what the command may write
    Mark,         \* what stands for the bytes the service dropped
    Retention,    \* how many bytes of a stream the service keeps
    MaxProduced   \* bound: the command writes at most this many bytes

ASSUME ServerAssumption ==
    /\ Mark \notin Bytes
    /\ Retention \in Nat
    /\ MaxProduced \in Nat

VARIABLES
    runState,   \* the run's RunState, "none" before it is accepted
    produced,   \* all the command has written
    exit,       \* its exit_code, as far as anything depends on it
    killLeft,   \* running time left until it is killed
    queued      \* history: it has been pending

serverVars == <<runState, produced, exit, killLeft, queued>>

Live == {"pending", "running"}
Ended == {"completed", "failed", "cancelled"}
RunStates == {"none"} \cup Live \cup Ended
Exits == {"null", "zero", "nonzero", "negative"}
Output == Seq(Bytes \cup {Mark})

ServerTypeOK ==
    /\ runState \in RunStates
    /\ produced \in Seq(Bytes)
    /\ exit \in Exits
    /\ killLeft \in Nat
    /\ queued \in BOOLEAN

ServerInit ==
    /\ runState = "none"
    /\ produced = <<>>
    /\ exit = "null"
    /\ killLeft = 0
    /\ queued = FALSE

Retained(s) ==
    IF Len(s) <= Retention THEN s
    ELSE <<Mark>> \o SubSeq(s, Len(s) - Retention + 1, Len(s))

\* What the status call may show as the run's output.
Shown ==
    IF runState = "completed" THEN {Retained(produced)}
    ELSE {Retained(SubSeq(produced, 1, n)) : n \in 0..Len(produced)}

Accept(timeout) ==
    /\ runState = "none"
    /\ runState' \in Live
    /\ queued' = (runState' = "pending")
    /\ killLeft' = timeout
    /\ UNCHANGED <<produced, exit>>

Begin ==
    /\ runState = "pending"
    /\ runState' = "running"
    /\ UNCHANGED <<produced, exit, killLeft, queued>>

Suspend ==
    /\ runState = "running"
    /\ runState' = "pending"
    /\ queued' = TRUE
    /\ UNCHANGED <<produced, exit, killLeft>>

Produce ==
    /\ runState = "running"
    /\ Len(produced) < MaxProduced
    /\ \E b \in Bytes : produced' = Append(produced, b)
    /\ UNCHANGED <<runState, exit, killLeft, queued>>

End(state, code) ==
    /\ runState' = state
    /\ exit' = code
    /\ UNCHANGED <<produced, killLeft, queued>>

\* exit_code is null when a prompt ended the run.
Complete ==
    /\ runState = "running"
    /\ \E code \in {"null", "zero", "nonzero"} : End("completed", code)

\* Killed at its time limit, or lost with its machine.
Fail ==
    /\ runState \in Live
    /\ \E code \in {"null", "negative"} : End("failed", code)

Cancel ==
    /\ runState \in Live
    /\ End("cancelled", "null")

\* The kill is prompt: a run with a limit does not run past it.
KillDue(timeout) == timeout > 0 /\ runState = "running" /\ killLeft = 0

RunTick(timeout) ==
    /\ ~KillDue(timeout)
    /\ killLeft' = IF runState = "running" /\ killLeft > 0
                   THEN killLeft - 1 ELSE killLeft
    /\ UNCHANGED <<runState, produced, exit, queued>>

ServerStep == Begin \/ Suspend \/ Produce \/ Complete \/ Fail \/ Cancel
=============================================================================
