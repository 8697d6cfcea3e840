------------------------------ MODULE RunAwait ------------------------------
(***************************************************************************)
(* VM.run of the three clients: it asks for a run, and when the server     *)
(* answers with a background acknowledgement it polls the run's status     *)
(* until the run has ended, the deadline has passed or the service has     *)
(* stopped answering, and hands the output to onOutput on the way          *)
(* (TypeScript only).  Time is counted in ticks.                           *)
(***************************************************************************)
EXTENDS RunServer

CONSTANTS
    Options,      \* the calls made: client, timeout, how the wait is skipped
    PollInitial,  \* RUN_POLL_INITIAL_MS
    PollMax,      \* RUN_POLL_MAX_MS
    MaxFailures,  \* RUN_POLL_MAX_CONSECUTIVE_FAILURES
    Margin,       \* RUN_POLL_MARGIN_MS
    MaxFlight     \* how old an answer may be when the client handles it

\* skip: nothing, time_to_background = 0, or its alias background = true.
OptionsType ==
    [client : {"typescript", "python", "go"}, timeout : Nat,
     skip : {"no", "zero", "alias"}]

ASSUME AwaitAssumption ==
    /\ Options \subseteq OptionsType
    /\ PollInitial \in Nat \ {0}
    /\ PollMax \in Nat
    /\ PollInitial <= PollMax
    /\ MaxFailures \in Nat \ {0}
    /\ Margin \in Nat
    /\ MaxFlight \in Nat

VARIABLES
    opts,       \* the call's options
    pc,         \* where run() is
    reply,      \* the answer on its way to the client
    delay,      \* the current back-off
    timer,      \* time left of it
    left,       \* time to the deadline, -1 once it is past
    failures,   \* consecutiveFailures
    cursor,     \* the output cursor
    delivered,  \* history: all bytes onOutput received
    late,       \* history: polls that ended after the deadline
    ctxDone,    \* Go: the caller's context has ended
    outcome     \* what run() returned

waitVars == <<delay, timer, left, failures, late>>
streamVars == <<cursor, delivered>>
clientVars == <<opts, pc, reply, waitVars, streamVars, ctxDone, outcome>>
vars == <<serverVars, clientVars>>

Replies ==
    [kind : {"none", "finished", "ack", "record"}, state : RunStates,
     exit : Exits, output : Output, age : 0..MaxFlight]
Outcomes ==
    [type : {"pending", "completed", "background", "error", "timeout", "unavailable", "cancelled"},
     state : RunStates, exit : Exits, output : Output]

TypeOK ==
    /\ ServerTypeOK
    /\ opts \in Options
    /\ pc \in {"idle", "requesting", "sleeping", "polling", "settled"}
    /\ reply \in Replies
    /\ delay \in 0..PollMax
    /\ timer \in 0..PollMax
    /\ left \in Nat \cup {-1}
    /\ failures \in Nat
    /\ cursor \in [emitted : Output, replaced : BOOLEAN]
    /\ delivered \in Output
    /\ late \in Nat
    /\ ctxDone \in BOOLEAN
    /\ outcome \in Outcomes

NoReply == [kind |-> "none", state |-> "none", exit |-> "null", output |-> <<>>, age |-> 0]

Outcome(type, state, code, output) ==
    [type |-> type, state |-> state, exit |-> code, output |-> output]
Without(type) == Outcome(type, "none", "null", <<>>)

Init ==
    /\ ServerInit
    /\ opts \in Options
    /\ pc = "idle"
    /\ reply = NoReply
    /\ delay = 0
    /\ timer = 0
    /\ left = 0
    /\ failures = 0
    /\ cursor = [emitted |-> <<>>, replaced |-> FALSE]
    /\ delivered = <<>>
    /\ late = 0
    /\ ctxDone = FALSE
    /\ outcome = Without("pending")
-----------------------------------------------------------------------------
HasOnOutput == opts.client = "typescript"

\* Mutants: a waiting run taken for an ended one, an ended one for a live one.
PendingIsTerminal == {"pending", "completed", "failed", "cancelled"}
CancelledIsLive == {"completed", "failed"}

TERMINAL_RUN_STATES == {"completed", "failed", "cancelled"}

\* Mutant: no slack beyond the kill bound.
BudgetWithoutMargin(timeout) == timeout

runPollBudget(timeout) == timeout + Margin

\* Python and Go wait before the first poll.
FirstDelay == IF opts.client = "typescript" THEN 0 ELSE PollInitial

\* Mutant: the back-off grows without its cap.
NextDelayUncapped(d) == IF d = 0 THEN PollInitial ELSE (3 * d + 1) \div 2

NextDelay(d) ==
    IF d = 0 THEN PollInitial
    ELSE LET grown == (3 * d + 1) \div 2 IN IF grown < PollMax THEN grown ELSE PollMax

\* Mutant: the deadline is noticed only when hit exactly.
OverdueExactly == opts.timeout > 0 /\ left = 0

\* The other clients compare with >=, Go with After.
Overdue ==
    /\ opts.timeout > 0
    /\ IF opts.client = "go" THEN left < 0 ELSE left <= 0

\* Mutant: one failure too many is borne.
TooManyFailuresLate(n) == n > MaxFailures

TooManyFailures(n) == n >= MaxFailures

\* Mutant: the state is taken as the server says it.
terminalRunStateAsSaid(state, code) == state

terminalRunState(state, code) == IF code = "negative" THEN "failed" ELSE state

\* TypeScript reads exit_code with numberField, the others let it be null.
AcceptsNullExit == opts.client # "typescript"

\* The exit code of a polled run; Go returns the record's own.
ExitOf(state, code) ==
    IF code = "null" /\ opts.client # "go"
    THEN IF state = "completed" THEN "zero" ELSE "nonzero"
    ELSE code

From(s, n) == SubSeq(s, n, Len(s))

\* Mutant: a status answer that lags behind passes for a truncated stream.
OutgrownByLag(emitted, current, completed) ==
    \/ Len(current) < Len(emitted)
    \/ \E i \in DOMAIN emitted \cap DOMAIN current : emitted[i] # current[i]

\* The condition under which the cursor is marked as replaced.
Outgrown(emitted, current, completed) ==
    \/ completed /\ Len(current) < Len(emitted)
    \/ \E i \in DOMAIN emitted \cap DOMAIN current : emitted[i] # current[i]

\* Mutant: the final snapshot of a replaced stream is cut at the cursor.
runOutputDeltaCut(cur, current, terminal, completed) ==
    LET replaced == cur.replaced \/ Outgrown(cur.emitted, current, completed)
        grown == Len(current) > Len(cur.emitted)
    IN [cursor |-> [emitted |-> IF grown /\ ~replaced THEN current ELSE cur.emitted,
                    replaced |-> replaced],
        chunk |-> IF grown /\ (~replaced \/ terminal)
                  THEN From(current, Len(cur.emitted) + 1) ELSE <<>>]

\* The cursor after a status answer and the bytes handed to onOutput.
runOutputDelta(cur, current, terminal, completed) ==
    LET replaced == cur.replaced \/ Outgrown(cur.emitted, current, completed)
        grown == ~replaced /\ Len(current) > Len(cur.emitted)
    IN [cursor |-> [emitted |-> IF grown THEN current ELSE cur.emitted,
                    replaced |-> replaced],
        chunk |-> IF replaced THEN IF terminal THEN current ELSE <<>>
                  ELSE IF grown THEN From(current, Len(cur.emitted) + 1) ELSE <<>>]
-----------------------------------------------------------------------------
Settle(o) ==
    /\ pc' = "settled"
    /\ outcome' = o

Request ==
    /\ pc = "idle"
    /\ pc' = "requesting"
    /\ UNCHANGED <<serverVars, opts, reply, waitVars, streamVars, ctxDone, outcome>>

AcceptRun ==
    /\ pc = "requesting"
    /\ Accept(opts.timeout)
    /\ UNCHANGED clientVars

\* The run ended inside the sync window.  The wire says "completed" or
\* "failed" when there is no process status, which terminalRunState settles;
\* a run that failed otherwise is answered with an error.
AnswerFinished ==
    /\ pc = "requesting"
    /\ reply = NoReply
    /\ runState \in Ended
    /\ runState = "failed" => exit = "negative"
    /\ \E state \in IF runState = "failed" THEN {"completed", "failed"} ELSE {runState},
          shown \in Shown :
         reply' = [kind |-> "finished", state |-> state, exit |-> exit, output |-> shown, age |-> 0]
    /\ UNCHANGED <<serverVars, opts, pc, waitVars, streamVars, ctxDone, outcome>>

AnswerBackground ==
    /\ pc = "requesting"
    /\ reply = NoReply
    /\ runState \in Live
    /\ reply' = [NoReply EXCEPT !.kind = "ack", !.state = runState]
    /\ UNCHANGED <<serverVars, opts, pc, waitVars, streamVars, ctxDone, outcome>>

\* The request loop gave up (RequestRetry, GoRequest).
RequestFails ==
    /\ pc = "requesting"
    /\ Settle(Without("error"))
    /\ reply' = NoReply
    /\ UNCHANGED <<serverVars, opts, waitVars, streamVars, ctxDone>>

OnFinished ==
    /\ pc = "requesting"
    /\ reply.kind = "finished"
    /\ reply' = NoReply
    /\ IF reply.exit = "null" /\ ~AcceptsNullExit
       THEN /\ Settle(Without("error"))
            /\ UNCHANGED delivered
       ELSE /\ Settle(Outcome("completed", terminalRunState(reply.state, reply.exit), reply.exit, reply.output))
            /\ delivered' = IF HasOnOutput THEN reply.output ELSE delivered
    /\ UNCHANGED <<serverVars, opts, waitVars, cursor, ctxDone>>

OnBackground ==
    /\ pc = "requesting"
    /\ reply.kind = "ack"
    /\ reply' = NoReply
    /\ IF opts.skip = "zero"
       THEN /\ Settle(Without("background"))
            /\ UNCHANGED <<delay, timer, left>>
       ELSE /\ pc' = "sleeping"
            /\ delay' = FirstDelay
            /\ timer' = FirstDelay
            /\ left' = runPollBudget(opts.timeout)
            /\ UNCHANGED outcome
    /\ UNCHANGED <<serverVars, opts, failures, late, streamVars, ctxDone>>
-----------------------------------------------------------------------------
Poll ==
    /\ pc = "sleeping"
    /\ timer = 0
    /\ pc' = "polling"
    /\ UNCHANGED <<serverVars, opts, reply, waitVars, streamVars, ctxDone, outcome>>

AnswerPoll ==
    /\ pc = "polling"
    /\ reply = NoReply
    /\ \E shown \in Shown :
         reply' = [kind |-> "record", state |-> runState, exit |-> exit, output |-> shown, age |-> 0]
    /\ UNCHANGED <<serverVars, opts, pc, waitVars, streamVars, ctxDone, outcome>>

\* The end of a pass through the loop.
SleepAgain ==
    /\ pc' = "sleeping"
    /\ delay' = NextDelay(delay)
    /\ timer' = NextDelay(delay)
    /\ UNCHANGED outcome

GiveUp(type) ==
    /\ Settle(Without(type))
    /\ UNCHANGED <<delay, timer>>

CountLate == late' = IF Overdue THEN late + 1 ELSE late

OnRecord ==
    /\ pc = "polling"
    /\ reply.kind = "record"
    /\ reply' = NoReply
    /\ failures' = 0
    /\ CountLate
    /\ LET terminal == reply.state \in TERMINAL_RUN_STATES
           delta == runOutputDelta(cursor, reply.output, terminal, reply.state = "completed")
       IN /\ IF HasOnOutput
             THEN /\ cursor' = delta.cursor
                  /\ delivered' = delivered \o delta.chunk
             ELSE UNCHANGED <<cursor, delivered>>
          /\ IF terminal
             THEN /\ Settle(Outcome("completed", reply.state, ExitOf(reply.state, reply.exit), reply.output))
                  /\ UNCHANGED <<delay, timer>>
             ELSE IF Overdue THEN GiveUp("timeout") ELSE SleepAgain
    /\ UNCHANGED <<serverVars, opts, left, ctxDone>>

\* Only Go looks at the deadline after a failed poll.
OnPollFailure ==
    /\ pc = "polling"
    /\ reply' = NoReply
    /\ failures' = failures + 1
    /\ CountLate
    /\ IF TooManyFailures(failures') THEN GiveUp("unavailable")
       ELSE IF opts.client = "go" /\ Overdue THEN GiveUp("timeout")
       ELSE SleepAgain
    /\ UNCHANGED <<serverVars, opts, left, streamVars, ctxDone>>

CancelContext ==
    /\ opts.client = "go"
    /\ pc \in {"requesting", "sleeping", "polling"}
    /\ ~ctxDone
    /\ ctxDone' = TRUE
    /\ UNCHANGED <<serverVars, opts, pc, reply, waitVars, streamVars, outcome>>

StopSleep ==
    /\ pc = "sleeping"
    /\ ctxDone
    /\ Settle(Without("cancelled"))
    /\ UNCHANGED <<serverVars, opts, reply, waitVars, streamVars, ctxDone>>

Tick ==
    /\ pc \in {"requesting", "sleeping", "polling"}
    /\ RunTick(opts.timeout)
    /\ reply.age < MaxFlight \/ reply.kind = "none"
    /\ reply' = IF reply.kind = "none" THEN reply ELSE [reply EXCEPT !.age = @ + 1]
    /\ timer' = IF timer > 0 THEN timer - 1 ELSE 0
    /\ left' = IF left >= 0 THEN left - 1 ELSE left
    /\ UNCHANGED <<opts, pc, delay, failures, late, streamVars, ctxDone, outcome>>

RunStep == ServerStep /\ UNCHANGED clientVars

Next ==
    \/ Request \/ AcceptRun \/ AnswerFinished \/ AnswerBackground \/ RequestFails
    \/ OnFinished \/ OnBackground
    \/ Poll \/ AnswerPoll \/ OnRecord \/ OnPollFailure
    \/ CancelContext \/ StopSleep
    \/ Tick \/ RunStep

Spec == Init /\ [][Next]_vars

\* The client's process runs, a timer that is due fires, every request ends
\* (if only by the transport's own timeout), time passes and a kill that is
\* due happens.  The server need not answer, and a run need not end.
Fairness ==
    /\ WF_vars(Request)
    /\ WF_vars(RequestFails \/ OnFinished \/ OnBackground)
    /\ WF_vars(Poll)
    /\ WF_vars(OnRecord \/ OnPollFailure)
    /\ WF_vars(KillDue(opts.timeout) /\ RunStep)
    /\ SF_vars(Tick)

FairSpec == Spec /\ Fairness
-----------------------------------------------------------------------------
BeginsWith(s, t) == Len(t) <= Len(s) /\ SubSeq(s, 1, Len(t)) = t

\* onOutput and the result agree (index.ts:389-396, 1219-1231): until the
\* stream is named in `replaced`, the chunks add up to what was seen; when
\* the run ends they add up to the result's output, preceded, if the stream
\* was replaced, by what had been delivered before.  A failed or cancelled
\* run may end with less output than was delivered.
StreamMatchesResult ==
    /\ pc \in {"sleeping", "polling"} => delivered = cursor.emitted
    /\ outcome.type = "completed" /\ HasOnOutput =>
         IF cursor.replaced THEN delivered = cursor.emitted \o outcome.output
         ELSE /\ BeginsWith(delivered, outcome.output)
              /\ outcome.state = "completed" => delivered = outcome.output

\* "Receives each stdout and stderr byte once" (index.ts:390): as long as the
\* service retains everything, nothing is announced as replaced, no byte is
\* delivered twice or out of order however much the status answers lag, and
\* a completed run delivers all of them.
EveryByteOnce ==
    Len(produced) <= Retention /\ HasOnOutput =>
        /\ ~cursor.replaced
        /\ BeginsWith(produced, delivered)
        /\ outcome.type = "completed" /\ outcome.state = "completed" => delivered = produced

\* A result tells how the run ended (TERMINAL_RUN_STATES, terminalRunState,
\* runToCompletedResult): a run that waits, runs, failed or was cancelled is
\* never returned as completed, and no exit code is invented but the one for
\* an ended run without any.
ResultIsTheRuns ==
    outcome.type = "completed" =>
        /\ outcome.state = runState /\ runState \in Ended
        /\ exit # "null" => outcome.exit = exit
        /\ outcome.exit = "zero" => runState = "completed"

\* The margin does its work (index.ts:1189, run-poll.ts): the wait is given up
\* with "timeout" only if there was a time limit, and, if answers travel for
\* less than the margin, only if the run had to wait before or while it ran.
\* (Go gives up after a failed poll too, without knowing the state.)
KillIsReported ==
    outcome.type = "timeout" =>
        /\ opts.timeout > 0
        /\ MaxFlight < Margin /\ opts.client # "go" => queued

\* Past its deadline a Go call ends with the poll it is in, and the others
\* before one more round of consecutive failures is complete: failed polls do
\* not look at the deadline, answered ones do (index.ts:1206-1236).
OvershootIsBounded ==
    late <= IF opts.client = "go" THEN 1 ELSE MaxFailures

Waiting == pc \in {"sleeping", "polling"}

\* What each point of run() has done so far.
PhaseInv ==
    /\ (outcome.type = "pending") <=> (pc # "settled")
    /\ pc \in {"idle", "requesting"} => late = 0 /\ failures = 0 /\ cursor.emitted = <<>> /\ ~cursor.replaced
    /\ pc # "settled" => failures < MaxFailures /\ delivered = cursor.emitted
    /\ reply.kind \in {"finished", "ack"} => pc = "requesting"
    /\ reply.kind = "record" => pc = "polling"
    /\ reply.kind = "ack" \/ Waiting => runState # "none"

\* How a run's state and exit code go together.
RunInv ==
    /\ exit # "null" => runState \in Ended
    /\ exit \in {"zero", "nonzero"} => runState = "completed"
    /\ exit = "negative" => runState = "failed"
    /\ runState = "pending" => queued

\* An answer that says the run has ended stays true while it travels.
AnswerInv ==
    /\ reply.kind = "finished" =>
         /\ runState \in Ended
         /\ reply.exit = exit
         /\ terminalRunState(reply.state, reply.exit) = runState
    /\ reply.kind = "record" /\ reply.state \in Ended =>
         /\ reply.exit = exit
         /\ reply.state = runState

\* A run that never waited is killed a margin before the deadline, and an
\* answer that says it is running was read before that.
DeadlineInv ==
    /\ killLeft <= opts.timeout
    /\ opts.timeout > 0 /\ ~queued /\ Waiting =>
         /\ runState = "running" => left >= killLeft + Margin
         /\ reply.kind = "record" /\ reply.state \notin Ended => left + reply.age >= Margin

\* Nothing was late before the deadline, and since then every poll failed.
LateInv ==
    /\ late > 0 => Overdue
    /\ pc # "settled" => late <= IF opts.client = "go" THEN 0 ELSE failures

\* The inductive invariant of RunAwaitProofs.
AwaitInv ==
    PhaseInv /\ RunInv /\ AnswerInv /\ DeadlineInv /\ LateInv
        /\ StreamMatchesResult /\ ResultIsTheRuns /\ KillIsReported /\ OvershootIsBounded

\* While the service retains everything, answers and deliveries are
\* beginnings of what was written, and an answer that says the run is
\* completed shows all of it.  With EveryByteOnce this is inductive under
\* AwaitInv.
RetainedInv ==
    Len(produced) <= Retention =>
        /\ reply.kind \in {"finished", "record"} =>
             /\ BeginsWith(produced, reply.output)
             /\ runState = "completed" /\ reply.state = "completed" => reply.output = produced
        /\ HasOnOutput => BeginsWith(produced, cursor.emitted)

\* A call with a time limit comes to an end, whatever the run does and
\* whether or not the service answers.
BoundedWaitEnds == opts.timeout > 0 ~> pc = "settled"

\* A call without a limit ends once its run has ended.
EndedRunIsReported == (pc # "idle" /\ runState \in Ended) ~> pc = "settled"
-----------------------------------------------------------------------------
(* What the documentation says and the code does not do. *)

\* "`null` when `state` is `cancelled`.  Otherwise `null` means a prompt ended
\* the run" (openapi.json:5915): a run that ended inside the sync window is
\* returned, whatever its exit_code.  False in TypeScript when it is null.
FinishedRunIsReturned == [][OnFinished => outcome'.type = "completed"]_vars
=============================================================================
