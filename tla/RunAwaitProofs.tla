-------------------------- MODULE RunAwaitProofs --------------------------
(***************************************************************************)
(* Proofs about RunAwait for any calls, time limits, back-offs, margins,   *)
(* retention limits and outputs: type correctness, and from the inductive  *)
(* invariant AwaitInv what a caller is told and what onOutput receives.    *)
(***************************************************************************)
EXTENDS RunAwait, SequenceTheorems, TLAPS

(* A prefix or a suffix of a sequence is a sequence.                       *)
LEMMA CutType ==
    ASSUME NEW S, NEW s \in Seq(S), NEW m \in Int, NEW n \in Int, 1 <= m, n <= Len(s)
    PROVE  /\ SubSeq(s, m, n) \in Seq(S)
           /\ Len(SubSeq(s, m, n)) = IF m <= n THEN n - m + 1 ELSE 0
           /\ \A i \in 1..(n - m + 1) : SubSeq(s, m, n)[i] = s[m + i - 1]
<1>1. Len(s) \in Nat
  BY LenProperties
<1>2. \A i \in m..n : i \in 1..Len(s)
  BY <1>1
<1>3. \A i \in m..n : s[i] \in S
  BY <1>2, ElementOfSeq
<1>. QED
  BY <1>3, SubSeqProperties

LEMMA RetainedType ==
    ASSUME NEW s \in Seq(Bytes)
    PROVE  Retained(s) \in Output
<1>. DEFINE B == Bytes \cup {Mark}
<1>1. s \in Seq(B)
  BY SeqMonotonic
<1>2. CASE Len(s) <= Retention
  BY <1>1, <1>2 DEF Retained, Output
<1>3. CASE ~(Len(s) <= Retention)
  <2>1. Len(s) \in Nat /\ Retention \in Nat
    BY LenProperties, ServerAssumption
  <2>2. SubSeq(s, Len(s) - Retention + 1, Len(s)) \in Seq(B)
    <3>1. 1 <= Len(s) - Retention + 1 /\ Len(s) - Retention + 1 \in Int
      BY <1>3, <2>1
    <3>. QED
      BY <1>1, <2>1, <3>1, CutType
  <2>3. <<Mark>> \in Seq(B)
    OBVIOUS
  <2>. QED
    BY <1>3, <2>2, <2>3, ConcatProperties DEF Retained, Output
<1>. QED
  BY <1>2, <1>3

LEMMA ShownType ==
    ASSUME produced \in Seq(Bytes), NEW shown \in Shown
    PROVE  shown \in Output
<1>1. Len(produced) \in Nat
  BY LenProperties
<1>2. ASSUME NEW n \in 0..Len(produced)
      PROVE  SubSeq(produced, 1, n) \in Seq(Bytes)
  BY <1>1, CutType
<1>. QED
  BY <1>2, RetainedType DEF Shown

LEMMA DelayType ==
    ASSUME NEW d \in 0..PollMax
    PROVE  NextDelay(d) \in 0..PollMax
<1>1. (3 * d + 1) \div 2 \in Nat
  BY AwaitAssumption
<1>. QED
  BY <1>1, AwaitAssumption DEF NextDelay

(* What the cursor and the chunk are made of.                              *)
LEMMA DeltaType ==
    ASSUME NEW cur \in [emitted : Output, replaced : BOOLEAN], NEW current \in Output,
           NEW terminal \in BOOLEAN, NEW completed \in BOOLEAN
    PROVE  /\ runOutputDelta(cur, current, terminal, completed).cursor
                  \in [emitted : Output, replaced : BOOLEAN]
           /\ runOutputDelta(cur, current, terminal, completed).chunk \in Output
<1>1. Len(cur.emitted) \in Nat /\ Len(current) \in Nat
  BY LenProperties DEF Output
<1>2. From(current, Len(cur.emitted) + 1) \in Output
  BY <1>1, CutType DEF From, Output
<1>3. <<>> \in Output
  BY EmptySeq DEF Output
<1>. DEFINE R == cur.replaced \/ Outgrown(cur.emitted, current, completed)
            G == ~R /\ Len(current) > Len(cur.emitted)
            E == IF G THEN current ELSE cur.emitted
            C == IF R THEN IF terminal THEN current ELSE <<>>
                 ELSE IF G THEN From(current, Len(cur.emitted) + 1) ELSE <<>>
<1>4. runOutputDelta(cur, current, terminal, completed)
          = [cursor |-> [emitted |-> E, replaced |-> R], chunk |-> C]
  BY DEF runOutputDelta
<1>5. R \in BOOLEAN
  BY DEF Outgrown
<1>6. E \in Output /\ C \in Output
  BY <1>2, <1>3
<1>. HIDE DEF R, E, C
<1>7. [emitted |-> E, replaced |-> R] \in [emitted : Output, replaced : BOOLEAN]
  BY <1>5, <1>6
<1>. QED
  BY <1>4, <1>6, <1>7

LEMMA NoReplyType == NoReply \in Replies
  BY AwaitAssumption, EmptySeq DEF NoReply, Replies, Output, RunStates, Exits

LEMMA WithoutType ==
    ASSUME NEW type \in {"pending", "background", "error", "timeout", "unavailable", "cancelled"}
    PROVE  Without(type) \in Outcomes
  BY EmptySeq DEF Without, Outcome, Outcomes, Output, RunStates, Exits

LEMMA InitType == Init => TypeOK
<1>. SUFFICES ASSUME Init PROVE TypeOK
  OBVIOUS
<1>1. ServerTypeOK
  BY EmptySeq DEF Init, ServerInit, ServerTypeOK, RunStates, Exits
<1>2. [emitted |-> <<>>, replaced |-> FALSE] \in [emitted : Output, replaced : BOOLEAN] /\ <<>> \in Output
  BY EmptySeq DEF Output
<1>3. 0 \in 0..PollMax
  BY AwaitAssumption
<1>. QED
  BY <1>1, <1>2, <1>3, NoReplyType, WithoutType DEF Init, TypeOK

(* Nothing a step of the server does leaves the types.                     *)
LEMMA ServerTypes ==
    ASSUME ServerTypeOK, opts \in Options,
           ServerStep \/ Accept(opts.timeout) \/ RunTick(opts.timeout) \/ UNCHANGED serverVars
    PROVE  ServerTypeOK'
<1>. USE DEF ServerTypeOK, RunStates, Live, Ended, Exits
<1>1. opts.timeout \in Nat
  BY AwaitAssumption DEF OptionsType
<1>2. CASE Produce
  BY <1>2, AppendProperties DEF Produce
<1>3. CASE RunTick(opts.timeout)
  BY <1>3 DEF RunTick
<1>4. CASE Accept(opts.timeout)
  BY <1>1, <1>4 DEF Accept
<1>5. CASE UNCHANGED serverVars
  BY <1>5 DEF serverVars
<1>6. CASE Begin \/ Suspend
  BY <1>6 DEF Begin, Suspend
<1>7. CASE Complete \/ Fail \/ Cancel
  BY <1>7 DEF Complete, Fail, Cancel, End
<1>. QED
  BY <1>2, <1>3, <1>4, <1>5, <1>6, <1>7 DEF ServerStep

(* Each action keeps the types.                                            *)
LEMMA TypeStep ==
    ASSUME TypeOK, [Next]_vars
    PROVE  TypeOK'
<1>. USE DEF vars, clientVars, waitVars, streamVars, TypeOK
<1>. opts.timeout \in Nat /\ PollMax \in Nat /\ MaxFlight \in Nat /\ PollInitial \in 0..PollMax
  BY AwaitAssumption DEF OptionsType
<1>0. opts' = opts
  BY DEF Next, Request, AcceptRun, AnswerFinished, AnswerBackground, RequestFails, OnFinished, OnBackground,
         Poll, AnswerPoll, OnRecord, OnPollFailure, CancelContext, StopSleep, Tick, RunStep
<1>1. CASE UNCHANGED vars
  BY <1>1, ServerTypes
<1>2. CASE Request
  BY <1>2, ServerTypes DEF Request
<1>3. CASE AcceptRun
  BY <1>3, ServerTypes DEF AcceptRun
<1>4. CASE AnswerFinished
  <2>1. PICK state \in RunStates, shown \in Shown :
            reply' = [kind |-> "finished", state |-> state, exit |-> exit, output |-> shown, age |-> 0]
    BY <1>4 DEF AnswerFinished, ServerTypeOK, RunStates, Ended
  <2>2. reply' \in Replies
    BY <2>1, ShownType DEF ServerTypeOK, Replies
  <2>. QED
    BY <1>4, <2>2, ServerTypes DEF AnswerFinished
<1>5. CASE AnswerBackground
  <2>1. reply' \in Replies
    BY <1>5, NoReplyType DEF AnswerBackground, Replies, ServerTypeOK
  <2>. QED
    BY <1>5, <2>1, ServerTypes DEF AnswerBackground
<1>6. CASE RequestFails
  BY <1>6, ServerTypes, NoReplyType, WithoutType DEF RequestFails, Settle
<1>7. CASE OnFinished
  <2>1. Outcome("completed", terminalRunState(reply.state, reply.exit), reply.exit, reply.output) \in Outcomes
    BY DEF Outcome, Outcomes, terminalRunState, Replies, RunStates, Ended
  <2>2. outcome' \in Outcomes /\ pc' = "settled" /\ delivered' \in Output
    BY <1>7, <2>1, WithoutType DEF OnFinished, Settle, Replies
  <2>. QED
    BY <1>7, <2>2, ServerTypes, NoReplyType DEF OnFinished
<1>8. CASE OnBackground
  <2>1. FirstDelay \in 0..PollMax /\ runPollBudget(opts.timeout) \in Nat
    BY AwaitAssumption DEF FirstDelay, runPollBudget
  <2>2. outcome' \in Outcomes /\ pc' \in {"settled", "sleeping"} /\ delay' \in 0..PollMax
            /\ timer' \in 0..PollMax /\ left' \in Nat \cup {-1}
    BY <1>8, <2>1, WithoutType DEF OnBackground, Settle
  <2>. QED
    BY <1>8, <2>2, ServerTypes, NoReplyType DEF OnBackground
<1>9. CASE Poll
  BY <1>9, ServerTypes DEF Poll
<1>10. CASE AnswerPoll
  <2>1. PICK shown \in Shown :
            reply' = [kind |-> "record", state |-> runState, exit |-> exit, output |-> shown, age |-> 0]
    BY <1>10 DEF AnswerPoll
  <2>2. reply' \in Replies
    BY <2>1, ShownType DEF ServerTypeOK, Replies
  <2>. QED
    BY <1>10, <2>2, ServerTypes DEF AnswerPoll
<1>11. CASE OnRecord
  <2>. DEFINE terminal == reply.state \in TERMINAL_RUN_STATES
              delta == runOutputDelta(cursor, reply.output, terminal, reply.state = "completed")
  <2>1. delta.cursor \in [emitted : Output, replaced : BOOLEAN] /\ delta.chunk \in Output
    <3>1. reply.output \in Output /\ terminal \in BOOLEAN /\ (reply.state = "completed") \in BOOLEAN
      BY DEF Replies
    <3>. HIDE DEF terminal
    <3>. QED
      BY <3>1, DeltaType
  <2>2. cursor' \in [emitted : Output, replaced : BOOLEAN]
    BY <1>11, <2>1 DEF OnRecord
  <2>3. delivered' \in Output
    <3>1. delivered' = delivered \o delta.chunk \/ delivered' = delivered
      BY <1>11 DEF OnRecord
    <3>2. delivered \o delta.chunk \in Output
      <4>. HIDE DEF delta
      <4>. QED
        BY <2>1, ConcatProperties DEF Output
    <3>. QED
      BY <3>1, <3>2
  <2>4. Outcome("completed", reply.state, ExitOf(reply.state, reply.exit), reply.output) \in Outcomes
    BY DEF Outcome, Outcomes, ExitOf, Replies, Exits
  <2>5. outcome' \in Outcomes /\ pc' \in {"settled", "sleeping"} /\ delay' \in 0..PollMax /\ timer' \in 0..PollMax
    BY <1>11, <2>4, WithoutType, DelayType DEF OnRecord, Settle, GiveUp, SleepAgain
  <2>6. late' \in Nat /\ failures' \in Nat /\ reply' \in Replies
    BY <1>11, NoReplyType DEF OnRecord, CountLate
  <2>. QED
    BY <1>11, <2>2, <2>3, <2>5, <2>6, ServerTypes DEF OnRecord
<1>12. CASE OnPollFailure
  <2>1. outcome' \in Outcomes /\ pc' \in {"settled", "sleeping"} /\ delay' \in 0..PollMax /\ timer' \in 0..PollMax
    BY <1>12, WithoutType, DelayType DEF OnPollFailure, Settle, GiveUp, SleepAgain
  <2>2. late' \in Nat /\ failures' \in Nat /\ reply' \in Replies
    BY <1>12, NoReplyType DEF OnPollFailure, CountLate
  <2>. QED
    BY <1>12, <2>1, <2>2, ServerTypes DEF OnPollFailure
<1>13. CASE CancelContext
  BY <1>13, ServerTypes DEF CancelContext
<1>14. CASE StopSleep
  BY <1>14, ServerTypes, WithoutType DEF StopSleep, Settle
<1>15. CASE Tick
  <2>1. reply' \in Replies
    BY <1>15 DEF Tick, Replies
  <2>2. timer' \in 0..PollMax /\ left' \in Nat \cup {-1}
    BY <1>15 DEF Tick
  <2>. QED
    BY <1>15, <2>1, <2>2, ServerTypes DEF Tick
<1>16. CASE RunStep
  BY <1>16, ServerTypes DEF RunStep
<1>. QED
  BY <1>1, <1>2, <1>3, <1>4, <1>5, <1>6, <1>7, <1>8, <1>9, <1>10, <1>11, <1>12, <1>13, <1>14, <1>15, <1>16
     DEF Next

(* Every variable keeps its type: timers and answers stay within their     *)
(* bounds, what is delivered is a sequence of bytes and markers.           *)
THEOREM TypeCorrect == Spec => []TypeOK
<1>1. Init => TypeOK
  BY InitType
<1>2. TypeOK /\ [Next]_vars => TypeOK'
  BY TypeStep
<1>. QED
  BY <1>1, <1>2, PTL DEF Spec
-----------------------------------------------------------------------------
(* A sequence that agrees with the beginning of another one is extended to *)
(* it by the rest.                                                         *)
LEMMA Rest ==
    ASSUME NEW e \in Output, NEW t \in Output, Len(e) <= Len(t),
           \A i \in DOMAIN e \cap DOMAIN t : e[i] = t[i]
    PROVE  /\ BeginsWith(t, e)
           /\ e \o From(t, Len(e) + 1) = t
<1>. USE DEF Output
<1>1. Len(e) \in Nat /\ Len(t) \in Nat /\ DOMAIN e = 1..Len(e) /\ DOMAIN t = 1..Len(t)
  BY LenProperties
<1>2. SubSeq(t, 1, Len(e)) = e
  <2>1. /\ SubSeq(t, 1, Len(e)) \in Seq(Bytes \cup {Mark})
        /\ Len(SubSeq(t, 1, Len(e))) = IF 1 <= Len(e) THEN Len(e) - 1 + 1 ELSE 0
        /\ \A i \in 1..(Len(e) - 1 + 1) : SubSeq(t, 1, Len(e))[i] = t[1 + i - 1]
    BY <1>1, CutType
  <2>2. Len(SubSeq(t, 1, Len(e))) = Len(e)
    BY <1>1, <2>1
  <2>3. \A i \in 1..Len(e) : SubSeq(t, 1, Len(e))[i] = e[i]
    BY <1>1, <2>1
  <2>. QED
    BY <2>1, <2>2, <2>3, SeqEqual
<1>3. SubSeq(t, 1, Len(e)) \o SubSeq(t, Len(e) + 1, Len(t)) = SubSeq(t, 1, Len(t))
  <2>1. 1 \in 1..Len(t) + 1 /\ Len(e) \in (1 - 1)..Len(t) /\ Len(t) \in Len(e)..Len(t)
    BY <1>1
  <2>. QED
    BY <2>1, ConcatAdjacentSubSeq
<1>4. SubSeq(t, 1, Len(t)) = t
  BY SubSeqFull
<1>. QED
  BY <1>2, <1>3, <1>4 DEF BeginsWith, From

(* What a status answer does to the stream: either the chunk continues     *)
(* what was delivered up to what is now known, or the stream counts as     *)
(* replaced and the final snapshot comes whole.                            *)
LEMMA RecordMeaning ==
    ASSUME TypeOK, OnRecord, HasOnOutput, delivered = cursor.emitted
    PROVE  /\ cursor'.emitted \in {cursor.emitted, reply.output}
           /\ cursor'.replaced = (cursor.replaced
                                  \/ Outgrown(cursor.emitted, reply.output, reply.state = "completed"))
           /\ cursor'.replaced =>
                 /\ cursor'.emitted = cursor.emitted
                 /\ delivered' = IF reply.state \in TERMINAL_RUN_STATES
                                 THEN cursor.emitted \o reply.output ELSE cursor.emitted
           /\ ~cursor'.replaced =>
                 /\ delivered' = cursor'.emitted
                 /\ BeginsWith(cursor'.emitted, reply.output)
                 /\ reply.state = "completed" => cursor'.emitted = reply.output
<1>. DEFINE e == cursor.emitted
            current == reply.output
            terminal == reply.state \in TERMINAL_RUN_STATES
            completed == reply.state = "completed"
            R == cursor.replaced \/ Outgrown(e, current, completed)
            G == ~R /\ Len(current) > Len(e)
            chunk == IF R THEN IF terminal THEN current ELSE <<>>
                     ELSE IF G THEN From(current, Len(e) + 1) ELSE <<>>
<1>0. e \in Output /\ current \in Output
  BY DEF TypeOK, Replies
<1>1. Len(e) \in Nat /\ Len(current) \in Nat
  BY <1>0, LenProperties DEF Output
<1>2. /\ cursor'.emitted = IF G THEN current ELSE e
      /\ cursor'.replaced = R
      /\ delivered' = e \o chunk
  <2>. DEFINE d == runOutputDelta(cursor, current, terminal, completed)
  <2>1. cursor' = d.cursor /\ delivered' = e \o d.chunk
    BY DEF OnRecord
  <2>2. d = [cursor |-> [emitted |-> IF G THEN current ELSE e, replaced |-> R], chunk |-> chunk]
    BY DEF runOutputDelta
  <2>. HIDE DEF d, R, chunk
  <2>. QED
    BY <2>1, <2>2
<1>5. e \o <<>> = e
  BY <1>0, ConcatEmptySeq DEF Output
<1>3. CASE R
  BY <1>2, <1>3, <1>5
<1>4. CASE ~R
  <2>1. /\ completed => Len(current) >= Len(e)
        /\ \A i \in DOMAIN e \cap DOMAIN current : e[i] = current[i]
    BY <1>1, <1>4 DEF Outgrown
  <2>2. CASE Len(current) > Len(e)
    <3>1. cursor'.emitted = current /\ chunk = From(current, Len(e) + 1) /\ ~cursor'.replaced
      BY <1>2, <1>4, <2>2
    <3>2. e \o From(current, Len(e) + 1) = current
      <4>1. Len(e) <= Len(current)
        BY <1>1, <2>2
      <4>. HIDE DEF e
      <4>. QED
        BY <1>0, <2>1, <4>1, Rest
    <3>3. BeginsWith(current, current)
      BY <1>0, <1>1, Rest
    <3>. QED
      BY <1>2, <3>1, <3>2, <3>3
  <2>3. CASE ~(Len(current) > Len(e))
    <3>1. cursor'.emitted = e /\ chunk = <<>> /\ ~cursor'.replaced
      BY <1>2, <1>4, <2>3
    <3>2. BeginsWith(e, current)
      BY <1>0, <1>1, <2>1, <2>3, Rest
    <3>3. completed => e = current
      <4>1. SUFFICES ASSUME completed PROVE e = current
        OBVIOUS
      <4>2. Len(e) = Len(current)
        BY <1>1, <2>1, <2>3, <4>1
      <4>3. \A i \in 1..Len(e) : e[i] = current[i]
        BY <1>0, <1>1, <2>1, <4>2, LenProperties DEF Output
      <4>. QED
        BY <1>0, <1>1, <4>2, <4>3, SeqEqual DEF Output
    <3>. QED
      BY <1>2, <1>5, <3>1, <3>2, <3>3
  <2>. QED
    BY <2>2, <2>3
<1>6. cursor'.emitted \in {e, current}
  BY <1>2
<1>. QED
  BY <1>2, <1>3, <1>4, <1>6
-----------------------------------------------------------------------------
-----------------------------------------------------------------------------
LEMMA AwaitInit == Init => AwaitInv
<1>. SUFFICES ASSUME Init PROVE AwaitInv
  OBVIOUS
<1>1. opts.timeout \in Nat
  BY AwaitAssumption DEF Init, OptionsType
<1>2. PhaseInv /\ RunInv /\ AnswerInv /\ DeadlineInv
  BY <1>1, AwaitAssumption DEF Init, ServerInit, PhaseInv, RunInv, AnswerInv, DeadlineInv, NoReply, Without, Outcome, Waiting, Live, Ended
<1>3. LateInv /\ StreamMatchesResult /\ ResultIsTheRuns /\ KillIsReported /\ OvershootIsBounded
  BY AwaitAssumption DEF Init, LateInv, StreamMatchesResult, ResultIsTheRuns, KillIsReported, OvershootIsBounded, Without, Outcome
<1>. QED
  BY <1>2, <1>3 DEF AwaitInv

LEMMA RunInvStep ==
    ASSUME TypeOK, RunInv, [Next]_vars
    PROVE  RunInv'
<1>. USE DEF RunInv, Ended, Live
<1>1. CASE UNCHANGED serverVars
  BY <1>1 DEF serverVars
<1>2. CASE Accept(opts.timeout)
  BY <1>2 DEF Accept
<1>3. CASE RunTick(opts.timeout)
  BY <1>3 DEF RunTick
<1>4. CASE Begin \/ Suspend \/ Produce
  BY <1>4 DEF Begin, Suspend, Produce
<1>5. CASE Complete \/ Fail \/ Cancel
  BY <1>5 DEF Complete, Fail, Cancel, End
<1>. QED
  BY <1>1, <1>2, <1>3, <1>4, <1>5
     DEF Next, vars, Request, AcceptRun, AnswerFinished, AnswerBackground, RequestFails, OnFinished, OnBackground,
         Poll, AnswerPoll, OnRecord, OnPollFailure, CancelContext, StopSleep, Tick, RunStep, ServerStep

(* An ended run stays as it is, and only Accept leaves "none".             *)
LEMMA EndedIsFinal ==
    ASSUME TypeOK, [Next]_vars
    PROVE  /\ runState \in Ended => UNCHANGED <<runState, exit, queued, produced>>
           /\ runState # "none" => runState' # "none"
           /\ runState # "none" /\ queued => queued'
<1>. USE DEF Ended, Live
<1>1. CASE UNCHANGED serverVars
  BY <1>1 DEF serverVars
<1>2. CASE Accept(opts.timeout)
  BY <1>2 DEF Accept, TypeOK, ServerTypeOK
<1>3. CASE RunTick(opts.timeout)
  BY <1>3 DEF RunTick
<1>4. CASE Begin \/ Suspend \/ Produce
  BY <1>4 DEF Begin, Suspend, Produce
<1>5. CASE Complete \/ Fail \/ Cancel
  BY <1>5 DEF Complete, Fail, Cancel, End
<1>. QED
  BY <1>1, <1>2, <1>3, <1>4, <1>5
     DEF Next, vars, Request, AcceptRun, AnswerFinished, AnswerBackground, RequestFails, OnFinished, OnBackground,
         Poll, AnswerPoll, OnRecord, OnPollFailure, CancelContext, StopSleep, Tick, RunStep, ServerStep
LEMMA AnswerStep ==
    ASSUME TypeOK, RunInv, AnswerInv, [Next]_vars
    PROVE  AnswerInv'
<1>1. runState \in Ended => UNCHANGED <<runState, exit>>
  BY EndedIsFinal
<1>2. CASE AnswerFinished
  BY <1>2 DEF AnswerFinished, AnswerInv, RunInv, serverVars, terminalRunState, Ended
<1>3. CASE AnswerPoll
  BY <1>3 DEF AnswerPoll, AnswerInv, RunInv, serverVars
<1>4. CASE AnswerBackground
  BY <1>4 DEF AnswerBackground, AnswerInv, NoReply
<1>5. CASE reply' = NoReply
  BY <1>5 DEF AnswerInv, NoReply
<1>6. CASE reply' = reply \/ reply' = [reply EXCEPT !.age = @ + 1]
  <2>1. reply'.kind = reply.kind /\ reply'.state = reply.state /\ reply'.exit = reply.exit
    BY <1>6 DEF TypeOK, Replies
  <2>. QED
    BY <1>1, <2>1 DEF AnswerInv, RunInv, terminalRunState, Ended
<1>. QED
  BY <1>2, <1>3, <1>4, <1>5, <1>6
     DEF Next, vars, clientVars, Request, AcceptRun, RequestFails, OnFinished, OnBackground,
         Poll, OnRecord, OnPollFailure, CancelContext, StopSleep, Tick, RunStep
(* A record that has ended is the run's own end, and nothing else can be.  *)
LEMMA PhaseStep ==
    ASSUME TypeOK, PhaseInv, [Next]_vars
    PROVE  PhaseInv'
<1>. USE DEF PhaseInv, Waiting
<1>0. runState # "none" => runState' # "none"
  BY EndedIsFinal
<1>1. MaxFailures \in Nat \ {0}
  BY AwaitAssumption
<1>2. CASE UNCHANGED vars
  BY <1>2 DEF vars, serverVars, clientVars, waitVars, streamVars
<1>3. CASE Request
  BY <1>3 DEF Request, serverVars, waitVars, streamVars
<1>4. CASE AcceptRun \/ RunStep
  BY <1>0, <1>4 DEF AcceptRun, RunStep, clientVars, waitVars, streamVars
<1>5. CASE AnswerFinished
  BY <1>5 DEF AnswerFinished, serverVars, waitVars, streamVars
<1>6. CASE AnswerBackground
  BY <1>6 DEF AnswerBackground, serverVars, waitVars, streamVars, Live, NoReply
<1>7. CASE RequestFails
  BY <1>7 DEF RequestFails, Settle, Without, Outcome, serverVars, waitVars, streamVars, NoReply
<1>8. CASE OnFinished
  BY <1>8 DEF OnFinished, Settle, Without, Outcome, serverVars, waitVars, NoReply
<1>9. CASE OnBackground
  BY <1>9 DEF OnBackground, Settle, Without, Outcome, serverVars, streamVars, NoReply
<1>10. CASE Poll
  BY <1>10 DEF Poll, serverVars, waitVars, streamVars
<1>11. CASE AnswerPoll
  BY <1>11 DEF AnswerPoll, serverVars, waitVars, streamVars
<1>12. CASE OnRecord
  <2>1. pc' # "settled" => delivered' = cursor'.emitted
    <3>1. SUFFICES ASSUME pc' # "settled" PROVE delivered' = cursor'.emitted
      OBVIOUS
    <3>2. reply.state \notin TERMINAL_RUN_STATES /\ delivered = cursor.emitted
      BY <1>12, <3>1 DEF OnRecord, Settle
    <3>3. CASE ~HasOnOutput
      BY <1>12, <3>2, <3>3 DEF OnRecord
    <3>4. CASE HasOnOutput
      BY <1>12, <3>2, <3>4, RecordMeaning DEF TypeOK
    <3>. QED
      BY <3>3, <3>4
  <2>2. /\ (outcome'.type = "pending") <=> (pc' # "settled")
        /\ pc' \in {"settled", "sleeping"}
    BY <1>12 DEF OnRecord, Settle, Without, Outcome, GiveUp, SleepAgain
  <2>3. failures' = 0 /\ reply' = NoReply /\ runState' = runState
    BY <1>12 DEF OnRecord, serverVars
  <2>. QED
    BY <1>1, <1>12, <2>1, <2>2, <2>3 DEF OnRecord, NoReply
<1>13. CASE OnPollFailure
  <2>1. /\ (outcome'.type = "pending") <=> (pc' # "settled")
        /\ pc' \in {"settled", "sleeping"}
        /\ pc' # "settled" => failures' < MaxFailures
    BY <1>1, <1>13 DEF OnPollFailure, Settle, Without, Outcome, GiveUp, SleepAgain, TooManyFailures, TypeOK
  <2>. QED
    BY <1>13, <2>1 DEF OnPollFailure, NoReply, serverVars, streamVars
<1>14. CASE CancelContext
  BY <1>14 DEF CancelContext, serverVars, waitVars, streamVars
<1>15. CASE StopSleep
  BY <1>15 DEF StopSleep, Settle, Without, Outcome, serverVars, waitVars, streamVars
<1>16. CASE Tick
  <2>1. reply'.kind = reply.kind
    BY <1>16 DEF Tick, TypeOK, Replies
  <2>. QED
    BY <1>16, <1>0, <2>1 DEF Tick, streamVars
<1>. QED
  BY <1>2, <1>3, <1>4, <1>5, <1>6, <1>7, <1>8, <1>9, <1>10, <1>11, <1>12, <1>13, <1>14, <1>15, <1>16
     DEF Next
(* Time passes for the run and for the deadline alike.                     *)
LEMMA DeadlineStep ==
    ASSUME TypeOK, PhaseInv, RunInv, DeadlineInv, [Next]_vars
    PROVE  DeadlineInv'
<1>. USE DEF DeadlineInv, Waiting
<1>0. opts.timeout \in Nat /\ Margin \in Nat /\ killLeft \in Nat
  BY AwaitAssumption DEF TypeOK, ServerTypeOK, OptionsType
<1>1. CASE UNCHANGED vars
  BY <1>1 DEF vars, serverVars, clientVars, waitVars
<1>2. CASE AcceptRun
  BY <1>0, <1>2 DEF AcceptRun, Accept, clientVars
<1>3. CASE RunStep
  <2>1. UNCHANGED <<killLeft, left, reply, opts, pc>>
    BY <1>3 DEF RunStep, ServerStep, clientVars, waitVars, Begin, Suspend, Produce, Complete, Fail, Cancel, End
  <2>2. ~queued' => ~queued /\ (runState' = "running" => runState = "running")
    BY <1>3 DEF RunStep, ServerStep, Begin, Suspend, Produce, Complete, Fail, Cancel, End, RunInv, Live
  <2>. QED
    BY <2>1, <2>2
<1>4. CASE pc' \in {"requesting", "settled"} /\ UNCHANGED <<serverVars, opts>>
  BY <1>4 DEF serverVars
<1>5. CASE OnBackground
  <2>1. reply' = NoReply /\ UNCHANGED <<serverVars, opts>> /\ (pc' = "sleeping" => left' = opts.timeout + Margin)
    BY <1>5 DEF OnBackground, Settle, runPollBudget
  <2>. QED
    BY <1>0, <1>5, <2>1 DEF OnBackground, Settle, NoReply, serverVars
<1>6. CASE Poll \/ CancelContext
  BY <1>6 DEF Poll, CancelContext, serverVars, waitVars
<1>7. CASE AnswerPoll
  <2>1. runState \in Live \cup Ended
    BY <1>7 DEF AnswerPoll, PhaseInv, TypeOK, ServerTypeOK, RunStates
  <2>2. reply'.state = runState /\ reply'.age = 0 /\ UNCHANGED <<serverVars, opts, left, pc>>
    BY <1>7 DEF AnswerPoll, waitVars
  <2>3. left \in Int
    BY DEF TypeOK
  <2>. QED
    BY <1>0, <1>7, <2>1, <2>2, <2>3 DEF AnswerPoll, serverVars, RunInv, Live
<1>8. CASE OnRecord \/ OnPollFailure
  BY <1>8 DEF OnRecord, OnPollFailure, NoReply, serverVars
<1>9. CASE Tick
  <2>1. /\ UNCHANGED <<runState, queued, opts, pc>>
        /\ ~KillDue(opts.timeout)
        /\ killLeft' = IF runState = "running" /\ killLeft > 0 THEN killLeft - 1 ELSE killLeft
        /\ left' = IF left >= 0 THEN left - 1 ELSE left
    BY <1>9 DEF Tick, RunTick
  <2>2. left \in Nat \cup {-1} /\ reply.age \in Nat
    BY AwaitAssumption DEF TypeOK, Replies
  <2>3. killLeft' <= opts'.timeout
    BY <1>0, <2>1
  <2>4. ASSUME opts.timeout > 0, ~queued, Waiting, runState = "running"
        PROVE  left' >= killLeft' + Margin
    BY <1>0, <2>1, <2>2, <2>4 DEF KillDue
  <2>5. ASSUME opts.timeout > 0, ~queued, Waiting, reply'.kind = "record", reply'.state \notin Ended
        PROVE  left' + reply'.age >= Margin
    <3>1. reply.kind = "record" /\ reply.state \notin Ended /\ reply'.age = reply.age + 1
      BY <1>9, <2>5 DEF Tick, TypeOK, Replies
    <3>. QED
      BY <1>0, <2>1, <2>2, <2>5, <3>1
  <2>. QED
    BY <2>1, <2>3, <2>4, <2>5
<1>. QED
  BY <1>1, <1>2, <1>3, <1>4, <1>5, <1>6, <1>7, <1>8, <1>9
     DEF Next, Request, AnswerFinished, AnswerBackground, RequestFails, OnFinished, StopSleep, Settle, serverVars

(* A poll that ended late ended with a failure or ended the call.          *)
LEMMA LateStep ==
    ASSUME TypeOK, PhaseInv, LateInv, OvershootIsBounded, [Next]_vars
    PROVE  LateInv' /\ OvershootIsBounded'
<1>. USE DEF LateInv, OvershootIsBounded, Overdue
<1>0. late \in Nat /\ failures \in Nat /\ MaxFailures \in Nat \ {0} /\ left \in Int
  BY AwaitAssumption DEF TypeOK
<1>1. CASE UNCHANGED <<opts, pc, left, failures, late>>
  BY <1>1
<1>2. CASE UNCHANGED <<opts, left, failures, late>> /\ (pc' = "settled" \/ (pc # "settled" /\ pc' # "settled"))
  BY <1>2
<1>3. CASE OnBackground
  BY <1>3 DEF OnBackground, PhaseInv
<1>4. CASE OnRecord
  <2>1. late' = (IF Overdue THEN late + 1 ELSE late) /\ failures' = 0 /\ UNCHANGED <<opts, left>> /\ pc # "settled"
    BY <1>4 DEF OnRecord, CountLate
  <2>2. Overdue => pc' = "settled"
    BY <1>4 DEF OnRecord, Settle, GiveUp
  <2>. QED
    BY <1>0, <2>1, <2>2 DEF PhaseInv
<1>5. CASE OnPollFailure
  <2>1. /\ late' = (IF Overdue THEN late + 1 ELSE late)
        /\ failures' = failures + 1
        /\ UNCHANGED <<opts, left>>
        /\ pc # "settled"
    BY <1>5 DEF OnPollFailure, CountLate
  <2>2. opts.client = "go" /\ Overdue => pc' = "settled"
    BY <1>5 DEF OnPollFailure, Settle, GiveUp
  <2>. QED
    BY <1>0, <2>1, <2>2 DEF PhaseInv
<1>6. CASE Tick
  <2>1. UNCHANGED <<opts, pc, failures, late>> /\ left' <= left
    BY <1>0, <1>6 DEF Tick
  <2>2. left' \in Int
    BY <1>0, <1>6 DEF Tick
  <2>. QED
    BY <1>0, <2>1, <2>2
<1>. QED
  BY <1>1, <1>2, <1>3, <1>4, <1>5, <1>6
     DEF Next, vars, clientVars, waitVars, Request, AcceptRun, AnswerFinished, AnswerBackground, RequestFails, OnFinished,
         Poll, AnswerPoll, CancelContext, StopSleep, RunStep, Settle
(* The result is the record that was handled last, and the stream ends     *)
(* with it.                                                                *)
LEMMA StreamStep ==
    ASSUME TypeOK, PhaseInv, PhaseInv', StreamMatchesResult, [Next]_vars
    PROVE  StreamMatchesResult'
<1>. USE DEF StreamMatchesResult
<1>0. pc' \in {"sleeping", "polling"} => delivered' = cursor'.emitted
  BY DEF PhaseInv
<1>1. CASE UNCHANGED <<opts, outcome, streamVars>>
  BY <1>0, <1>1 DEF streamVars, HasOnOutput
<1>2. CASE outcome'.type # "completed"
  BY <1>0, <1>2
<1>3. CASE OnFinished /\ outcome'.type = "completed"
  <2>1. outcome'.output = reply.output /\ UNCHANGED <<opts, cursor>> /\ ~cursor.replaced
    BY <1>3 DEF OnFinished, Settle, Outcome, Without, waitVars, PhaseInv
  <2>2. HasOnOutput => delivered' = reply.output
    BY <1>3 DEF OnFinished, Settle, Without, Outcome
  <2>3. BeginsWith(reply.output, reply.output)
    <3>1. reply.output \in Output
      BY DEF TypeOK, Replies
    <3>2. Len(reply.output) \in Nat
      BY <3>1, LenProperties DEF Output
    <3>. QED
      BY <3>1, <3>2, Rest
  <2>. QED
    BY <1>0, <2>1, <2>2, <2>3 DEF HasOnOutput
<1>4. CASE OnRecord /\ outcome'.type = "completed"
  <2>1. /\ reply.state \in TERMINAL_RUN_STATES
        /\ outcome'.output = reply.output
        /\ outcome'.state = reply.state
        /\ UNCHANGED opts
        /\ delivered = cursor.emitted
    BY <1>4 DEF OnRecord, Settle, Outcome, Without, GiveUp, SleepAgain, PhaseInv
  <2>2. ASSUME HasOnOutput
        PROVE  IF cursor'.replaced THEN delivered' = cursor'.emitted \o reply.output
               ELSE /\ BeginsWith(delivered', reply.output)
                    /\ reply.state = "completed" => delivered' = reply.output
    BY <1>4, <2>1, <2>2, RecordMeaning
  <2>. QED
    BY <1>0, <2>1, <2>2 DEF HasOnOutput
<1>5. CASE UNCHANGED vars \/ Request \/ AcceptRun \/ AnswerFinished \/ AnswerBackground \/ Poll \/ AnswerPoll
            \/ CancelContext \/ Tick \/ RunStep
  BY <1>1, <1>5 DEF vars, clientVars, Request, AcceptRun, AnswerFinished, AnswerBackground, Poll, AnswerPoll,
                    CancelContext, Tick, RunStep
<1>6. CASE RequestFails \/ StopSleep \/ OnPollFailure \/ OnBackground
  <2>1. UNCHANGED <<opts, streamVars>> /\ (UNCHANGED outcome \/ outcome'.type # "completed")
    BY <1>6 DEF RequestFails, StopSleep, OnPollFailure, OnBackground, Settle, Without, Outcome, GiveUp, SleepAgain
  <2>. QED
    BY <1>1, <1>2, <2>1
<1>. QED
  BY <1>2, <1>3, <1>4, <1>5, <1>6 DEF Next

LEMMA ResultStep ==
    ASSUME TypeOK, PhaseInv, RunInv, AnswerInv, ResultIsTheRuns, [Next]_vars
    PROVE  ResultIsTheRuns'
<1>. USE DEF ResultIsTheRuns
<1>0. runState \in Ended => UNCHANGED <<runState, exit>>
  BY EndedIsFinal
<1>1. CASE UNCHANGED outcome
  BY <1>0, <1>1
<1>2. CASE outcome'.type # "completed"
  BY <1>2
<1>3. CASE OnFinished /\ outcome'.type = "completed"
  <2>1. /\ outcome'.state = terminalRunState(reply.state, reply.exit)
        /\ outcome'.exit = reply.exit
        /\ reply.kind = "finished"
        /\ UNCHANGED serverVars
    BY <1>3 DEF OnFinished, Settle, Outcome, Without
  <2>. QED
    BY <2>1 DEF AnswerInv, RunInv, serverVars
<1>4. CASE OnRecord /\ outcome'.type = "completed"
  <2>1. /\ reply.state \in Ended
        /\ outcome'.state = reply.state
        /\ outcome'.exit = ExitOf(reply.state, reply.exit)
        /\ reply.kind = "record"
        /\ UNCHANGED serverVars
    BY <1>4 DEF OnRecord, Settle, Outcome, Without, GiveUp, SleepAgain, PhaseInv, TERMINAL_RUN_STATES, Ended
  <2>. QED
    BY <2>1 DEF AnswerInv, RunInv, serverVars, ExitOf
<1>. QED
  BY <1>1, <1>2, <1>3, <1>4
     DEF Next, vars, clientVars, Request, AcceptRun, AnswerFinished, AnswerBackground, RequestFails, OnBackground,
         Poll, AnswerPoll, OnPollFailure, CancelContext, StopSleep, Tick, RunStep, Settle, Without, Outcome,
         GiveUp, SleepAgain

(* "timeout" is said after an answered poll (or by Go), and that answer    *)
(* was read before the kill or says that the run had to wait.              *)
LEMMA KillStep ==
    ASSUME TypeOK, PhaseInv, DeadlineInv, KillIsReported, [Next]_vars
    PROVE  KillIsReported'
<1>. USE DEF KillIsReported
<1>1. CASE outcome'.type # "timeout"
  BY <1>1
<1>2. CASE UNCHANGED <<opts, outcome, serverVars>>
  BY <1>2 DEF serverVars
<1>3. CASE Tick \/ AcceptRun
  BY <1>3 DEF Tick, RunTick, AcceptRun, clientVars, PhaseInv
<1>4. CASE RunStep
  BY <1>4 DEF RunStep, clientVars, ServerStep, Begin, Suspend, Produce, Complete, Fail, Cancel, End
<1>5. CASE OnRecord /\ outcome'.type = "timeout"
  <2>1. Overdue /\ reply.state \notin Ended /\ reply.kind = "record" /\ Waiting /\ UNCHANGED <<opts, queued>>
    BY <1>5 DEF OnRecord, Settle, Outcome, Without, GiveUp, SleepAgain, PhaseInv, TERMINAL_RUN_STATES, Ended,
                Waiting, serverVars
  <2>2. reply.age \in 0..MaxFlight /\ left \in Int /\ Margin \in Nat /\ MaxFlight \in Nat
    BY AwaitAssumption DEF TypeOK, Replies
  <2>. QED
    BY <2>1, <2>2 DEF Overdue, DeadlineInv
<1>6. CASE OnPollFailure /\ outcome'.type = "timeout"
  BY <1>6 DEF OnPollFailure, Settle, Outcome, Without, GiveUp, SleepAgain, PhaseInv, Overdue
<1>. QED
  BY <1>1, <1>2, <1>3, <1>4, <1>5, <1>6
     DEF Next, vars, clientVars, Request, AnswerFinished, AnswerBackground, RequestFails, OnFinished, OnBackground,
         Poll, AnswerPoll, CancelContext, StopSleep, Settle, Without, Outcome
-----------------------------------------------------------------------------
(* What the service retains: what is written, answered and delivered are   *)
(* beginnings of each other.                                               *)
LEMMA Beginning ==
    ASSUME NEW S, NEW s \in Seq(S), NEW t \in Seq(S)
    PROVE  BeginsWith(s, t) <=> Len(t) <= Len(s) /\ \A i \in 1..Len(t) : t[i] = s[i]
<1>1. Len(s) \in Nat /\ Len(t) \in Nat
  BY LenProperties
<1>2. ASSUME Len(t) <= Len(s)
      PROVE  SubSeq(s, 1, Len(t)) = t <=> \A i \in 1..Len(t) : t[i] = s[i]
  <2>1. /\ SubSeq(s, 1, Len(t)) \in Seq(S)
        /\ Len(SubSeq(s, 1, Len(t))) = IF 1 <= Len(t) THEN Len(t) - 1 + 1 ELSE 0
        /\ \A i \in 1..(Len(t) - 1 + 1) : SubSeq(s, 1, Len(t))[i] = s[1 + i - 1]
    BY <1>1, <1>2, CutType
  <2>2. Len(SubSeq(s, 1, Len(t))) = Len(t)
    BY <1>1, <2>1
  <2>3. \A i \in 1..Len(t) : SubSeq(s, 1, Len(t))[i] = s[i]
    BY <1>1, <2>1
  <2>4. ASSUME \A i \in 1..Len(t) : t[i] = s[i] PROVE SubSeq(s, 1, Len(t)) = t
    BY <2>1, <2>2, <2>3, <2>4, SeqEqual
  <2>5. ASSUME SubSeq(s, 1, Len(t)) = t PROVE \A i \in 1..Len(t) : t[i] = s[i]
    BY <2>3, <2>5
  <2>. QED
    BY <2>4, <2>5
<1>. QED
  BY <1>2 DEF BeginsWith

(* The output only grows, by a byte at a time and while the run runs.      *)
LEMMA ProducedGrows ==
    ASSUME TypeOK, [Next]_vars
    PROVE  \/ UNCHANGED produced
           \/ /\ runState = "running" /\ UNCHANGED <<runState, clientVars>>
              /\ \E b \in Bytes : produced' = Append(produced, b)
<1>1. CASE UNCHANGED serverVars
  BY <1>1 DEF serverVars
<1>2. CASE Accept(opts.timeout) \/ RunTick(opts.timeout) \/ Begin \/ Suspend \/ Complete \/ Fail \/ Cancel
  BY <1>2 DEF Accept, RunTick, Begin, Suspend, Complete, Fail, Cancel, End
<1>3. CASE Produce /\ UNCHANGED clientVars
  BY <1>3 DEF Produce
<1>. QED
  BY <1>1, <1>2, <1>3
     DEF Next, vars, Request, AcceptRun, AnswerFinished, AnswerBackground, RequestFails, OnFinished, OnBackground,
         Poll, AnswerPoll, OnRecord, OnPollFailure, CancelContext, StopSleep, Tick, RunStep, ServerStep

(* What was a beginning of the output stays one.                           *)
LEMMA BeginningKept ==
    ASSUME TypeOK, [Next]_vars, Len(produced') <= Retention
    PROVE  /\ Len(produced) <= Retention
           /\ \A t \in Output : BeginsWith(produced, t) => BeginsWith(produced', t)
<1>1. CASE UNCHANGED produced
  BY <1>1
<1>2. ASSUME NEW b \in Bytes, produced' = Append(produced, b)
      PROVE  /\ Len(produced) <= Retention
             /\ \A t \in Output : BeginsWith(produced, t) => BeginsWith(produced', t)
  <2>1. produced \in Seq(Bytes) /\ Len(produced) \in Nat /\ Retention \in Nat
    BY ServerAssumption, LenProperties DEF TypeOK, ServerTypeOK
  <2>2. /\ produced' \in Seq(Bytes) /\ Len(produced') = Len(produced) + 1
        /\ \A i \in 1..Len(produced) : produced'[i] = produced[i]
    BY <1>2, <2>1, AppendProperties
  <2>3. produced \in Output /\ produced' \in Output
    BY <2>1, <2>2, SeqMonotonic DEF Output
  <2>4. ASSUME NEW t \in Output, BeginsWith(produced, t) PROVE BeginsWith(produced', t)
    <3>1. Len(t) \in Nat /\ Len(t) <= Len(produced) /\ \A i \in 1..Len(t) : t[i] = produced[i]
      BY <2>3, <2>4, Beginning, LenProperties DEF Output
    <3>2. Len(t) <= Len(produced') /\ \A i \in 1..Len(t) : t[i] = produced'[i]
      BY <2>1, <2>2, <3>1
    <3>. QED
      BY <2>3, <3>2, Beginning DEF Output
  <2>. QED
    BY <2>1, <2>2, <2>4
<1>. QED
  BY <1>1, <1>2, ProducedGrows

(* While all is retained an answer shows a beginning of the output, and    *)
(* all of it when the run is completed.                                    *)
LEMMA ShownBegins ==
    ASSUME TypeOK, Len(produced) <= Retention, NEW shown \in Shown
    PROVE  BeginsWith(produced, shown) /\ (runState = "completed" => shown = produced)
<1>1. produced \in Seq(Bytes) /\ Len(produced) \in Nat /\ Retention \in Nat
  BY ServerAssumption, LenProperties DEF TypeOK, ServerTypeOK
<1>2. Retained(produced) = produced
  BY DEF Retained
<1>3. BeginsWith(produced, produced)
  BY <1>1, Beginning
<1>4. ASSUME NEW n \in 0..Len(produced)
      PROVE  BeginsWith(produced, Retained(SubSeq(produced, 1, n)))
  <2>1. /\ SubSeq(produced, 1, n) \in Seq(Bytes)
        /\ Len(SubSeq(produced, 1, n)) = IF 1 <= n THEN n - 1 + 1 ELSE 0
        /\ \A i \in 1..(n - 1 + 1) : SubSeq(produced, 1, n)[i] = produced[1 + i - 1]
    BY <1>1, CutType
  <2>2. Len(SubSeq(produced, 1, n)) = n
    BY <2>1
  <2>3. \A i \in 1..n : SubSeq(produced, 1, n)[i] = produced[i]
    BY <2>1
  <2>4. BeginsWith(produced, SubSeq(produced, 1, n))
    <3>. DEFINE c == SubSeq(produced, 1, n)
    <3>1. c \in Seq(Bytes) /\ Len(c) = n /\ n <= Len(produced) /\ \A i \in 1..n : c[i] = produced[i]
      BY <1>1, <2>1, <2>2, <2>3
    <3>. HIDE DEF c
    <3>2. BeginsWith(produced, c)
      BY <1>1, <3>1, Beginning
    <3>. QED
      BY <3>2 DEF c
  <2>5. Retained(SubSeq(produced, 1, n)) = SubSeq(produced, 1, n)
    BY <1>1, <2>2 DEF Retained
  <2>. QED
    BY <2>4, <2>5
<1>. QED
  BY <1>2, <1>3, <1>4 DEF Shown
-----------------------------------------------------------------------------
(* AwaitInv holds throughout: together its parts are inductive.            *)
THEOREM Inductive == Spec => [](TypeOK /\ AwaitInv)
<1>1. Init => TypeOK /\ AwaitInv
  BY InitType, AwaitInit
<1>2. TypeOK /\ AwaitInv /\ [Next]_vars => (TypeOK /\ AwaitInv)'
  BY TypeStep, PhaseStep, RunInvStep, AnswerStep, DeadlineStep, LateStep, StreamStep, ResultStep, KillStep
     DEF AwaitInv
<1>. QED
  BY <1>1, <1>2, PTL DEF Spec

(* onOutput and the result agree, however status answers lag, however many *)
(* polls fail and whatever the service drops (runOutputDelta, _awaitRun).  *)
THEOREM StreamCorrect == Spec => []StreamMatchesResult
<1>1. AwaitInv => StreamMatchesResult
  BY DEF AwaitInv
<1>. QED
  BY <1>1, Inductive, PTL

(* A result tells how the run really ended (runToCompletedResult,          *)
(* parseRunResponse and their counterparts).                               *)
THEOREM ResultCorrect == Spec => []ResultIsTheRuns
<1>1. AwaitInv => ResultIsTheRuns
  BY DEF AwaitInv
<1>. QED
  BY <1>1, Inductive, PTL

(* With answers faster than the margin, a run that never waited is         *)
(* reported with its outcome and not as a timeout (runPollBudgetMs).       *)
THEOREM KillReported == Spec => []KillIsReported
<1>1. AwaitInv => KillIsReported
  BY DEF AwaitInv
<1>. QED
  BY <1>1, Inductive, PTL

(* No more than a round of failed polls past the deadline.                 *)
THEOREM OvershootBounded == Spec => []OvershootIsBounded
<1>1. AwaitInv => OvershootIsBounded
  BY DEF AwaitInv
<1>. QED
  BY <1>1, Inductive, PTL

-----------------------------------------------------------------------------
(* A status answer that shows a beginning of the output takes the cursor   *)
(* to one, announces nothing as replaced, and takes it to the end when the *)
(* run is completed.                                                       *)
LEMMA RecordRetained ==
    ASSUME TypeOK, AwaitInv, RetainedInv, EveryByteOnce, OnRecord, HasOnOutput,
           Len(produced) <= Retention
    PROVE  /\ ~cursor'.replaced
           /\ BeginsWith(produced, cursor'.emitted)
           /\ delivered' = cursor'.emitted
           /\ reply.state = "completed" => cursor'.emitted = produced
<1>1. /\ cursor.emitted \in Output /\ reply.output \in Output
      /\ produced \in Output /\ pc = "polling" /\ reply.kind = "record"
  BY SeqMonotonic DEF TypeOK, ServerTypeOK, Replies, OnRecord, Output
<1>2. /\ ~cursor.replaced /\ delivered = cursor.emitted
      /\ BeginsWith(produced, cursor.emitted) /\ BeginsWith(produced, reply.output)
  BY <1>1 DEF AwaitInv, PhaseInv, RetainedInv, EveryByteOnce
<1>3. reply.state = "completed" => reply.output = produced
  BY <1>1 DEF AwaitInv, AnswerInv, RetainedInv, Ended
<1>4. ~Outgrown(cursor.emitted, reply.output, reply.state = "completed")
  <2>. DEFINE e == cursor.emitted
              t == reply.output
  <2>1. /\ Len(e) \in Nat /\ Len(t) \in Nat /\ Len(produced) \in Nat
        /\ DOMAIN e = 1..Len(e) /\ DOMAIN t = 1..Len(t)
    BY <1>1, LenProperties DEF Output
  <2>2. Len(e) <= Len(produced) /\ \A i \in 1..Len(e) : e[i] = produced[i]
    BY <1>1, <1>2, Beginning DEF Output
  <2>3. \A i \in 1..Len(t) : t[i] = produced[i]
    BY <1>1, <1>2, Beginning DEF Output
  <2>4. reply.state = "completed" => Len(e) <= Len(t)
    BY <1>3, <2>2
  <2>. HIDE DEF e, t
  <2>5. ~Outgrown(e, t, reply.state = "completed")
    BY <2>1, <2>2, <2>3, <2>4 DEF Outgrown
  <2>. QED
    BY <2>5 DEF e, t
<1>5. /\ cursor'.emitted \in {cursor.emitted, reply.output}
      /\ ~cursor'.replaced
      /\ delivered' = cursor'.emitted
      /\ reply.state = "completed" => cursor'.emitted = reply.output
  BY <1>2, <1>4, RecordMeaning
<1>. QED
  BY <1>2, <1>3, <1>5

LEMMA RetainedStep ==
    ASSUME TypeOK, AwaitInv, RetainedInv, EveryByteOnce, [Next]_vars
    PROVE  RetainedInv'
<1>. SUFFICES ASSUME Len(produced') <= Retention
              PROVE  /\ (reply.kind \in {"finished", "record"})' =>
                          /\ BeginsWith(produced', reply'.output)
                          /\ runState' = "completed" /\ reply'.state = "completed"
                                => reply'.output = produced'
                     /\ HasOnOutput' => BeginsWith(produced', cursor'.emitted)
  BY DEF RetainedInv
<1>0. /\ Len(produced) <= Retention
      /\ \A t \in Output : BeginsWith(produced, t) => BeginsWith(produced', t)
  BY BeginningKept
<1>1. HasOnOutput' => BeginsWith(produced', cursor'.emitted)
  <2>1. CASE UNCHANGED <<opts, cursor>>
    BY <1>0, <2>1 DEF RetainedInv, HasOnOutput, TypeOK
  <2>2. CASE OnRecord
    <3>1. UNCHANGED <<opts, produced>> /\ (~HasOnOutput => cursor' = cursor)
      BY <2>2 DEF OnRecord, serverVars
    <3>. QED
      BY <1>0, <2>1, <2>2, <3>1, RecordRetained DEF HasOnOutput
  <2>. QED
    BY <2>1, <2>2
       DEF Next, vars, clientVars, streamVars, Request, AcceptRun, AnswerFinished, AnswerBackground, RequestFails,
           OnFinished, OnBackground, Poll, AnswerPoll, OnPollFailure, CancelContext, StopSleep, Tick, RunStep
<1>2. ASSUME reply'.kind \in {"finished", "record"}
      PROVE  /\ BeginsWith(produced', reply'.output)
             /\ runState' = "completed" /\ reply'.state = "completed" => reply'.output = produced'
  <2>1. CASE AnswerFinished \/ AnswerPoll
    <3>1. UNCHANGED <<produced, runState>>
      BY <2>1 DEF AnswerFinished, AnswerPoll, serverVars
    <3>2. PICK shown \in Shown : reply'.output = shown
      BY <2>1 DEF AnswerFinished, AnswerPoll
    <3>. QED
      BY <1>0, <3>1, <3>2, ShownBegins
  <2>2. CASE reply' = NoReply \/ AnswerBackground
    <3>1. reply' = NoReply \/ reply' = [NoReply EXCEPT !.kind = "ack", !.state = runState]
      BY <2>2 DEF AnswerBackground
    <3>2. NoReply.kind = "none" /\ [NoReply EXCEPT !.kind = "ack", !.state = runState].kind = "ack"
      BY DEF NoReply
    <3>3. reply'.kind = "none" \/ reply'.kind = "ack"
      BY <3>1, <3>2
    <3>. QED
      BY <1>2, <3>3
  <2>3. CASE reply' = reply \/ reply' = [reply EXCEPT !.age = @ + 1]
    <3>1. /\ reply'.kind = reply.kind /\ reply'.state = reply.state /\ reply'.output = reply.output
          /\ reply.output \in Output
      BY <2>3 DEF TypeOK, Replies
    <3>2. BeginsWith(produced', reply'.output)
      BY <1>0, <1>2, <3>1 DEF RetainedInv
    <3>3. ASSUME runState' = "completed", reply.state = "completed" PROVE reply.output = produced'
      <4>1. reply.state \in Ended /\ runState \in Ended
        BY <1>2, <3>1, <3>3 DEF AwaitInv, AnswerInv, Ended
      <4>2. UNCHANGED <<runState, produced>>
        BY <4>1, EndedIsFinal
      <4>. QED
        BY <1>0, <1>2, <3>1, <3>3, <4>2 DEF RetainedInv
    <3>. QED
      BY <3>1, <3>2, <3>3
  <2>. QED
    BY <2>1, <2>2, <2>3
       DEF Next, vars, clientVars, Request, AcceptRun, RequestFails, OnFinished, OnBackground,
           Poll, OnRecord, OnPollFailure, CancelContext, StopSleep, Tick, RunStep
<1>. QED
  BY <1>1, <1>2

LEMMA OnceStep ==
    ASSUME TypeOK, AwaitInv, RetainedInv, EveryByteOnce, [Next]_vars
    PROVE  EveryByteOnce'
<1>. SUFFICES ASSUME Len(produced') <= Retention, HasOnOutput'
              PROVE  /\ ~cursor'.replaced
                     /\ BeginsWith(produced', delivered')
                     /\ outcome'.type = "completed" /\ outcome'.state = "completed"
                           => delivered' = produced'
  BY DEF EveryByteOnce
<1>0. /\ Len(produced) <= Retention
      /\ \A t \in Output : BeginsWith(produced, t) => BeginsWith(produced', t)
  BY BeginningKept
<1>1. ASSUME UNCHANGED <<opts, streamVars>>
      PROVE  ~cursor'.replaced /\ BeginsWith(produced', delivered') /\ HasOnOutput
  BY <1>0, <1>1 DEF EveryByteOnce, HasOnOutput, streamVars, TypeOK
<1>2. CASE UNCHANGED <<opts, streamVars>> /\ outcome'.type # "completed"
  BY <1>1, <1>2
<1>3. CASE UNCHANGED <<opts, streamVars, outcome>>
  <2>1. ASSUME outcome.type = "completed" PROVE UNCHANGED produced
    BY <2>1, EndedIsFinal DEF AwaitInv, ResultIsTheRuns
  <2>. QED
    BY <1>0, <1>1, <1>3, <2>1 DEF EveryByteOnce, streamVars
<1>4. CASE OnFinished
  <2>1. reply.kind = "finished" /\ UNCHANGED <<opts, cursor, runState, produced>> /\ HasOnOutput /\ pc = "requesting"
    BY <1>4 DEF OnFinished, serverVars, HasOnOutput
  <2>2. BeginsWith(produced, reply.output) /\ ~cursor.replaced /\ BeginsWith(produced, delivered)
    BY <1>0, <2>1 DEF RetainedInv, EveryByteOnce
  <2>3. CASE outcome'.type # "completed"
    <3>1. delivered' = delivered
      BY <1>4, <2>3 DEF OnFinished, Settle, Outcome
    <3>. QED
      BY <2>1, <2>2, <2>3, <3>1
  <2>4. CASE outcome'.type = "completed"
    <3>1. /\ delivered' = reply.output
          /\ outcome'.state = terminalRunState(reply.state, reply.exit)
      BY <1>4, <2>1, <2>4 DEF OnFinished, Settle, Outcome, Without
    <3>2. ASSUME outcome'.state = "completed" PROVE reply.output = produced
      <4>1. reply.state = "completed" /\ runState = "completed"
        BY <2>1, <3>1, <3>2 DEF AwaitInv, AnswerInv, terminalRunState
      <4>. QED
        BY <1>0, <2>1, <4>1 DEF RetainedInv
    <3>. QED
      BY <2>1, <2>2, <3>1, <3>2
  <2>. QED
    BY <2>3, <2>4
<1>5. CASE OnRecord
  <2>1. UNCHANGED <<opts, produced>> /\ HasOnOutput
    BY <1>5 DEF OnRecord, serverVars, HasOnOutput
  <2>2. /\ ~cursor'.replaced
        /\ BeginsWith(produced, cursor'.emitted)
        /\ delivered' = cursor'.emitted
        /\ reply.state = "completed" => cursor'.emitted = produced
    BY <1>0, <1>5, <2>1, RecordRetained
  <2>3. outcome'.type = "completed" => outcome'.state = reply.state
    BY <1>5 DEF OnRecord, Settle, Outcome, Without, GiveUp, SleepAgain, AwaitInv, PhaseInv
  <2>. QED
    BY <2>1, <2>2, <2>3
<1>6. CASE RequestFails \/ StopSleep \/ OnPollFailure \/ OnBackground
  <2>1. UNCHANGED <<opts, streamVars>> /\ (UNCHANGED outcome \/ outcome'.type # "completed")
    BY <1>6 DEF RequestFails, StopSleep, OnPollFailure, OnBackground, Settle, Without, Outcome, GiveUp, SleepAgain
  <2>. QED
    BY <1>2, <1>3, <2>1
<1>7. CASE UNCHANGED vars \/ Request \/ AcceptRun \/ AnswerFinished \/ AnswerBackground \/ Poll \/ AnswerPoll
            \/ CancelContext \/ Tick \/ RunStep
  BY <1>3, <1>7 DEF vars, clientVars, Request, AcceptRun, AnswerFinished, AnswerBackground, Poll, AnswerPoll,
                    CancelContext, Tick, RunStep
<1>. QED
  BY <1>4, <1>5, <1>6, <1>7 DEF Next

LEMMA OnceInit == Init => RetainedInv /\ EveryByteOnce
<1>. SUFFICES ASSUME Init PROVE RetainedInv /\ EveryByteOnce
  OBVIOUS
<1>1. /\ produced = <<>> /\ cursor.emitted = <<>> /\ ~cursor.replaced /\ delivered = <<>>
      /\ reply.kind = "none" /\ outcome.type = "pending"
  BY DEF Init, ServerInit, NoReply, Without, Outcome
<1>2. BeginsWith(<<>>, <<>>)
  <2>1. <<>> \in Output /\ Len(<<>>) = 0
    BY EmptySeq DEF Output
  <2>. QED
    BY <2>1, Rest
<1>. QED
  BY <1>1, <1>2 DEF RetainedInv, EveryByteOnce

(* "Receives each stdout and stderr byte once" (index.ts:390): while the   *)
(* service retains everything, however the status answers lag, no byte is  *)
(* delivered twice, out of order or, when the run completes, not at all.   *)
THEOREM OnceCorrect == Spec => []EveryByteOnce
<1>1. Init => RetainedInv /\ EveryByteOnce
  BY OnceInit
<1>2. TypeOK /\ AwaitInv /\ RetainedInv /\ EveryByteOnce /\ [Next]_vars => (RetainedInv /\ EveryByteOnce)'
  BY RetainedStep, OnceStep
<1>. QED
  BY <1>1, <1>2, Inductive, PTL DEF Spec
=============================================================================
