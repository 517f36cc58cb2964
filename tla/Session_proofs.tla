---------------------------- MODULE Session_proofs ----------------------------
(***************************************************************************)
(* Proofs about a prompt of a child session, for any tool calls, limits and*)
(* number of reports.                                                      *)
(*                                                                         *)
(* Runner: the first reason to abort stays, the outcome tells what happened,*)
(* and as long as tool calls do not overlap none of them is taken for a hung*)
(* run.  ReportingSession: with report tool, reminders and compaction the  *)
(* session behaves as Runner says, so that all of this holds with the output*)
(* contract in place, and the contract holds.                              *)
(***************************************************************************)
EXTENDS ReportingSession, FiniteSetTheorems, TLAPS

\* Nothing has happened before the prompt, and no outcome is there before the end.
PromptInv ==
    /\ prompt = "waiting" =>
          /\ abortReason = None /\ ~stopAsked /\ executing = {}
          /\ turnCount = 0 /\ toolRun = 0 /\ textRun = 0
    /\ prompt # "over" => outcome = NoOutcome

\* Who asked the session to stop, and who found a limit reached, left a reason.
ReasonInv ==
    /\ stopAsked => abortReason # None
    /\ turnCount >= MaxTurns => abortReason # None
    /\ toolRun = 3 \/ textRun = 3 => abortReason # None

\* Without overlap a tool in execution is alone, and the clock pauses for it.
ToolInv ==
    ~ParallelTools =>
        /\ \A s, t \in executing : s = t
        /\ executing # {} => toolInProgress

IInv == TypeOK /\ PromptInv /\ ReasonInv /\ ToolInv /\ OutcomeTruthful

-----------------------------------------------------------------------------
\* The reasons by name.
LEMMA ReasonNames ==
    {"step-limit", "liveness", "caller-abort", "doom-loop", "tool-timeout"} \subseteq Reasons
BY DEF Reasons

\* The invariant holds before the first step.
LEMMA InitInv == Init => IInv
<1> SUFFICES ASSUME Init PROVE IInv
  OBVIOUS
<1>1. TypeOK
  <2>1. outcome \in [status : {"none", "completed", "aborted", "error"},
                     reason : Reasons \cup {"none", "error", "provider-abort"}]
    BY DEF Init, NoOutcome
  <2>2. turnCount \in 0..TurnBound /\ toolRun \in 0..3 /\ textRun \in 0..3
    BY RunnerAssumption DEF Init
  <2>3. QED
    BY <2>1, <2>2 DEF Init, TypeOK
<1>2. PromptInv /\ ReasonInv /\ ToolInv /\ OutcomeTruthful
  BY RunnerAssumption DEF Init, PromptInv, ReasonInv, ToolInv, OutcomeTruthful, NoOutcome
<1>3. QED
  BY <1>1, <1>2 DEF IInv

\* The events of the session keep the invariant.
LEMMA ActivityKeepsInv == IInv /\ Activity => IInv'
<1> SUFFICES ASSUME IInv, Activity PROVE IInv'
  OBVIOUS
<1> USE RunnerAssumption DEF IInv
<1>t. prompt = "running" /\ outcome = NoOutcome /\ outcome' = outcome /\ prompt' = prompt
  BY DEF Activity, ToolStarts, ToolEnds, AssistantMessage, OtherMessage, TurnEnds,
         PromptInv, session
<1>o. PromptInv' /\ OutcomeTruthful'
  BY <1>t DEF PromptInv, OutcomeTruthful, NoOutcome
<1>1. ASSUME NEW t \in Tool, ToolStarts(t) PROVE IInv'
  <2>1. TypeOK'
    BY <1>1 DEF TypeOK, ToolStarts, loops
  <2>2. ReasonInv' /\ ToolInv'
    BY <1>1 DEF ReasonInv, ToolInv, ToolStarts, loops
  <2>3. QED
    BY <1>o, <2>1, <2>2
<1>2. ASSUME NEW t \in Tool, ToolEnds(t) PROVE IInv'
  <2>1. TypeOK'
    BY <1>2 DEF TypeOK, ToolEnds, loops
  <2>2. ReasonInv' /\ ToolInv'
    BY <1>2 DEF ReasonInv, ToolInv, ToolEnds, loops
  <2>3. QED
    BY <1>o, <2>1, <2>2
<1>3. ASSUME NEW call \in Entry, NEW text \in Entry, NEW bad \in BOOLEAN,
             AssistantMessage(call, text, bad)
      PROVE  IInv'
  <2>1. /\ toolRun' = Pushed(toolRun, call) /\ textRun' = Pushed(textRun, text)
        /\ toolRun' \in 0..3 /\ textRun' \in 0..3
        /\ text = "none" => textRun' = textRun
        /\ UNCHANGED <<session, turnCount, toolInProgress, activeTool, outcome>>
        /\ quiet' = FALSE /\ badStop' = bad
        /\ AbortFor("doom-loop", toolRun' = 3 \/ (text # "none" /\ textRun' = 3))
    BY <1>3 DEF AssistantMessage, Pushed, Entry, TypeOK
  <2>2. TypeOK'
    BY <2>1, ReasonNames, ZenonT(40) DEF TypeOK, AbortFor, session
  <2>3. ReasonInv'
    BY <2>1 DEF ReasonInv, AbortFor, Reasons
  <2>4. ToolInv'
    BY <2>1 DEF ToolInv, session
  <2>5. QED
    BY <1>o, <2>2, <2>3, <2>4
<1>4. CASE OtherMessage
  <2>1. TypeOK'
    BY <1>4 DEF TypeOK, OtherMessage, session, loops
  <2>2. ReasonInv' /\ ToolInv'
    BY <1>4 DEF ReasonInv, ToolInv, OtherMessage, session, loops
  <2>3. QED
    BY <1>o, <2>1, <2>2
<1>5. CASE TurnEnds
  <2>1. TypeOK'
    <3>1. turnCount' \in 0..TurnBound
      BY <1>5 DEF TypeOK, TurnEnds
    <3>2. abortReason' \in Reasons \cup {None} /\ stopAsked' \in BOOLEAN
      BY <1>5, ReasonNames DEF TypeOK, TurnEnds, AbortFor
    <3>3. QED
      BY <1>5, <3>1, <3>2 DEF TypeOK, TurnEnds, session, loops
  <2>2. ReasonInv' /\ ToolInv'
    BY <1>5 DEF TypeOK, ReasonInv, ToolInv, TurnEnds, AbortFor, Reasons, session, loops
  <2>3. QED
    BY <1>o, <2>1, <2>2
<1>6. QED
  BY <1>1, <1>2, <1>3, <1>4, <1>5 DEF Activity

\* The caller and the timers keep the invariant.
LEMMA NetsKeepInv == IInv /\ (CallerAborts \/ TimePasses \/ LivenessPoll \/ ToolTimeout) => IInv'
<1> SUFFICES ASSUME IInv, CallerAborts \/ TimePasses \/ LivenessPoll \/ ToolTimeout
             PROVE  IInv'
  OBVIOUS
<1> USE RunnerAssumption DEF IInv
<1>1. CASE CallerAborts
  <2>1. TypeOK'
    BY <1>1, ReasonNames DEF TypeOK, CallerAborts, nets, loops
  <2>2. PromptInv' /\ ReasonInv' /\ ToolInv'
    BY <1>1 DEF PromptInv, ReasonInv, ToolInv, CallerAborts, Reasons, nets, loops
  <2>3. OutcomeTruthful'
    BY <1>1 DEF PromptInv, OutcomeTruthful, CallerAborts, NoOutcome, nets, loops
  <2>4. QED
    BY <2>1, <2>2, <2>3
<1>2. CASE TimePasses
  <2>1. TypeOK'
    BY <1>2 DEF TypeOK, TimePasses, session, loops
  <2>2. PromptInv' /\ ReasonInv' /\ ToolInv' /\ OutcomeTruthful'
    BY <1>2 DEF PromptInv, ReasonInv, ToolInv, OutcomeTruthful, TimePasses, session, loops
  <2>3. QED
    BY <2>1, <2>2
<1>3. CASE LivenessPoll
  <2>1. TypeOK'
    BY <1>3 DEF TypeOK, LivenessPoll, AbortFor, Reasons, session, nets, loops
  <2>2. PromptInv' /\ ReasonInv' /\ ToolInv'
    BY <1>3 DEF PromptInv, ReasonInv, ToolInv, LivenessPoll, AbortFor, Reasons, session, nets, loops
  <2>3. OutcomeTruthful'
    BY <1>3 DEF PromptInv, OutcomeTruthful, LivenessPoll, NoOutcome
  <2>4. QED
    BY <2>1, <2>2, <2>3
<1>4. CASE ToolTimeout
  <2>1. TypeOK'
    BY <1>4, ZenonT(40) DEF TypeOK, ToolTimeout, AbortFor, Reasons, session, loops
  <2>2. PromptInv' /\ ReasonInv' /\ ToolInv'
    BY <1>4 DEF PromptInv, ReasonInv, ToolInv, ToolTimeout, AbortFor, Reasons, session, loops
  <2>3. OutcomeTruthful'
    BY <1>4 DEF PromptInv, OutcomeTruthful, ToolTimeout, NoOutcome
  <2>4. QED
    BY <2>1, <2>2, <2>3
<1>5. QED
  BY <1>1, <1>2, <1>3, <1>4

\* The beginning and the end of the prompt keep the invariant.
LEMMA PromptKeepsInv ==
    IInv /\ (Begin \/ PromptReturns \/ PromptThrows \/ Finish) => IInv'
<1> SUFFICES ASSUME IInv, Begin \/ PromptReturns \/ PromptThrows \/ Finish
             PROVE  IInv'
  OBVIOUS
<1> USE RunnerAssumption DEF IInv
<1>1. CASE Begin
  <2>1. TypeOK'
    BY <1>1 DEF TypeOK, Begin, Reasons, nets, loops
  <2>2. PromptInv' /\ ReasonInv' /\ ToolInv' /\ OutcomeTruthful'
    BY <1>1 DEF PromptInv, ReasonInv, ToolInv, OutcomeTruthful, Begin, NoOutcome, nets, loops
  <2>3. QED
    BY <2>1, <2>2
<1>2. CASE PromptReturns
  <2>1. TypeOK'
    BY <1>2 DEF TypeOK, PromptReturns, nets, loops
  <2>2. PromptInv' /\ ReasonInv' /\ ToolInv' /\ OutcomeTruthful'
    BY <1>2 DEF PromptInv, ReasonInv, ToolInv, OutcomeTruthful, PromptReturns, NoOutcome, nets, loops
  <2>3. QED
    BY <2>1, <2>2
<1>3. CASE PromptThrows
  <2>1. TypeOK'
    BY <1>3 DEF TypeOK, PromptThrows, nets, loops
  <2>2. PromptInv' /\ ReasonInv' /\ ToolInv' /\ OutcomeTruthful'
    BY <1>3 DEF PromptInv, ReasonInv, ToolInv, OutcomeTruthful, PromptThrows, nets, loops
  <2>3. QED
    BY <2>1, <2>2
<1>4. CASE Finish
  <2>1. TypeOK'
    BY <1>4 DEF TypeOK, Finish, Outcome, nets, loops
  <2>2. PromptInv' /\ ReasonInv' /\ ToolInv'
    BY <1>4 DEF PromptInv, ReasonInv, ToolInv, Finish, nets, loops
  <2>3. OutcomeTruthful'
    BY <1>4 DEF TypeOK, ReasonInv, OutcomeTruthful, Finish, Outcome, Reasons, nets, loops
  <2>4. QED
    BY <2>1, <2>2, <2>3
<1>5. QED
  BY <1>1, <1>2, <1>3, <1>4

\* Every step keeps the invariant.
LEMMA InvStep == IInv /\ [Next]_vars => IInv'
<1> SUFFICES ASSUME IInv, [Next]_vars PROVE IInv'
  OBVIOUS
<1>1. CASE UNCHANGED vars
  BY <1>1 DEF IInv, TypeOK, PromptInv, ReasonInv, ToolInv, OutcomeTruthful,
              vars, session, nets, loops
<1>2. CASE Next
  BY <1>2, ActivityKeepsInv, NetsKeepInv, PromptKeepsInv DEF Next
<1>3. QED
  BY <1>1, <1>2

\* The invariant holds in every reachable state.
LEMMA InvHolds == Spec => []IInv
BY InitInv, InvStep, PTL DEF Spec

-----------------------------------------------------------------------------
\* Type correctness of the runner's variables.
THEOREM TypeCorrect == Spec => []TypeOK
<1>1. IInv => TypeOK
  BY DEF IInv
<1>2. QED
  BY <1>1, InvHolds, PTL

\* Whatever order nets, limits, the caller and the session act in, a completed
\* run was not stopped and an aborted one names what stopped it.
THEOREM OutcomeIsTrue == Spec => []OutcomeTruthful
<1>1. IInv => OutcomeTruthful
  BY DEF IInv
<1>2. QED
  BY <1>1, InvHolds, PTL

\* The first reason to abort stays.
THEOREM FirstReasonWins == Spec => FirstReasonStays
<1>1. IInv /\ [Next]_vars => [abortReason # None => abortReason' = abortReason]_vars
  BY DEF IInv, PromptInv, Next, Begin, CallerAborts, Activity, ToolStarts, ToolEnds,
         AssistantMessage, OtherMessage, TurnEnds, TimePasses, LivenessPoll, ToolTimeout,
         PromptReturns, PromptThrows, Finish, AbortFor, vars
<1>2. QED
  BY <1>1, InvHolds, PTL DEF Spec, FirstReasonStays

\* Where tool calls do not overlap, no tool in execution is taken for a hung
\* run, however long it takes.
THEOREM LongToolIsSpared == ~ParallelTools => (Spec => LongToolSpared)
<1> SUFFICES ASSUME ~ParallelTools PROVE Spec => LongToolSpared
  OBVIOUS
<1>1. IInv /\ [Next]_vars =>
        [abortReason' = "liveness" => abortReason = "liveness" \/ executing = {}]_vars
  <2> SUFFICES ASSUME IInv, Next, abortReason' = "liveness", abortReason # "liveness"
               PROVE  executing = {}
    OBVIOUS
  <2>1. CASE LivenessPoll
    BY <2>1 DEF IInv, ToolInv, LivenessPoll
  <2>2. CASE ~LivenessPoll
    BY <2>2, RunnerAssumption
       DEF Next, Begin, CallerAborts, Activity, ToolStarts, ToolEnds, AssistantMessage,
           OtherMessage, TurnEnds, TimePasses, ToolTimeout, PromptReturns, PromptThrows,
           Finish, AbortFor, Reasons
  <2>3. QED
    BY <2>1, <2>2
<1>2. QED
  BY <1>1, InvHolds, PTL DEF Spec, LongToolSpared

-----------------------------------------------------------------------------
(* The output contract.                                                    *)

Results == {"pending", "accepted", "refused", "duplicate"}

ReportTypes == said \in Seq(Results) /\ dropped \in Nat

\* The call in execution is the last one, and the only one without a result.
PendingInv ==
    /\ prompt = "waiting" => said = << >>
    /\ prompt = "running" =>
          /\ Report \in executing => said # << >>
          /\ \A i \in 1..Len(said) :
                said[i] = "pending" <=> i = Len(said) /\ Report \in executing

\* One report is accepted, and before one is a report is not a repeated one.
OnceInv ==
    /\ \A i, j \in 1..Len(said) : said[i] = "accepted" /\ said[j] = "accepted" => i = j
    /\ \A i \in 1..Len(said) : said[i] = "duplicate" => With("accepted") # {}

Answered ==
    /\ thinking \/ With("accepted") # {}
    /\ said # << >> \/ reminders = MaxReminders

\* A prompt that nobody stopped has returned for a reason of the contract.
ReturnInv ==
    prompt = "returned" /\ ~stopAsked /\ ~badStop => Answered /\ With("pending") = {}

\* What a run that is over hands up.
OverInv ==
    prompt = "over" =>
        /\ \A i \in With("accepted") : i > dropped => payload = i
        /\ outcome.status = "completed" =>
              Answered /\ payload \in With("accepted") \cup {NoPayload}

SessionInv == IInv /\ ReportTypes /\ PendingInv /\ OnceInv /\ ReturnInv /\ OverInv

-----------------------------------------------------------------------------
\* Every step of the session is one the runner allows for, or none of its own.
LEMMA RunnerSteps == SessionNext => [Next]_vars
<1> SUFFICES ASSUME SessionNext PROVE [Next]_vars
  OBVIOUS
<1>0. Report \in Tool /\ TextEntry \subseteq Entry
  BY ReportAssumption
<1>1. CASE RunnerStep
  BY <1>0, <1>1 DEF RunnerStep, Next, Activity
<1>2. CASE ReportStarts \/ \E valid \in BOOLEAN : ReportEnds(valid)
  BY <1>0, <1>2 DEF ReportStarts, ReportEnds, Next, Activity
<1>3. CASE \E t \in Tool : OtherTool(t)
  BY <1>3 DEF OtherTool, Next, Activity
<1>4. CASE \E full \in BOOLEAN : ChildTurnEnds(full)
  BY <1>4 DEF ChildTurnEnds, Next, Activity
<1>5. CASE \E upto \in 0..ReportBound : Compacted(upto)
  BY <1>5 DEF Compacted
<1>6. CASE AgentEnds
  BY <1>6 DEF AgentEnds, Reminded, LeftAlone, Next
<1>7. CASE RunOver
  BY <1>7 DEF RunOver, Next
<1>8. QED
  BY <1>1, <1>2, <1>3, <1>4, <1>5, <1>6, <1>7 DEF SessionNext

\* The session with its contract is a session the runner can have.
THEOREM ContractUnderRunner == SessionSpec => Spec
<1>1. ReportInit => Init
  BY DEF ReportInit
<1>2. [SessionNext]_sessionVars => [Next]_vars
  BY RunnerSteps DEF sessionVars
<1>3. QED
  BY <1>1, <1>2, PTL DEF SessionSpec, Spec

\* With the output contract in place the outcome of a run tells what happened,
\* and the first reason to abort stays.
THEOREM OutcomeWithContract == SessionSpec => []OutcomeTruthful /\ FirstReasonStays
BY ContractUnderRunner, OutcomeIsTrue, FirstReasonWins, PTL

-----------------------------------------------------------------------------
(* Steps of the runner that leave the reports alone.                       *)

\* A prompt that goes on, with or without a tool other than the report's.
LEMMA RunningKeeps ==
    ASSUME SessionInv, IInv', UNCHANGED <<thinking, said, reminders>>, dropped' \in Nat,
           prompt' = "running", prompt \in {"waiting", "running"},
           prompt = "waiting" => executing' = {},
           prompt = "running" => (Report \in executing' <=> Report \in executing)
    PROVE  SessionInv'
<1>1. ReportTypes' /\ OnceInv'
  BY DEF SessionInv, ReportTypes, OnceInv, With
<1>2. PendingInv'
  BY DEF SessionInv, PendingInv
<1>3. ReturnInv' /\ OverInv'
  BY DEF ReturnInv, OverInv
<1>4. QED
  BY <1>1, <1>2, <1>3 DEF SessionInv

\* A step outside the prompt, which may only add a wish to stop.
LEMMA OutsideKeeps ==
    ASSUME SessionInv, IInv', UNCHANGED <<reporting, prompt, badStop, outcome>>,
           stopAsked => stopAsked', prompt # "running"
    PROVE  SessionInv'
BY Zenon DEF SessionInv, ReportTypes, PendingInv, OnceInv, ReturnInv, OverInv, Answered,
             With, reporting

-----------------------------------------------------------------------------
(* The report tool.                                                        *)

\* A report starts.
LEMMA ReportStartsKeeps ==
    ASSUME SessionInv, IInv', ReportStarts
    PROVE  SessionInv'
<1>t. /\ said \in Seq(Results) /\ Len(said) \in Nat /\ dropped \in Nat
      /\ prompt = "running" /\ prompt' = "running" /\ Report \notin executing
      /\ executing' = executing \cup {Report}
      /\ said' = Append(said, "pending") /\ dropped' = dropped
  BY DEF SessionInv, ReportTypes, ReportStarts, ToolStarts
<1>1. /\ said' \in Seq(Results) /\ Len(said') = Len(said) + 1
      /\ said'[Len(said')] = "pending"
      /\ \A i \in 1..Len(said) : said'[i] = said[i] /\ said[i] # "pending"
  BY <1>t DEF SessionInv, PendingInv, Results
<1>2. ReportTypes'
  BY <1>t, <1>1 DEF ReportTypes
<1>3. PendingInv'
  <2>1. said' # << >>
    BY <1>t, <1>1
  <2>2. ASSUME NEW i \in 1..Len(said')
        PROVE  said'[i] = "pending" <=> i = Len(said')
    BY <1>t, <1>1
  <2>3. QED
    BY <1>t, <2>1, <2>2 DEF PendingInv
<1>4. OnceInv'
  <2>1. \A i \in 1..Len(said') : said'[i] # "pending" => i \in 1..Len(said) /\ said'[i] = said[i]
    BY <1>t, <1>1
  <2>2. With("accepted") \subseteq With("accepted")'
    BY <1>t, <1>1 DEF With
  <2>3. QED
    BY <2>1, <2>2 DEF SessionInv, OnceInv
<1>5. ReturnInv' /\ OverInv'
  BY <1>t DEF ReturnInv, OverInv
<1>6. QED
  BY <1>2, <1>3, <1>4, <1>5 DEF SessionInv

\* A report ends: accepted if it is valid and the first one to be accepted.
LEMMA ReportEndsKeeps ==
    ASSUME SessionInv, IInv', NEW valid \in BOOLEAN, ReportEnds(valid)
    PROVE  SessionInv'
<1> DEFINE n == Len(said)
<1>t. /\ said \in Seq(Results) /\ n \in Nat /\ dropped \in Nat
      /\ prompt = "running" /\ prompt' = "running" /\ Report \in executing
      /\ executing' = executing \ {Report}
      /\ said' = [said EXCEPT ![n] = Result(valid)] /\ dropped' = dropped
  BY DEF SessionInv, ReportTypes, ReportEnds, ToolEnds
<1>1. said # << >> /\ n \in 1..Len(said) /\ said[n] = "pending"
  BY <1>t DEF SessionInv, PendingInv
<1>2. Result(valid) \in Results \ {"pending"}
  BY DEF Result, Results
<1>3. /\ said' \in Seq(Results) /\ Len(said') = n /\ said'[n] = Result(valid)
      /\ \A i \in 1..n : i # n => said'[i] = said[i] /\ said[i] # "pending"
  BY <1>t, <1>1, <1>2 DEF SessionInv, PendingInv
<1>4. ReportTypes'
  BY <1>t, <1>3 DEF ReportTypes
<1>5. PendingInv'
  BY <1>t, <1>2, <1>3 DEF PendingInv
<1>6. \A i \in 1..n : said[i] = "accepted" => said'[i] = "accepted"
  BY <1>1, <1>3
<1>7. OnceInv'
  <2>1. ASSUME NEW i \in 1..n, NEW j \in 1..n, said'[i] = "accepted", said'[j] = "accepted"
        PROVE  i = j
    <3>1. CASE With("accepted") = {}
      <4>1. \A k \in 1..n : said[k] # "accepted"
        BY <3>1 DEF With
      <4>2. QED
        BY <1>3, <2>1, <4>1
    <3>2. CASE With("accepted") # {}
      <4>1. Result(valid) = "duplicate"
        BY <3>2 DEF Result
      <4>2. i # n /\ j # n
        BY <1>3, <2>1, <4>1
      <4>3. QED
        BY <1>3, <2>1, <4>2 DEF SessionInv, OnceInv
    <3>3. QED
      BY <3>1, <3>2
  <2>2. ASSUME NEW i \in 1..n, said'[i] = "duplicate"
        PROVE  With("accepted")' # {}
    <3>1. With("accepted") # {}
      <4>1. CASE i = n
        BY <1>3, <2>2, <4>1 DEF Result
      <4>2. CASE i # n
        BY <1>3, <2>2, <4>2 DEF SessionInv, OnceInv
      <4>3. QED
        BY <4>1, <4>2
    <3>2. QED
      BY <1>3, <1>6, <3>1 DEF With
  <2>3. QED
    BY <1>3, <2>1, <2>2 DEF OnceInv
<1>8. ReturnInv' /\ OverInv'
  BY <1>t DEF ReturnInv, OverInv
<1>9. QED
  BY <1>4, <1>5, <1>7, <1>8 DEF SessionInv

-----------------------------------------------------------------------------
(* The end.                                                                *)

\* The agent comes to its end, or gets another turn.
LEMMA AgentEndsKeeps ==
    ASSUME SessionInv, IInv', AgentEnds
    PROVE  SessionInv'
<1>t. /\ prompt = "running"
      /\ UNCHANGED <<thinking, said, dropped, compacting, payload>>
      /\ ReportTypes /\ PendingInv /\ OnceInv
  BY DEF SessionInv, AgentEnds, Reminded, LeftAlone, PromptReturns
<1>1. ReportTypes' /\ OnceInv'
  BY <1>t DEF ReportTypes, OnceInv, With
<1>2. CASE PromptReturns
  <2>1. prompt' = "returned" /\ stopAsked' = stopAsked /\ badStop' = badStop
    BY <1>2 DEF PromptReturns, loops
  <2>2. PendingInv' /\ OverInv'
    BY <2>1 DEF PendingInv, OverInv
  <2>3. ASSUME ~stopAsked, ~badStop
        PROVE  Answered' /\ With("pending")' = {}
    <3>1. executing = {} /\ With("pending") = {}
      BY <1>t, <1>2, <2>3 DEF PromptReturns, PendingInv, With
    <3>2. LeftAlone
      BY <1>t, <2>1, <2>3 DEF AgentEnds, Reminded, vars, session
    <3>3. thinking \/ With("accepted") # {}
      <4>1. thinking \/ Terminated
        BY <2>3 DEF AgentEnds, LoopMayEnd
      <4>2. ASSUME Terminated PROVE With("accepted") # {}
        <5>1. Len(said) \in 1..Len(said)
          BY <1>t, <4>2 DEF ReportTypes, Terminated
        <5>2. QED
          BY <1>t, <4>2, <5>1 DEF OnceInv, Terminated
      <4>3. QED
        BY <4>1, <4>2
    <3>4. QED
      BY <1>t, <3>1, <3>2, <3>3 DEF LeftAlone, Answered, With
  <2>4. ReturnInv'
    BY <2>1, <2>3 DEF ReturnInv
  <2>5. QED
    BY <1>1, <2>2, <2>4 DEF SessionInv
<1>3. CASE UNCHANGED vars
  <2>1. prompt' = "running" /\ executing' = executing
    BY <1>t, <1>3 DEF vars, session
  <2>2. PendingInv' /\ ReturnInv' /\ OverInv'
    BY <1>t, <2>1 DEF PendingInv, ReturnInv, OverInv
  <2>3. QED
    BY <1>1, <2>2 DEF SessionInv
<1>4. QED
  BY <1>2, <1>3 DEF AgentEnds, Reminded, LeftAlone

\* The first of a set without two elements is that element.
LEMMA FirstOfOne ==
    ASSUME NEW S \in SUBSET Nat, \A i, j \in S : i = j
    PROVE  (\A i \in S : First(S) = i) /\ First(S) \in S \cup {NoPayload}
<1>1. CASE S = {}
  BY <1>1 DEF First
<1>2. CASE S # {}
  <2>1. PICK i \in S : S = {i}
    BY <1>2
  <2>2. First({i}) = i
    <3>1. First({i}) = CHOOSE k \in {i} : \A j \in {i} : k <= j
      BY DEF First
    <3>2. \E k \in {i} : \A j \in {i} : k <= j
      BY <2>1
    <3>3. QED
      BY <3>1, <3>2
  <2>3. QED
    BY <2>1, <2>2
<1>3. QED
  BY <1>1, <1>2

\* What the service extracts is the accepted report, unless it is gone.
LEMMA ExtractedIsAccepted ==
    ASSUME SessionInv
    PROVE  /\ \A i \in With("accepted") : i > dropped => Extracted = i
           /\ With("pending") = {} => Extracted \in With("accepted") \cup {NoPayload}
<1> DEFINE kept == {i \in 1..Len(said) : i > dropped}
<1> DEFINE report == kept \cap With("accepted")
<1>t. /\ Len(said) \in Nat /\ kept \in SUBSET Nat /\ report \in SUBSET Nat
      /\ \A i, j \in report : i = j
  BY DEF SessionInv, ReportTypes, OnceInv, With
<1>1. (\A i \in report : First(report) = i) /\ First(report) \in report \cup {NoPayload}
  BY <1>t, FirstOfOne
<1>2. Extracted = IF kept \ With("pending") # {} THEN First(report) ELSE First(kept)
  BY DEF Extracted
<1>3. ASSUME NEW i \in With("accepted"), i > dropped
      PROVE  Extracted = i
  <2>1. i \in report /\ i \in kept \ With("pending")
    BY <1>3 DEF With
  <2>2. QED
    BY <1>1, <1>2, <2>1
<1>4. ASSUME With("pending") = {}
      PROVE  Extracted \in With("accepted") \cup {NoPayload}
  <2>1. CASE kept = {}
    <3>1. First(kept) = NoPayload
      BY <2>1 DEF First
    <3>2. QED
      BY <1>2, <2>1, <3>1
  <2>2. CASE kept # {}
    BY <1>1, <1>2, <1>4, <2>2
  <2>3. QED
    BY <2>1, <2>2
<1>5. QED
  BY <1>3, <1>4

\* The run is over and its payload extracted.
LEMMA RunOverKeeps ==
    ASSUME SessionInv, IInv', RunOver
    PROVE  SessionInv'
<1>t. /\ prompt' = "over" /\ payload' = Extracted
      /\ UNCHANGED <<thinking, said, dropped, reminders>>
  BY DEF RunOver, Finish, PromptThrows
<1>1. ReportTypes' /\ OnceInv' /\ PendingInv' /\ ReturnInv'
  BY <1>t DEF SessionInv, ReportTypes, OnceInv, PendingInv, ReturnInv, With
<1>2. \A i \in With("accepted")' : i > dropped' => payload' = i
  BY <1>t, ExtractedIsAccepted DEF With
<1>3. ASSUME outcome'.status = "completed"
      PROVE  Answered' /\ payload' \in With("accepted")' \cup {NoPayload}
  <2>1. prompt = "returned" /\ abortReason = None /\ ~badStop
    BY <1>3 DEF RunOver, Finish, PromptThrows, Outcome
  <2>2. ~stopAsked
    BY <2>1 DEF SessionInv, IInv, ReasonInv
  <2>3. Answered /\ With("pending") = {}
    BY <2>1, <2>2 DEF SessionInv, ReturnInv
  <2>4. Extracted \in With("accepted") \cup {NoPayload}
    BY <2>3, ExtractedIsAccepted
  <2>5. QED
    BY <1>t, <2>3, <2>4 DEF Answered, With
<1>4. OverInv'
  BY <1>2, <1>3 DEF OverInv
<1>5. QED
  BY <1>1, <1>4 DEF SessionInv

-----------------------------------------------------------------------------
\* The other steps of the runner.
LEMMA RunnerStepKeeps ==
    ASSUME SessionInv, IInv', RunnerStep
    PROVE  SessionInv'
<1>t. UNCHANGED <<thinking, said, reminders, dropped>> /\ dropped' \in Nat
      /\ UNCHANGED reporting
  BY DEF RunnerStep, reporting, SessionInv, ReportTypes
<1>1. CASE Begin
  <2>1. executing' = {}
    BY <1>1 DEF Begin, SessionInv, IInv, PromptInv
  <2>2. QED
    BY <1>t, <1>1, <2>1, RunningKeeps DEF Begin
<1>2. CASE CallerAborts
  <2>1. CASE prompt = "running"
    BY <1>t, <1>2, <2>1, RunningKeeps DEF CallerAborts
  <2>2. CASE prompt # "running"
    <3>1. UNCHANGED <<reporting, prompt, badStop, outcome>> /\ (stopAsked => stopAsked')
      BY <1>t, <1>2 DEF CallerAborts, loops
    <3>2. QED
      BY <2>2, <3>1, OutsideKeeps
  <2>3. QED
    BY <2>1, <2>2
<1>3. CASE \E call \in Entry, text \in TextEntry, bad \in BOOLEAN : AssistantMessage(call, text, bad)
  BY <1>t, <1>3, RunningKeeps DEF AssistantMessage, session
<1>4. CASE OtherMessage \/ TimePasses \/ LivenessPoll \/ ToolTimeout
  BY <1>t, <1>4, RunningKeeps DEF OtherMessage, TimePasses, LivenessPoll, ToolTimeout, session
<1>5. QED
  BY <1>1, <1>2, <1>3, <1>4 DEF RunnerStep

\* The invariant is inductive.
LEMMA SessionNextInv == SessionInv /\ [SessionNext]_sessionVars => SessionInv'
<1> SUFFICES ASSUME SessionInv, [SessionNext]_sessionVars PROVE SessionInv'
  OBVIOUS
<1>1. IInv'
  <2>1. [Next]_vars
    BY RunnerSteps DEF sessionVars
  <2>2. QED
    BY <2>1, InvStep DEF SessionInv
<1>2. CASE UNCHANGED sessionVars
  BY <1>1, <1>2, Zenon
     DEF sessionVars, vars, session, loops, SessionInv, ReportTypes, PendingInv, OnceInv,
         ReturnInv, OverInv, Answered, With, reporting
<1>3. CASE \E t \in Tool : OtherTool(t)
  <2>1. dropped' \in Nat
    BY <1>3 DEF OtherTool, SessionInv, ReportTypes
  <2>2. QED
    BY <1>1, <1>3, <2>1, RunningKeeps DEF OtherTool, ToolStarts, ToolEnds
<1>4. CASE \E full \in BOOLEAN : ChildTurnEnds(full)
  <2>1. dropped' \in Nat
    BY <1>4 DEF ChildTurnEnds, SessionInv, ReportTypes
  <2>2. QED
    BY <1>1, <1>4, <2>1, RunningKeeps DEF ChildTurnEnds, TurnEnds, session
<1>5. CASE \E upto \in 0..ReportBound : Compacted(upto)
  <2>1. dropped' \in Nat
    BY <1>5, ReportAssumption DEF Compacted
  <2>2. QED
    BY <1>1, <1>5, <2>1, RunningKeeps DEF Compacted, vars, session
<1>6. QED
  BY <1>1, <1>2, <1>3, <1>4, <1>5, RunnerStepKeeps, ReportStartsKeeps, ReportEndsKeeps,
     AgentEndsKeeps, RunOverKeeps DEF SessionNext

\* The invariant holds throughout.
THEOREM SessionInvariance == SessionSpec => []SessionInv
<1>1. ReportInit => SessionInv
  <2> SUFFICES ASSUME ReportInit PROVE SessionInv
    OBVIOUS
  <2>1. IInv /\ prompt = "waiting" /\ said = << >> /\ dropped = 0
    BY InitInv DEF ReportInit, Init
  <2>2. QED
    BY <2>1 DEF SessionInv, ReportTypes, PendingInv, OnceInv, ReturnInv, OverInv
<1>2. QED
  BY <1>1, SessionNextInv, PTL DEF SessionSpec

\* The output contract holds: at most one report is accepted, it is handed up
\* unless a compaction took it, and a completed run has reported or was
\* reminded in vain, and hands up nothing that was not accepted.
THEOREM ContractIsKept == SessionSpec => []ContractKept
<1>1. SessionInv => ContractKept
  <2> SUFFICES ASSUME SessionInv PROVE ContractKept
    OBVIOUS
  <2>1. Cardinality(With("accepted")) <= 1
    <3>1. CASE With("accepted") = {}
      BY <3>1, FS_EmptySet
    <3>2. CASE With("accepted") # {}
      <4>1. PICK i \in With("accepted") : With("accepted") = {i}
        BY <3>2 DEF SessionInv, OnceInv, With
      <4>2. QED
        BY <4>1, FS_Singleton
    <3>3. QED
      BY <3>1, <3>2
  <2>2. outcome.status = "completed" => prompt = "over"
    BY DEF SessionInv, IInv, PromptInv, NoOutcome
  <2>3. QED
    BY <2>1, <2>2 DEF SessionInv, OverInv, Answered, ContractKept, PayloadIsTheReport,
                      CompletedRunsAnswered
<1>2. QED
  BY <1>1, SessionInvariance, PTL
===============================================================================
