-------------------------- MODULE ReportingSession --------------------------
(***************************************************************************)
(* A child session with its output contract: the prompt that Runner        *)
(* watches, the report_role_result tool (src/src/report-tool.ts), the      *)
(* handlers the extension installs in the child                            *)
(* (output-contract-enforcer.ts, output-contract-proactive.ts,             *)
(* auto-compact-handler.ts), and the payload the service extracts from the *)
(* messages when the run is over (service.ts).                             *)
(***************************************************************************)
EXTENDS Runner, FiniteSets, Sequences

CONSTANTS
    Report,         \* the tool call slot in which report_role_result executes
    ReportBound,    \* bound of the model: report calls of a session
    TextEntry       \* bound of the model: what its texts may be to recentTexts

ASSUME ReportAssumption ==
    Report \in Tool /\ ReportBound \in Nat /\ TextEntry \subseteq Entry

VARIABLES
    thinking,       \* the provider's thinking mode is on
    said,           \* the report calls of the session and what became of each
    dropped,        \* the oldest of them a compaction took out of the messages
    reminders,      \* retries of the session
    compacting,     \* a compaction is in flight
    payload         \* what extractReportPayload returned, an index of said

reporting == <<thinking, said, dropped, reminders, compacting, payload>>
sessionVars == <<vars, reporting>>

MaxReminders == 2
NoPayload == 0

ReportInit ==
    /\ Init
    /\ thinking \in BOOLEAN
    /\ said = << >> /\ dropped = 0
    /\ reminders = 0 /\ compacting = FALSE /\ payload = NoPayload

With(result) == {i \in 1..Len(said) : said[i] = result}

-----------------------------------------------------------------------------
(* The report tool.                                                        *)

\* A message holds a call of the tool, and its execution starts.
ReportStarts ==
    /\ Len(said) < ReportBound
    /\ ToolStarts(Report)
    /\ said' = Append(said, "pending")
    /\ UNCHANGED <<thinking, dropped, reminders, compacting, payload>>

\* execute: accepted once per session, and only if valid by the role's schema.
Result(valid) ==
    IF With("accepted") # {} THEN "duplicate" ELSE IF valid THEN "accepted" ELSE "refused"

ReportEnds(valid) ==
    /\ ToolEnds(Report)
    /\ said' = [said EXCEPT ![Len(said)] = Result(valid)]
    /\ UNCHANGED <<thinking, dropped, reminders, compacting, payload>>

OtherTool(t) ==
    /\ t # Report
    /\ ToolStarts(t) \/ ToolEnds(t)
    /\ UNCHANGED <<thinking, said, dropped, reminders, compacting, payload>>

-----------------------------------------------------------------------------
(* The handlers in the child.                                              *)

\* turn_end, where a context that is full starts a compaction, unless one is
\* in flight.
ChildTurnEnds(full) ==
    /\ TurnEnds
    /\ compacting' = (compacting \/ full)
    /\ UNCHANGED <<thinking, said, dropped, reminders, payload>>

\* onComplete or onError: the guard is cleared.  What a compaction takes out of
\* the messages is decided outside the repository.
Compacted(upto) ==
    /\ prompt = "running" /\ compacting /\ compacting' = FALSE
    /\ upto \in dropped..Cardinality({i \in 1..Len(said) : said[i] # "pending"})
    /\ dropped' = upto
    /\ UNCHANGED <<vars, thinking, said, reminders, payload>>

\* A repeated report ends the agent's loop.
Terminated == said # << >> /\ said[Len(said)] = "duplicate"

\* With tool_choice "required" the loop ends on a tool that ends it, on a
\* provider that drops the message, or when it is told to stop.
LoopMayEnd == thinking \/ Terminated \/ badStop \/ stopAsked

\* agent_end without a call of the tool: a reminder is sent, which gives the
\* agent another turn unless its loop was aborted.
Reminded ==
    /\ said = << >> /\ reminders < MaxReminders
    /\ reminders' = reminders + 1
    /\ IF stopAsked \/ badStop THEN PromptReturns
       ELSE prompt = "running" /\ executing = {} /\ UNCHANGED vars

\* agent_end with a call, accepted or not, or when reminders did not help.
LeftAlone ==
    /\ said # << >> \/ reminders = MaxReminders
    /\ PromptReturns
    /\ UNCHANGED reminders

AgentEnds ==
    /\ LoopMayEnd
    /\ Reminded \/ LeftAlone
    /\ UNCHANGED <<thinking, said, dropped, compacting, payload>>

-----------------------------------------------------------------------------
(* The end of the run.                                                     *)

First(S) == IF S = {} THEN NoPayload ELSE CHOOSE i \in S : \A j \in S : i <= j

\* Defect: the first call is taken whether it was accepted or not.
ExtractedFirst == First({i \in 1..Len(said) : i > dropped})

\* The first call whose result says accepted; in messages without a result of
\* the tool, the first call.
Extracted ==
    LET kept == {i \in 1..Len(said) : i > dropped}
    IN  IF kept \ With("pending") # {} THEN First(kept \cap With("accepted"))
        ELSE First(kept)

RunOver ==
    /\ Finish \/ PromptThrows
    /\ payload' = Extracted
    /\ UNCHANGED <<thinking, said, dropped, reminders, compacting>>

\* What the output contract does not take part in.
RunnerStep ==
    /\ \/ Begin \/ CallerAborts \/ OtherMessage
       \/ \E call \in Entry, text \in TextEntry, bad \in BOOLEAN : AssistantMessage(call, text, bad)
       \/ TimePasses \/ LivenessPoll \/ ToolTimeout
    /\ UNCHANGED reporting

SessionNext ==
    \/ RunnerStep
    \/ ReportStarts \/ \E valid \in BOOLEAN : ReportEnds(valid)
    \/ \E t \in Tool : OtherTool(t)
    \/ \E full \in BOOLEAN : ChildTurnEnds(full)
    \/ \E upto \in 0..ReportBound : Compacted(upto)
    \/ AgentEnds \/ RunOver

SessionSpec == ReportInit /\ [][SessionNext]_sessionVars

\* As in Runner: time passes, timers fire, and an agent told to stop ends.
FairSession ==
    /\ SessionSpec
    /\ WF_sessionVars(RunnerStep /\ TimePasses)
    /\ WF_sessionVars(RunnerStep /\ LivenessPoll)
    /\ WF_sessionVars(RunnerStep /\ ToolTimeout)
    /\ WF_sessionVars(AgentEnds /\ stopAsked)
    /\ WF_sessionVars(RunOver /\ prompt = "returned")

-----------------------------------------------------------------------------
(* Properties.                                                             *)

\* At most one report is accepted, and it is the payload unless a compaction
\* took it out of the messages; a run reported completed hands up no payload
\* that was not accepted.
PayloadIsTheReport ==
    /\ Cardinality(With("accepted")) <= 1
    /\ prompt = "over" =>
          /\ \A i \in With("accepted") : i > dropped => payload = i
          /\ outcome.status = "completed" => payload \in With("accepted") \cup {NoPayload}

\* A run that completes has reported when its tool calls were forced, and was
\* reminded as often as allowed when it never called the tool.
CompletedRunsAnswered ==
    outcome.status = "completed" =>
        /\ thinking \/ With("accepted") # {}
        /\ said # << >> \/ reminders = MaxReminders

\* The output contract of a session.
ContractKept == PayloadIsTheReport /\ CompletedRunsAnswered
=============================================================================
