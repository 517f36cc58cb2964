------------------------------- MODULE Runner -------------------------------
(***************************************************************************)
(* runSubagent (src/src/subagent/runner.ts): one prompt of a child         *)
(* session, watched by the nets that may abort it.  The first reason to    *)
(* abort is kept, and the outcome is computed when the prompt is over.     *)
(*                                                                         *)
(* The session is the environment: it emits events in any order a turn     *)
(* allows, may hang at any moment, and stops some time after it is told    *)
(* to.  Time is one bit: whether livenessMs have passed since lastActivity.*)
(***************************************************************************)
EXTENDS Naturals

CONSTANTS
    Tool,           \* tool calls that may be in execution
    ParallelTools,  \* the session executes the calls of one message at once
    MaxTurns,       \* maxTurns
    TurnBound,      \* bound of the model: turns of a session that is stopping
    None

Reasons == {"step-limit", "liveness", "caller-abort", "doom-loop", "tool-timeout"}

ASSUME RunnerAssumption ==
    /\ ParallelTools \in BOOLEAN
    /\ MaxTurns \in Nat \ {0} /\ TurnBound \in Nat /\ MaxTurns <= TurnBound
    /\ None \notin Tool \cup Reasons

VARIABLES
    prompt,         \* "waiting", "running", "returned" or "over"
    fired,          \* the caller's signal has fired
    stopAsked,      \* session.abort() was called during the prompt
    executing,      \* tool calls the session executes
    abortReason, turnCount, toolInProgress,
    activeTool,     \* the tool call the activeToolTimer is for
    quiet,          \* livenessMs have passed since lastActivity
    toolRun,        \* equal entries at the end of recentToolSigs
    textRun,        \* equal entries at the end of recentTexts
    badStop,        \* lastAssistantStopReason is "aborted" or "error"
    outcome         \* status and reason of the outcome

session == <<prompt, fired, executing>>
nets == <<toolInProgress, activeTool, quiet>>
loops == <<toolRun, textRun, badStop>>
vars == <<session, stopAsked, abortReason, turnCount, nets, loops, outcome>>

NoOutcome == [status |-> "none", reason |-> "none"]

Init ==
    /\ prompt = "waiting" /\ fired = FALSE /\ stopAsked = FALSE /\ executing = {}
    /\ abortReason = None /\ turnCount = 0
    /\ toolInProgress = FALSE /\ activeTool = None /\ quiet = FALSE
    /\ toolRun = 0 /\ textRun = 0 /\ badStop = FALSE
    /\ outcome = NoOutcome

-----------------------------------------------------------------------------
\* if (abortReason === null) { abortReason = reason; session.abort(); }
AbortFor(reason, when) ==
    IF when /\ abortReason = None
    THEN /\ abortReason' = reason
         /\ stopAsked' = TRUE
    ELSE UNCHANGED <<abortReason, stopAsked>>

\* A signal that fired before is noted and the session aborted, which has no
\* effect yet; then the prompt begins.
Begin ==
    /\ prompt = "waiting" /\ prompt' = "running"
    /\ abortReason' = IF fired THEN "caller-abort" ELSE None
    /\ UNCHANGED <<fired, stopAsked, executing, turnCount, nets, loops, outcome>>

\* onCallerAbort, which asks the session to stop whatever the reason is.
CallerAborts ==
    /\ ~fired /\ fired' = TRUE
    /\ IF prompt \in {"running", "returned"}
       THEN /\ abortReason' = IF abortReason = None THEN "caller-abort" ELSE abortReason
            /\ stopAsked' = TRUE
       ELSE UNCHANGED <<abortReason, stopAsked>>
    /\ UNCHANGED <<prompt, executing, turnCount, nets, loops, outcome>>

-----------------------------------------------------------------------------
(* Events of the session.                                                  *)

\* Defect: the start of a tool does not pause the liveness clock.
ToolStartsUnnoticed(t) ==
    /\ prompt = "running" /\ t \notin executing
    /\ ParallelTools \/ executing = {}
    /\ executing' = executing \cup {t}
    /\ activeTool' = t
    /\ UNCHANGED <<prompt, fired, stopAsked, abortReason, turnCount, toolInProgress,
                   quiet, loops, outcome>>

\* tool_execution_start: the clock pauses, the one timer is set for this call.
ToolStarts(t) ==
    /\ prompt = "running" /\ t \notin executing
    /\ ParallelTools \/ executing = {}
    /\ executing' = executing \cup {t}
    /\ toolInProgress' = TRUE /\ activeTool' = t
    /\ UNCHANGED <<prompt, fired, stopAsked, abortReason, turnCount, quiet, loops, outcome>>

\* Defect: the end of a tool does not resume the liveness clock.
ToolEndsPaused(t) ==
    /\ prompt = "running" /\ t \in executing
    /\ executing' = executing \ {t}
    /\ activeTool' = None /\ quiet' = FALSE
    /\ UNCHANGED <<prompt, fired, stopAsked, abortReason, turnCount, toolInProgress,
                   loops, outcome>>

\* tool_execution_end: the clock resumes, the timer is cleared.
ToolEnds(t) ==
    /\ prompt = "running" /\ t \in executing
    /\ executing' = executing \ {t}
    /\ toolInProgress' = FALSE /\ activeTool' = None /\ quiet' = FALSE
    /\ UNCHANGED <<prompt, fired, stopAsked, abortReason, turnCount, loops, outcome>>

\* message_update, or a message_end that is not the assistant's.
OtherMessage ==
    /\ prompt = "running" /\ quiet /\ quiet' = FALSE
    /\ UNCHANGED <<session, stopAsked, abortReason, turnCount, toolInProgress,
                   activeTool, loops, outcome>>

\* The window of three after an entry that is absent, new, or the last again.
Pushed(run, entry) ==
    CASE entry = "none"  -> run
      [] entry = "other" -> 1
      [] entry = "same"  -> IF run = 3 THEN 3 ELSE run + 1

\* message_end of the assistant: doom-loop detection on calls and on texts.
AssistantMessage(call, text, bad) ==
    /\ prompt = "running" /\ executing = {}
    /\ quiet' = FALSE /\ badStop' = bad
    /\ toolRun' = Pushed(toolRun, call) /\ textRun' = Pushed(textRun, text)
    /\ AbortFor("doom-loop", toolRun' = 3 \/ (text # "none" /\ textRun' = 3))
    /\ UNCHANGED <<session, turnCount, toolInProgress, activeTool, outcome>>

\* turn_end.
TurnEnds ==
    /\ prompt = "running" /\ executing = {} /\ turnCount < TurnBound
    /\ turnCount' = turnCount + 1 /\ quiet' = FALSE
    /\ AbortFor("step-limit", turnCount' >= MaxTurns)
    /\ UNCHANGED <<session, toolInProgress, activeTool, loops, outcome>>

-----------------------------------------------------------------------------
(* Timers.                                                                 *)

TimePasses ==
    /\ prompt = "running" /\ ~quiet /\ quiet' = TRUE
    /\ UNCHANGED <<session, stopAsked, abortReason, turnCount, toolInProgress,
                   activeTool, loops, outcome>>

\* The livenessTimer.
LivenessPoll ==
    /\ prompt = "running" /\ ~toolInProgress /\ quiet /\ abortReason = None
    /\ AbortFor("liveness", TRUE)
    /\ UNCHANGED <<session, turnCount, nets, loops, outcome>>

\* The activeToolTimer fires, once.
ToolTimeout ==
    /\ prompt = "running" /\ activeTool # None
    /\ activeTool' = None
    /\ AbortFor("tool-timeout", TRUE)
    /\ UNCHANGED <<session, turnCount, toolInProgress, quiet, loops, outcome>>

-----------------------------------------------------------------------------
(* The end.                                                                *)

\* prompt() resolves: the task is done, or the session was told to stop.
PromptReturns ==
    /\ prompt = "running" /\ (executing = {} \/ stopAsked)
    /\ prompt' = "returned" /\ executing' = {}
    /\ UNCHANGED <<fired, stopAsked, abortReason, turnCount, nets, loops, outcome>>

\* prompt() rejects.
PromptThrows ==
    /\ prompt = "running"
    /\ prompt' = "over" /\ executing' = {}
    /\ outcome' = [status |-> "error", reason |-> "error"]
    /\ UNCHANGED <<fired, stopAsked, abortReason, turnCount, nets, loops>>

\* Defect: how the last message stopped is not looked at.
OutcomeUnlooked ==
    IF abortReason # None THEN [status |-> "aborted", reason |-> abortReason]
    ELSE [status |-> "completed", reason |-> "none"]

Outcome ==
    IF abortReason # None THEN [status |-> "aborted", reason |-> abortReason]
    ELSE IF badStop THEN [status |-> "aborted", reason |-> "provider-abort"]
    ELSE [status |-> "completed", reason |-> "none"]

\* The code behind the prompt, and the finally block.
Finish ==
    /\ prompt = "returned" /\ prompt' = "over"
    /\ outcome' = Outcome
    /\ UNCHANGED <<fired, stopAsked, executing, abortReason, turnCount, nets, loops>>

-----------------------------------------------------------------------------
Entry == {"none", "same", "other"}

Activity ==
    \/ \E t \in Tool : ToolStarts(t) \/ ToolEnds(t)
    \/ \E call, text \in Entry, bad \in BOOLEAN : AssistantMessage(call, text, bad)
    \/ OtherMessage \/ TurnEnds

Next ==
    \/ Begin \/ CallerAborts \/ Activity
    \/ TimePasses \/ LivenessPoll \/ ToolTimeout
    \/ PromptReturns \/ PromptThrows \/ Finish

Spec == Init /\ [][Next]_vars

\* Time passes, timers fire, and a prompt that was told to stop returns.
\* Nothing makes the session produce an event or return by itself.
FairSpec ==
    /\ Spec
    /\ WF_vars(TimePasses) /\ WF_vars(LivenessPoll) /\ WF_vars(ToolTimeout)
    /\ WF_vars(PromptReturns /\ stopAsked) /\ WF_vars(Finish)

-----------------------------------------------------------------------------
(* Properties.                                                             *)

\* The types of the runner's variables; the windows hold three entries.
TypeOK ==
    /\ prompt \in {"waiting", "running", "returned", "over"}
    /\ fired \in BOOLEAN /\ stopAsked \in BOOLEAN /\ executing \subseteq Tool
    /\ abortReason \in Reasons \cup {None}
    /\ turnCount \in 0..TurnBound
    /\ toolInProgress \in BOOLEAN /\ activeTool \in Tool \cup {None} /\ quiet \in BOOLEAN
    /\ toolRun \in 0..3 /\ textRun \in 0..3 /\ badStop \in BOOLEAN
    /\ outcome \in [status : {"none", "completed", "aborted", "error"},
                    reason : Reasons \cup {"none", "error", "provider-abort"}]

\* Nets, limits and the caller race for one reason: the first one stays.
FirstReasonStays == [][abortReason # None => abortReason' = abortReason]_vars

\* A run that is reported completed was not asked to stop by anybody, stayed
\* below its limits, and its provider did not drop the last message; one that
\* is reported aborted names what stopped it.
OutcomeTruthful ==
    /\ outcome.status = "completed" =>
          /\ ~stopAsked /\ ~badStop
          /\ turnCount < MaxTurns /\ toolRun < 3 /\ textRun < 3
    /\ outcome.status = "aborted" =>
          IF outcome.reason = "provider-abort" THEN badStop /\ ~stopAsked
          ELSE outcome.reason = abortReason

\* A tool in execution, however long, is no reason to call the run hung.
LongToolSpared ==
    [][abortReason' = "liveness" => abortReason = "liveness" \/ executing = {}]_vars

\* A run whose session falls silent, in a tool or in the provider, or is told
\* to stop, ends.
SilentRunEnds ==
    <>[][~Activity]_vars => (prompt = "running" /\ abortReason = None ~> prompt = "over")
=============================================================================
