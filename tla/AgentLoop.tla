----------------------------- MODULE AgentLoop ------------------------------
(***************************************************************************)
(* run_agent (src/adaptive/graph/agent_subgraph.py): plan, act, observe,   *)
(* check, until a hard stop.  One query; every await is a step of its own  *)
(* that takes time and may time out, raise or return.  The Budget object   *)
(* is shared with the tools the agent calls, and with whoever charged it   *)
(* before.  Time is counted in ticks since run_agent started.              *)
(***************************************************************************)
EXTENDS Integers, FiniteSets

CONSTANTS
    Tool,         \* values of RouteTool
    Query,        \* focused queries, white space normalised (action_key)
    Allowed,      \* policy.allowed_tools
    Available,    \* keys of deps.tools
    SelfCharging, \* tools that also charge the budget themselves (parametric)
    PolicySteps,  \* policy.max_steps
    MaxSteps, MaxTokens, MaxCost, MaxWall, \* the budget
    BudgetAge,    \* ticks from the budget's start_time to run_agent
    Guarded,      \* a guardrail runner is wired
    Usage,        \* bound: tokens, or cost, one call reports
    Overtime,     \* bound: ticks a call without a timeout takes
    Overrun,      \* bound: ticks a call outlasts the timeout wait_for gave it
    NoTool

ASSUME AgentAssumption ==
    /\ Allowed \subseteq Tool /\ Available \subseteq Tool /\ SelfCharging \subseteq Tool
    /\ PolicySteps \in Nat \ {0}
    /\ MaxSteps \in Nat /\ MaxTokens \in Nat /\ MaxCost \in Nat /\ MaxWall \in Nat
    /\ BudgetAge \in Nat /\ Guarded \in BOOLEAN
    /\ Usage \in Nat /\ Overtime \in Nat /\ Overrun \in Nat
    /\ NoTool \notin Tool

Action == [tool : Tool, query : Query]

\* ToolResult: whether its status is success, whether it has text or rows,
\* whether it has citations by chunk id, and whether its tenant and acl pass
\* check_tool_result.
Observation == [success : BOOLEAN, text : BOOLEAN, cited : BOOLEAN, cleared : BOOLEAN]

Reason == {"answer_complete", "max_steps", "max_tokens", "max_cost", "timeout",
           "repeated_action", "tool_failure", "insufficient_evidence"}
Answer == [status : {"none", "grounded", "partial", "refused"},
           reason : Reason \cup {"none"}]

NoAnswer == [status |-> "none", reason |-> "none"]

VARIABLES
    pc,           \* the await run_agent is at, or how it ended
    step,         \* current.current_step
    tool,         \* action.tool of the last action executed
    observations, \* current.observations, then next_state's
    seen,         \* action keys so far
    budget,       \* Budget: tokens, cost and steps charged
    clock,        \* ticks since run_agent started
    remaining,    \* remaining_time as last computed
    answer,
    executions,   \* history: tool calls made
    judged        \* history: the evidence last found sufficient

vars == <<pc, step, tool, observations, seen, budget, clock, remaining, answer,
          executions, judged>>

TypeOK ==
    /\ pc \in {"head", "planning", "acting", "checking", "synthesizing",
               "answered", "raised"}
    /\ step \in Nat
    /\ tool \in Tool \cup {NoTool}
    /\ observations \subseteq Observation
    /\ seen \subseteq Action
    /\ budget \in [tokens : Nat, cost : Nat, steps : Nat]
    /\ clock \in Nat
    /\ remaining \in 0..MaxWall
    /\ answer \in Answer
    /\ executions \in Nat
    /\ judged \subseteq Observation

\* Callers may hand over a budget already charged.
Init ==
    /\ pc = "head"
    /\ step = 0
    /\ tool = NoTool
    /\ observations = {}
    /\ seen = {}
    /\ budget \in [tokens : 0..Usage, cost : 0..Usage, steps : {0}]
    /\ clock = 0
    /\ remaining = 0
    /\ answer = NoAnswer
    /\ executions = 0
    /\ judged = {}

-----------------------------------------------------------------------------
(* Budget and clock.                                                       *)

\* Budget.charge.
Charged(b, tokens, cost, steps) ==
    [tokens |-> b.tokens + tokens, cost |-> b.cost + cost, steps |-> b.steps + steps]

\* The budget's own clock started BudgetAge earlier than the agent's.
WallExceeded == clock + BudgetAge >= MaxWall

\* Mutant: only time and cost are looked at.
TokensIgnored == budget.cost >= MaxCost \/ WallExceeded

\* Budget.exceeded, the steps apart.
Exceeded ==
    \/ budget.tokens >= MaxTokens
    \/ budget.cost >= MaxCost
    \/ WallExceeded

\* Mutant: the limit is one step too late.
PastStepLimit == step > PolicySteps \/ budget.steps > MaxSteps

AtStepLimit == step >= PolicySteps \/ budget.steps >= MaxSteps

Elapses(limit) == \E d \in 0..limit : clock' = clock + d

\* Mutant: the call is awaited without wait_for.
Unlimited == Elapses(2 * MaxWall)

\* wait_for cuts a call off when the time is up, if the call lets it: a tool
\* whose fetcher blocks the event loop, or that loses the cancellation inside a
\* wait_for of its own (web_tool.py:73-77, Python 3.11), goes on, and what it
\* then returns or raises is taken as if it had been in time.
Limited == Elapses(remaining + Overrun)

\* Mutant: the time left is not kept from falling below zero.
Unclamped(now) == MaxWall - now

\* max(0.001, remaining_time), less than a tick when the time is up.
TimeLeft(now) == IF now >= MaxWall THEN 0 ELSE MaxWall - now

\* The model call charges what the generator reports.
ModelCharge == \E u, v \in 0..Usage : budget' = Charged(budget, u, v, 0)

-----------------------------------------------------------------------------
(* How the loop ends.                                                      *)

Finish(status, reason) ==
    /\ pc' = "answered"
    /\ answer' = [status |-> status, reason |-> reason]

Refuse(reason) == Finish("refused", reason)

\* What check_output may say of an answer: with no text among the evidence it
\* refuses; a canned refusal has no citations and is qualified; a synthesized
\* text may be denied or qualified, and allowed only with citations.
Verdicts(refusal) ==
    IF ~\E o \in observations : o.text THEN {"refuse"}
    ELSE IF refusal THEN {"qualify"}
    ELSE {"deny", "qualify"} \cup
         (IF \E o \in observations : o.cited THEN {"allow"} ELSE {})

\* _guard_output on an answer of the given status.
Guard(status, reason) ==
    \/ ~Guarded /\ Finish(status, reason)
    \/ /\ Guarded
       /\ \E v \in Verdicts(status = "refused") :
             Finish(CASE v \in {"deny", "refuse"} -> "refused"
                      [] v = "qualify"            -> "partial"
                      [] v = "allow"              -> status, reason)

-----------------------------------------------------------------------------
(* The head of the loop.                                                   *)

StopAtStepLimit ==
    /\ pc = "head" /\ AtStepLimit
    /\ Refuse("max_steps")
    /\ UNCHANGED <<step, tool, observations, seen, budget, clock, remaining,
                   executions, judged>>

StopOverBudget ==
    /\ pc = "head" /\ ~AtStepLimit /\ Exceeded
    /\ Refuse(IF clock >= MaxWall THEN "timeout"
              ELSE IF budget.tokens >= MaxTokens THEN "max_tokens" ELSE "max_cost")
    /\ UNCHANGED <<step, tool, observations, seen, budget, clock, remaining,
                   executions, judged>>

\* Both clocks run alike, so time is left here (lines 122-136 never refuse).
BeginPlan ==
    /\ pc = "head" /\ ~AtStepLimit /\ ~Exceeded
    /\ pc' = "planning"
    /\ remaining' = TimeLeft(clock)
    /\ UNCHANGED <<step, tool, observations, seen, budget, clock, answer,
                   executions, judged>>

-----------------------------------------------------------------------------
(* plan                                                                    *)

PlanFails ==
    /\ pc = "planning"
    /\ Limited
    /\ \E reason \in {"timeout", "tool_failure"} : Refuse(reason)
    /\ UNCHANGED <<step, tool, observations, seen, budget, remaining, executions, judged>>

\* A well-formed action: the call is charged, then the action looked at.
Planned ==
    /\ pc = "planning"
    /\ Limited
    /\ ModelCharge

\* action.done before any check found the evidence sufficient.
PlanGivesUp ==
    /\ Planned
    /\ Guard("refused", "insufficient_evidence")
    /\ UNCHANGED <<step, tool, observations, seen, remaining, executions, judged>>

\* A tool the policy or the deployment lacks.
PlanNamesBadTool ==
    /\ Planned
    /\ Allowed \cap Available # Tool
    /\ Refuse("tool_failure")
    /\ UNCHANGED <<step, tool, observations, seen, remaining, executions, judged>>

\* Mutant: a repeated action is skipped, the next one asked for.
PlanSkipsRepeated ==
    /\ Planned
    /\ seen # {}
    /\ pc' = "head"
    /\ UNCHANGED <<step, tool, observations, seen, remaining, answer, executions, judged>>

PlanRepeats ==
    /\ Planned
    /\ seen # {}
    /\ Refuse("repeated_action")
    /\ UNCHANGED <<step, tool, observations, seen, remaining, executions, judged>>

\* Mutant: the key is remembered, never looked up.
ExecuteAgain(a) ==
    /\ seen' = seen \cup {a}
    /\ executions' = executions + 1

Execute(a) ==
    /\ a \notin seen
    /\ seen' = seen \cup {a}
    /\ executions' = executions + 1

PlanActs(a) ==
    /\ Planned
    /\ a.tool \in Allowed \cap Available
    /\ Execute(a)
    /\ pc' = "acting"
    /\ tool' = a.tool
    /\ remaining' = TimeLeft(clock')
    /\ UNCHANGED <<step, observations, answer, judged>>

-----------------------------------------------------------------------------
(* act and observe                                                         *)

ToolTimesOut ==
    /\ pc = "acting"
    /\ Limited
    /\ Refuse("timeout")
    /\ UNCHANGED <<step, tool, observations, seen, budget, remaining, executions, judged>>

\* Only TimeoutError is caught around a tool.
ToolRaises ==
    /\ pc = "acting"
    /\ Limited
    /\ pc' = "raised"
    /\ UNCHANGED <<step, tool, observations, seen, budget, remaining, answer,
                   executions, judged>>

\* Mutant: the guardrail's verdict on a tool result is not looked at.
NeverDenied(o) == FALSE

Denied(o) == Guarded /\ ~o.cleared

\* A parametric result comes from no chunks.
Returns(o) == pc = "acting" /\ (tool \in SelfCharging => o.cleared /\ ~o.cited)

\* A result the guardrail denies is dropped, and the call is not charged.
ToolDenied(o) ==
    /\ Returns(o) /\ Denied(o)
    /\ Limited
    /\ Refuse("tool_failure")
    /\ UNCHANGED <<step, tool, observations, seen, budget, remaining, executions,
                   judged>>

\* A tool that charges its usage itself is charged a second time.
Times == IF tool \in SelfCharging THEN 2 ELSE 1

\* The result is kept and its call charged.
Observe(o) ==
    /\ Returns(o) /\ ~Denied(o)
    /\ Limited
    /\ \E u, v \in 0..Usage : budget' = Charged(budget, Times * u, Times * v, 1)
    /\ observations' = observations \cup {o}
    /\ step' = step + 1

ToolFails(o) ==
    /\ Observe(o)
    /\ ~o.success
    /\ Refuse("tool_failure")
    /\ UNCHANGED <<tool, seen, remaining, executions, judged>>

ToolSucceeds(o) ==
    /\ Observe(o)
    /\ o.success
    /\ pc' = "checking"
    /\ UNCHANGED <<tool, seen, remaining, answer, executions, judged>>

-----------------------------------------------------------------------------
(* check: the time allowed is the one computed before the tool was called. *)

CheckFails ==
    /\ pc = "checking"
    /\ Limited
    /\ \E reason \in {"timeout", "tool_failure"} : Refuse(reason)
    /\ UNCHANGED <<step, tool, observations, seen, budget, remaining, executions, judged>>

\* A checker of the caller's charges nothing, the generator what it reports.
Checked ==
    /\ pc = "checking"
    /\ Limited
    /\ ModelCharge

CheckInsufficient ==
    /\ Checked
    /\ pc' = "head"
    /\ UNCHANGED <<step, tool, observations, seen, remaining, answer, executions, judged>>

CheckSufficient ==
    /\ Checked
    /\ judged' = observations
    /\ pc' = "synthesizing"
    /\ UNCHANGED <<step, tool, observations, seen, remaining, answer, executions>>

-----------------------------------------------------------------------------
(* synthesize: nothing limits the time it takes, nothing catches it.       *)

SynthesisRaises ==
    /\ pc = "synthesizing"
    /\ Elapses(Overtime)
    /\ pc' = "raised"
    /\ UNCHANGED <<step, tool, observations, seen, budget, remaining, answer,
                   executions, judged>>

Synthesize ==
    /\ pc = "synthesizing"
    /\ Elapses(Overtime)
    /\ ModelCharge
    /\ Guard("grounded", "answer_complete")
    /\ UNCHANGED <<step, tool, observations, seen, remaining, executions, judged>>

-----------------------------------------------------------------------------
Head == StopAtStepLimit \/ StopOverBudget \/ BeginPlan
Plan == \/ PlanFails \/ PlanGivesUp \/ PlanNamesBadTool \/ PlanRepeats
        \/ \E a \in Action : PlanActs(a)
Act == \/ ToolTimesOut \/ ToolRaises
       \/ \E o \in Observation : ToolDenied(o) \/ ToolFails(o) \/ ToolSucceeds(o)
Check == CheckFails \/ CheckInsufficient \/ CheckSufficient
Answering == SynthesisRaises \/ Synthesize

Next == Head \/ Plan \/ Act \/ Check \/ Answering

Spec == Init /\ [][Next]_vars

\* Every await ends: wait_for cuts off all of them but the synthesis, whose
\* provider answers or raises, and the calls that do not let it, whose fetchers
\* return.
FairSpec == Spec /\ WF_vars(Next)
-----------------------------------------------------------------------------
(* Properties.                                                             *)

\* Both step limits hold, the policy's and the budget's, whatever the planner
\* asks for, and steps charged never outrun the calls made.
StepsBounded ==
    /\ executions <= PolicySteps /\ executions <= MaxSteps
    /\ budget.steps <= executions

\* No action is executed twice (action_key, lines 216-231).
NoActionTwice == executions = Cardinality(seen)

\* A grounded answer rests on evidence that was checked as it stands, and with
\* guardrails wired only on results that passed them, some of them cited.
GroundedOnEvidence ==
    answer.status = "grounded" =>
        /\ answer.reason = "answer_complete"
        /\ judged = observations /\ observations # {}
        /\ \A o \in observations : o.success
        /\ Guarded => /\ \A o \in observations : o.cleared
                      /\ \E o \in observations : o.cited

\* The limits are tested at the head of the loop only: plan, act, check and
\* synthesize may each overshoot them, a self-charging tool by two calls.
Overshoot == (IF SelfCharging = {} THEN 4 ELSE 5) * Usage

OvershootBounded ==
    /\ budget.tokens <= MaxTokens + Overshoot
    /\ budget.cost <= MaxCost + Overshoot

\* However many rounds the loop makes, the time it takes is bounded: the check
\* gets the time the tool had, the synthesis any time, and a call that outlasts
\* its timeout leaves the rest of its round no time and is in the last round, so
\* plan, tool and check overrun once each at the most.
WallBounded == clock <= 2 * MaxWall + Overtime + 3 * Overrun

\* The loop stops; without an answer only when a tool or the synthesis raised.
Terminates == <>(pc \in {"answered", "raised"})
=============================================================================
