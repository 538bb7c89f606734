-------------------------- MODULE AgentLoopProofs ---------------------------
(***************************************************************************)
(* Proofs about AgentLoop: type correctness, and for every tool set,       *)
(* policy and budget the step, action, budget, time and evidence bounds    *)
(* the runs check on a small instance.  None of the bounds is inductive:   *)
(* each is strengthened by what holds at each await of the loop.           *)
(***************************************************************************)
EXTENDS AgentLoop, FiniteSetTheorems, TLAPS

-----------------------------------------------------------------------------
(* Type correctness, with the limit on each await that it rests on.        *)

\* What is left of the wall time while an await is limited by it, and how far
\* past it each await may get: one overrun more with each of a round.
TimeKept ==
    /\ pc = "planning" => clock + remaining <= MaxWall
    /\ pc = "acting" => clock + remaining <= MaxWall + Overrun
    /\ pc = "checking" => clock <= MaxWall + 2 * Overrun
    /\ pc \in {"head", "synthesizing"} => clock <= 2 * MaxWall + 3 * Overrun
    /\ WallBounded

Typed == TypeOK /\ TimeKept

LEMMA ElapsesTyped ==
    ASSUME clock \in Nat, NEW limit \in Nat, Elapses(limit)
    PROVE  clock' \in Nat /\ clock <= clock' /\ clock' <= clock + limit
BY DEF Elapses

\* An await that wait_for limits ends within the time left and one overrun.
LEMMA LimitedTyped ==
    ASSUME TypeOK, Limited
    PROVE  clock' \in Nat /\ clock' <= clock + remaining + Overrun
<1>1. remaining \in Nat /\ Overrun \in Nat /\ remaining + Overrun \in Nat /\ clock \in Nat
    BY AgentAssumption DEF TypeOK
<1>2. QED
    BY <1>1, ElapsesTyped DEF Limited

LEMMA RestOfWall ==
    ASSUME NEW at \in Nat
    PROVE  /\ TimeLeft(at) \in 0..MaxWall
           /\ at <= MaxWall => at + TimeLeft(at) <= MaxWall
           /\ at <= MaxWall + Overrun => at + TimeLeft(at) <= MaxWall + Overrun
BY AgentAssumption DEF TimeLeft

LEMMA ModelChargeTyped ==
    ASSUME TypeOK, ModelCharge
    PROVE  /\ budget' \in [tokens : Nat, cost : Nat, steps : Nat]
           /\ budget'.tokens <= budget.tokens + Usage
           /\ budget'.cost <= budget.cost + Usage
           /\ budget'.steps = budget.steps
BY AgentAssumption DEF TypeOK, ModelCharge, Charged

LEMMA GuardTyped ==
    ASSUME NEW status \in {"grounded", "refused"}, NEW reason \in Reason,
           Guard(status, reason)
    PROVE  /\ pc' = "answered" /\ answer' \in Answer
           /\ answer'.reason = reason
           /\ answer'.status = "grounded" =>
                 /\ status = "grounded"
                 /\ Guarded => \E o \in observations : o.cited
<1>1. CASE ~Guarded
    BY <1>1 DEF Guard, Finish, Answer
<1>2. CASE Guarded
    BY <1>2 DEF Guard, Finish, Answer, Verdicts
<1>3. QED
    BY <1>1, <1>2

LEMMA RefuseTyped ==
    ASSUME NEW reason \in Reason, Refuse(reason)
    PROVE  pc' = "answered" /\ answer' \in Answer
           /\ answer'.status = "refused" /\ answer'.reason = reason
BY DEF Refuse, Finish, Answer

\* What observing a result does to the budget.
LEMMA ObserveTyped ==
    ASSUME TypeOK, NEW o \in Observation, Observe(o)
    PROVE  /\ budget' \in [tokens : Nat, cost : Nat, steps : Nat]
           /\ budget'.tokens <= budget.tokens + Overshoot - 3 * Usage
           /\ budget'.cost <= budget.cost + Overshoot - 3 * Usage
           /\ budget'.steps = budget.steps + 1
           /\ observations' = observations \cup {o}
           /\ step' = step + 1
           /\ Limited
<1>1. PICK u \in 0..Usage, v \in 0..Usage :
          budget' = Charged(budget, Times * u, Times * v, 1)
    BY DEF Observe
<1>2. CASE tool \in SelfCharging
    <2>1. Times = 2 /\ Overshoot = 5 * Usage
        BY <1>2 DEF Times, Overshoot
    <2>2. QED
        BY <1>1, <2>1, AgentAssumption DEF TypeOK, Charged, Observe, Limited
<1>3. CASE tool \notin SelfCharging
    <2>1. Times = 1 /\ Overshoot >= 4 * Usage
        BY <1>3, AgentAssumption DEF Times, Overshoot
    <2>2. QED
        BY <1>1, <2>1, AgentAssumption DEF TypeOK, Charged, Observe, Limited, Overshoot
<1>4. QED
    BY <1>2, <1>3

LEMMA TypedInit == ASSUME Init PROVE Typed
BY AgentAssumption DEF Init, Typed, TypeOK, TimeKept, WallBounded, Answer, NoAnswer

LEMMA TypedStep == ASSUME Typed, [Next]_vars PROVE Typed'
<1>0. /\ MaxWall \in Nat /\ Overtime \in Nat /\ Overrun \in Nat /\ BudgetAge \in Nat
      /\ clock \in Nat /\ remaining \in Nat /\ remaining <= MaxWall
    BY AgentAssumption DEF Typed, TypeOK
<1>1. CASE StopAtStepLimit
    BY <1>0, <1>1, RefuseTyped
    DEF StopAtStepLimit, Typed, TypeOK, TimeKept, WallBounded, Reason
<1>2. CASE StopOverBudget
    <2>1. PICK reason \in Reason : Refuse(reason)
        BY <1>2 DEF StopOverBudget, Reason
    <2>2. QED
        BY <1>0, <1>2, <2>1, RefuseTyped
        DEF StopOverBudget, Typed, TypeOK, TimeKept, WallBounded
<1>3. CASE BeginPlan
    <2>1. pc' = "planning" /\ clock' = clock /\ clock <= MaxWall
        BY <1>0, <1>3 DEF BeginPlan, Exceeded, WallExceeded
    <2>2. /\ remaining' = TimeLeft(clock) /\ TimeLeft(clock) \in 0..MaxWall
          /\ clock + TimeLeft(clock) <= MaxWall
        BY <1>0, <1>3, <2>1, RestOfWall DEF BeginPlan
    <2>3. TimeKept'
        BY <1>0, <2>1, <2>2 DEF TimeKept, WallBounded
    <2>4. TypeOK'
        BY <1>3, <2>1, <2>2 DEF BeginPlan, Typed, TypeOK
    <2>5. QED
        BY <2>3, <2>4 DEF Typed
<1>4. CASE PlanFails
    <2>1. PICK reason \in Reason : Refuse(reason)
        BY <1>4 DEF PlanFails, Reason
    <2>2. pc' = "answered" /\ answer' \in Answer
        BY <2>1, RefuseTyped
    <2>3. clock' \in Nat /\ clock' <= clock + remaining + Overrun
        BY <1>4, LimitedTyped DEF PlanFails, Typed
    <2>4. QED
        BY <1>0, <1>4, <2>2, <2>3
        DEF PlanFails, Typed, TypeOK, TimeKept, WallBounded
<1>5. CASE Planned /\ pc' = "answered" /\ answer' \in Answer
           /\ UNCHANGED <<step, tool, observations, seen, remaining, executions, judged>>
    <2>1. clock' \in Nat /\ clock' <= clock + remaining + Overrun
        BY <1>5, LimitedTyped DEF Planned, Typed
    <2>2. budget' \in [tokens : Nat, cost : Nat, steps : Nat]
        BY <1>5, ModelChargeTyped DEF Planned, Typed
    <2>3. QED
        BY <1>0, <1>5, <2>1, <2>2 DEF Planned, Typed, TypeOK, TimeKept, WallBounded
<1>6. CASE PlanGivesUp
    <2>1. pc' = "answered" /\ answer' \in Answer
        BY <1>6, GuardTyped DEF PlanGivesUp, Reason
    <2>2. QED
        BY <1>5, <1>6, <2>1 DEF PlanGivesUp
<1>7. CASE PlanNamesBadTool
    <2>1. pc' = "answered" /\ answer' \in Answer
        BY <1>7, RefuseTyped DEF PlanNamesBadTool, Reason
    <2>2. QED
        BY <1>5, <1>7, <2>1 DEF PlanNamesBadTool
<1>8. CASE PlanRepeats
    <2>1. pc' = "answered" /\ answer' \in Answer
        BY <1>8, RefuseTyped DEF PlanRepeats, Reason
    <2>2. QED
        BY <1>5, <1>8, <2>1 DEF PlanRepeats
<1>9. ASSUME NEW a \in Action, PlanActs(a) PROVE Typed'
    <2>1. clock' \in Nat /\ clock' <= clock + remaining + Overrun
        BY <1>9, LimitedTyped DEF PlanActs, Planned, Typed
    <2>2. budget' \in [tokens : Nat, cost : Nat, steps : Nat]
        BY <1>9, ModelChargeTyped DEF PlanActs, Planned, Typed
    <2>3. seen' \subseteq Action /\ executions' \in Nat /\ tool' \in Tool
        BY <1>9 DEF PlanActs, Execute, Typed, TypeOK, Action
    <2>4. pc = "planning" /\ pc' = "acting" /\ clock' <= MaxWall + Overrun
          /\ remaining' = TimeLeft(clock')
        BY <1>0, <1>9, <2>1 DEF PlanActs, Planned, Typed, TimeKept
    <2>5. remaining' \in 0..MaxWall /\ clock' + remaining' <= MaxWall + Overrun
        BY <1>0, <2>1, <2>4, RestOfWall
    <2>6. TimeKept'
        BY <1>0, <2>1, <2>4, <2>5 DEF TimeKept, WallBounded
    <2>7. TypeOK'
        BY <1>9, <2>1, <2>2, <2>3, <2>4, <2>5 DEF PlanActs, Typed, TypeOK
    <2>8. QED
        BY <2>6, <2>7 DEF Typed
<1>10. CASE ToolTimesOut
    <2>1. pc' = "answered" /\ answer' \in Answer
        BY <1>10, RefuseTyped DEF ToolTimesOut, Reason
    <2>2. clock' \in Nat /\ clock' <= clock + remaining + Overrun
        BY <1>10, LimitedTyped DEF ToolTimesOut, Typed
    <2>3. QED
        BY <1>0, <1>10, <2>1, <2>2
        DEF ToolTimesOut, Typed, TypeOK, TimeKept, WallBounded
<1>11. CASE ToolRaises
    <2>1. clock' \in Nat /\ clock' <= clock + remaining + Overrun
        BY <1>11, LimitedTyped DEF ToolRaises, Typed
    <2>2. QED
        BY <1>0, <1>11, <2>1 DEF ToolRaises, Typed, TypeOK, TimeKept, WallBounded
<1>12. ASSUME NEW o \in Observation, ToolDenied(o) PROVE Typed'
    <2>1. pc' = "answered" /\ answer' \in Answer
        BY <1>12, RefuseTyped DEF ToolDenied, Reason
    <2>2. clock' \in Nat /\ clock' <= clock + remaining + Overrun
        BY <1>12, LimitedTyped DEF ToolDenied, Typed
    <2>3. QED
        BY <1>0, <1>12, <2>1, <2>2
        DEF ToolDenied, Returns, Typed, TypeOK, TimeKept, WallBounded
<1>13. ASSUME NEW o \in Observation, Observe(o),
              UNCHANGED <<tool, seen, remaining, executions, judged>>,
              pc' \in {"answered", "checking"}, answer' \in Answer
       PROVE  Typed'
    <2>1. clock' \in Nat /\ clock' <= clock + remaining + Overrun
        BY <1>13, LimitedTyped DEF Observe, Typed
    <2>2. budget' \in [tokens : Nat, cost : Nat, steps : Nat]
        BY <1>13, ObserveTyped DEF Typed
    <2>3. observations' \subseteq Observation /\ step' \in Nat
        BY <1>13 DEF Observe, Typed, TypeOK
    <2>4. clock' <= MaxWall + 2 * Overrun
        BY <1>0, <1>13, <2>1 DEF Observe, Returns, Typed, TimeKept
    <2>5. TimeKept'
        <3>1. pc' \in {"answered", "checking"}
            BY <1>13
        <3>2. QED
            BY <1>0, <2>1, <2>4, <3>1 DEF TimeKept, WallBounded
    <2>6. TypeOK'
        BY <1>13, <2>1, <2>2, <2>3 DEF Typed, TypeOK
    <2>7. QED
        BY <2>5, <2>6 DEF Typed
<1>14. ASSUME NEW o \in Observation, ToolFails(o) PROVE Typed'
    <2>1. pc' = "answered" /\ answer' \in Answer
        BY <1>14, RefuseTyped DEF ToolFails, Reason
    <2>2. QED
        BY <1>13, <1>14, <2>1 DEF ToolFails
<1>15. ASSUME NEW o \in Observation, ToolSucceeds(o) PROVE Typed'
    <2>1. answer' \in Answer
        BY <1>15 DEF ToolSucceeds, Typed, TypeOK
    <2>2. QED
        BY <1>13, <1>15, <2>1 DEF ToolSucceeds
<1>16. CASE CheckFails
    <2>1. PICK reason \in Reason : Refuse(reason)
        BY <1>16 DEF CheckFails, Reason
    <2>2. pc' = "answered" /\ answer' \in Answer
        BY <2>1, RefuseTyped
    <2>3. clock' \in Nat /\ clock' <= clock + remaining + Overrun
        BY <1>16, LimitedTyped DEF CheckFails, Typed
    <2>4. QED
        BY <1>0, <1>16, <2>2, <2>3
        DEF CheckFails, Typed, TypeOK, TimeKept, WallBounded
<1>17. ASSUME Checked, pc' \in {"head", "synthesizing"}, judged' \subseteq Observation,
              UNCHANGED <<step, tool, observations, seen, remaining, answer, executions>>
       PROVE  Typed'
    <2>1. clock' \in Nat /\ clock' <= clock + remaining + Overrun
        BY <1>17, LimitedTyped DEF Checked, Typed
    <2>2. budget' \in [tokens : Nat, cost : Nat, steps : Nat]
        BY <1>17, ModelChargeTyped DEF Checked, Typed
    <2>3. clock' <= 2 * MaxWall + 3 * Overrun
        BY <1>0, <1>17, <2>1 DEF Checked, Typed, TimeKept
    <2>4. TimeKept'
        <3>1. pc' \in {"head", "synthesizing"}
            BY <1>17
        <3>2. QED
            BY <1>0, <2>1, <2>3, <3>1 DEF TimeKept, WallBounded
    <2>5. TypeOK'
        BY <1>17, <2>1, <2>2 DEF Typed, TypeOK
    <2>6. QED
        BY <2>4, <2>5 DEF Typed
<1>18. CASE CheckInsufficient \/ CheckSufficient
    BY <1>17, <1>18 DEF CheckInsufficient, CheckSufficient, Typed, TypeOK
<1>19. CASE SynthesisRaises
    <2>1. clock' \in Nat /\ clock' <= clock + Overtime
        BY <1>0, <1>19, ElapsesTyped DEF SynthesisRaises
    <2>2. QED
        BY <1>0, <1>19, <2>1 DEF SynthesisRaises, Typed, TypeOK, TimeKept, WallBounded
<1>20. CASE Synthesize
    <2>1. clock' \in Nat /\ clock' <= clock + Overtime
        BY <1>0, <1>20, ElapsesTyped DEF Synthesize
    <2>2. budget' \in [tokens : Nat, cost : Nat, steps : Nat]
        BY <1>20, ModelChargeTyped DEF Synthesize, Typed
    <2>3. pc' = "answered" /\ answer' \in Answer
        BY <1>20, GuardTyped DEF Synthesize, Reason
    <2>4. QED
        BY <1>0, <1>20, <2>1, <2>2, <2>3
        DEF Synthesize, Typed, TypeOK, TimeKept, WallBounded
<1>21. CASE UNCHANGED vars
    BY <1>21 DEF vars, Typed, TypeOK, TimeKept, WallBounded
<1>22. QED
    BY <1>1, <1>2, <1>3, <1>4, <1>6, <1>7, <1>8, <1>9, <1>10, <1>11, <1>12, <1>14,
       <1>15, <1>16, <1>18, <1>19, <1>20, <1>21
    DEF Next, Head, Plan, Act, Check, Answering

LEMMA AlwaysTyped == Spec => []Typed
BY TypedInit, TypedStep, PTL DEF Spec

\* Every variable keeps its type; the time an await is given is never more
\* than the budget's wall time.
THEOREM TypeCorrect == Spec => []TypeOK
<1>1. Typed => TypeOK
    BY DEF Typed
<1>2. QED
    BY <1>1, AlwaysTyped, PTL

\* The loop is over within twice the wall time, the synthesis' own time and
\* three overruns, whatever a tool makes of the cancellation.
THEOREM TimeBound == Spec => []WallBounded
<1>1. Typed => WallBounded
    BY DEF Typed, TimeKept
<1>2. QED
    BY <1>1, AlwaysTyped, PTL

-----------------------------------------------------------------------------
(* Steps and actions: how the calls made relate to the steps counted.      *)

Ended == pc \in {"answered", "raised"}

Counting ==
    /\ budget.steps = step
    /\ step <= executions
    /\ ~Ended => executions = IF pc = "acting" THEN step + 1 ELSE step
    /\ pc = "planning" => step < PolicySteps /\ step < MaxSteps
    /\ executions <= PolicySteps /\ executions <= MaxSteps

LEMMA CountingInit == ASSUME Init PROVE Counting
BY AgentAssumption DEF Init, Counting, Ended

LEMMA CountingStep == ASSUME Typed, Counting, [Next]_vars PROVE Counting'
<1>0. /\ step \in Nat /\ executions \in Nat /\ PolicySteps \in Nat /\ MaxSteps \in Nat
      /\ budget \in [tokens : Nat, cost : Nat, steps : Nat]
    BY AgentAssumption DEF Typed, TypeOK
<1>1. CASE /\ budget'.steps = budget.steps
           /\ UNCHANGED <<step, executions>>
           /\ \/ pc' \in {"answered", "raised"}
              \/ pc = "checking" /\ pc' \in {"head", "synthesizing"}
              \/ UNCHANGED pc
    BY <1>0, <1>1 DEF Counting, Ended
<1>2. CASE StopAtStepLimit \/ StopOverBudget \/ PlanFails \/ ToolTimesOut \/ ToolRaises
           \/ CheckFails \/ SynthesisRaises
    BY <1>1, <1>2
    DEF StopAtStepLimit, StopOverBudget, PlanFails, ToolTimesOut, ToolRaises,
        CheckFails, SynthesisRaises, Refuse, Finish
<1>3. CASE BeginPlan
    BY <1>0, <1>3 DEF BeginPlan, AtStepLimit, Counting, Ended
<1>4. CASE PlanGivesUp \/ PlanNamesBadTool \/ PlanRepeats
    <2>1. budget'.steps = budget.steps
        BY <1>4, ModelChargeTyped
        DEF PlanGivesUp, PlanNamesBadTool, PlanRepeats, Planned, Typed
    <2>2. pc' = "answered"
        BY <1>4 DEF PlanGivesUp, PlanNamesBadTool, PlanRepeats, Guard, Refuse, Finish
    <2>3. QED
        BY <1>1, <1>4, <2>1, <2>2 DEF PlanGivesUp, PlanNamesBadTool, PlanRepeats
<1>5. ASSUME NEW a \in Action, PlanActs(a) PROVE Counting'
    <2>1. budget'.steps = budget.steps
        BY <1>5, ModelChargeTyped DEF PlanActs, Planned, Typed
    <2>2. executions' = executions + 1
        BY <1>5 DEF PlanActs, Execute
    <2>3. QED
        BY <1>0, <1>5, <2>1, <2>2 DEF PlanActs, Planned, Counting, Ended
<1>6. ASSUME NEW o \in Observation, ToolDenied(o) PROVE Counting'
    BY <1>1, <1>6 DEF ToolDenied, Refuse, Finish
<1>7. ASSUME NEW o \in Observation, ToolFails(o) \/ ToolSucceeds(o) PROVE Counting'
    <2>1. /\ pc = "acting" /\ pc' \in {"answered", "checking"}
          /\ executions' = executions
        BY <1>7 DEF ToolFails, ToolSucceeds, Observe, Returns, Refuse, Finish
    <2>2. budget'.steps = budget.steps + 1 /\ step' = step + 1
        BY <1>7, ObserveTyped DEF ToolFails, ToolSucceeds, Typed
    <2>3. QED
        BY <1>0, <2>1, <2>2 DEF Counting, Ended
<1>8. CASE CheckInsufficient \/ CheckSufficient
    <2>1. budget'.steps = budget.steps
        BY <1>8, ModelChargeTyped DEF CheckInsufficient, CheckSufficient, Checked, Typed
    <2>2. QED
        BY <1>1, <1>8, <2>1 DEF CheckInsufficient, CheckSufficient, Checked
<1>9. CASE Synthesize
    <2>1. budget'.steps = budget.steps
        BY <1>9, ModelChargeTyped DEF Synthesize, Typed
    <2>2. QED
        BY <1>1, <1>9, <2>1 DEF Synthesize, Guard, Finish
<1>10. CASE UNCHANGED vars
    BY <1>1, <1>10 DEF vars
<1>11. QED
    BY <1>2, <1>3, <1>4, <1>5, <1>6, <1>7, <1>8, <1>9, <1>10
    DEF Next, Head, Plan, Act, Check, Answering

\* No query makes more tool calls than its policy and its budget allow.
THEOREM StepBound == Spec => []StepsBounded
<1>1. Typed /\ Counting => StepsBounded
    BY DEF Typed, TypeOK, Counting, StepsBounded
<1>2. QED
    BY <1>1, AlwaysTyped, CountingInit, CountingStep, PTL DEF Spec

\* The set of action keys grows with every call.
Remembering == IsFiniteSet(seen) /\ executions = Cardinality(seen)

LEMMA RememberingStep == ASSUME Remembering, [Next]_vars PROVE Remembering'
<1>1. CASE UNCHANGED <<seen, executions>>
    BY <1>1 DEF Remembering
<1>2. ASSUME NEW a \in Action, PlanActs(a) PROVE Remembering'
    BY <1>2, FS_AddElement DEF PlanActs, Execute, Remembering
<1>3. QED
    BY <1>1, <1>2
    DEF Next, vars, Head, Plan, Act, Check, Answering, StopAtStepLimit, StopOverBudget,
        BeginPlan, PlanFails, PlanGivesUp, PlanNamesBadTool, PlanRepeats, ToolTimesOut,
        ToolRaises, ToolDenied, ToolFails, ToolSucceeds, CheckFails, CheckInsufficient,
        CheckSufficient, SynthesisRaises, Synthesize

\* Whatever the planner proposes, no tool runs twice on the same query.
THEOREM ActionsDistinct == Spec => []NoActionTwice
<1>1. Init => Remembering
    BY FS_EmptySet DEF Init, Remembering
<1>2. Remembering => NoActionTwice
    BY DEF Remembering, NoActionTwice
<1>3. QED
    BY <1>1, <1>2, RememberingStep, PTL DEF Spec

-----------------------------------------------------------------------------
(* Tokens and cost: how far past its limit each may be at each await.      *)

\* Of one resource with a limit, at an await.
Ahead(at, spent, limit) ==
    /\ at = "head" => spent <= limit + Overshoot - Usage
    /\ at = "planning" => spent <= limit
    /\ at = "acting" => spent <= limit + Usage
    /\ at = "checking" => spent <= limit + Overshoot - 2 * Usage
    /\ at = "synthesizing" => spent <= limit + Overshoot - Usage
    /\ spent <= limit + Overshoot

Spending == Ahead(pc, budget.tokens, MaxTokens) /\ Ahead(pc, budget.cost, MaxCost)

LEMMA OvershootSize == Overshoot \in Nat /\ Overshoot >= 4 * Usage
BY AgentAssumption DEF Overshoot

LEMMA SpendingInit == ASSUME Init PROVE Spending
BY AgentAssumption, OvershootSize DEF Init, Spending, Ahead

\* What a step from one await to the next may add to one resource.
LEMMA AheadStep ==
    ASSUME NEW at, NEW then, NEW spent \in Nat, NEW next \in Nat, NEW limit \in Nat,
           Ahead(at, spent, limit),
           \/ next <= spent /\ then \in {at, "answered", "raised"}
           \/ next <= spent /\ at = "head" /\ then = "planning" /\ spent < limit
           \/ next <= spent + Usage
                 /\ \/ at = "planning" /\ then \in {"acting", "answered"}
                    \/ at = "checking" /\ then \in {"head", "synthesizing"}
                    \/ at = "synthesizing" /\ then = "answered"
           \/ next <= spent + Overshoot - 3 * Usage
                 /\ at = "acting" /\ then \in {"checking", "answered"}
    PROVE  Ahead(then, next, limit)
BY AgentAssumption, OvershootSize DEF Ahead

LEMMA SpendingStep == ASSUME Typed, Typed', Spending, [Next]_vars PROVE Spending'
<1>0. /\ budget.tokens \in Nat /\ budget'.tokens \in Nat /\ MaxTokens \in Nat
      /\ budget.cost \in Nat /\ budget'.cost \in Nat /\ MaxCost \in Nat
    BY AgentAssumption DEF Typed, TypeOK
<1>1. SUFFICES /\ Ahead(pc', budget'.tokens, MaxTokens)
               /\ Ahead(pc', budget'.cost, MaxCost)
    BY DEF Spending, Ahead, Overshoot
<1>2. Ahead(pc, budget.tokens, MaxTokens) /\ Ahead(pc, budget.cost, MaxCost)
    BY DEF Spending
<1>3. CASE UNCHANGED budget /\ pc' \in {pc, "answered", "raised"}
    BY <1>0, <1>2, <1>3, AheadStep
<1>4. CASE StopAtStepLimit \/ StopOverBudget \/ PlanFails \/ ToolTimesOut \/ ToolRaises
           \/ (\E o \in Observation : ToolDenied(o)) \/ CheckFails \/ SynthesisRaises
           \/ UNCHANGED vars
    BY <1>3, <1>4
    DEF StopAtStepLimit, StopOverBudget, PlanFails, ToolTimesOut, ToolRaises,
        ToolDenied, CheckFails, SynthesisRaises, Refuse, Finish, vars
<1>5. CASE BeginPlan
    <2>1. /\ pc = "head" /\ pc' = "planning" /\ budget' = budget
          /\ ~(budget.tokens >= MaxTokens) /\ ~(budget.cost >= MaxCost)
        BY <1>5 DEF BeginPlan, Exceeded
    <2>2. QED
        BY <1>0, <1>2, <2>1, AheadStep
<1>6. CASE /\ ModelCharge
           /\ \/ pc = "planning" /\ pc' \in {"acting", "answered"}
              \/ pc = "checking" /\ pc' \in {"head", "synthesizing"}
              \/ pc = "synthesizing" /\ pc' = "answered"
    <2>1. /\ budget'.tokens <= budget.tokens + Usage
          /\ budget'.cost <= budget.cost + Usage
        BY <1>6, ModelChargeTyped DEF Typed
    <2>2. QED
        BY <1>0, <1>2, <1>6, <2>1, AheadStep
<1>7. CASE \/ PlanGivesUp \/ PlanNamesBadTool \/ PlanRepeats
           \/ \E a \in Action : PlanActs(a)
    BY <1>6, <1>7
    DEF PlanGivesUp, PlanNamesBadTool, PlanRepeats, PlanActs, Planned, Guard, Refuse, Finish
<1>8. CASE CheckInsufficient \/ CheckSufficient \/ Synthesize
    BY <1>6, <1>8
    DEF CheckInsufficient, CheckSufficient, Checked, Synthesize, Guard, Finish
<1>9. ASSUME NEW o \in Observation, ToolFails(o) \/ ToolSucceeds(o)
      PROVE  /\ Ahead(pc', budget'.tokens, MaxTokens)
             /\ Ahead(pc', budget'.cost, MaxCost)
    <2>1. pc = "acting" /\ pc' \in {"answered", "checking"}
        BY <1>9 DEF ToolFails, ToolSucceeds, Observe, Returns, Refuse, Finish
    <2>2. /\ budget'.tokens <= budget.tokens + Overshoot - 3 * Usage
          /\ budget'.cost <= budget.cost + Overshoot - 3 * Usage
        BY <1>9, ObserveTyped DEF ToolFails, ToolSucceeds, Typed
    <2>3. QED
        BY <1>0, <1>2, <2>1, <2>2, AheadStep
<1>10. QED
    BY <1>4, <1>5, <1>7, <1>8, <1>9 DEF Next, Head, Plan, Act, Check, Answering

\* A query spends at most one round and a synthesis past its limits.
THEOREM SpendingBound == Spec => []OvershootBounded
<1>1. Spending => OvershootBounded
    BY DEF Spending, Ahead, OvershootBounded
<1>2. QED
    BY <1>1, AlwaysTyped, SpendingInit, SpendingStep, PTL DEF Spec

-----------------------------------------------------------------------------
(* Evidence: what the observations are at each await.                      *)

Evidence ==
    /\ ~Ended => answer = NoAnswer /\ \A o \in observations : o.success
    /\ Guarded => \A o \in observations : o.cleared
    /\ pc \in {"checking", "synthesizing"} => observations # {}
    /\ pc = "synthesizing" => judged = observations
    /\ GroundedOnEvidence

LEMMA EvidenceInit == ASSUME Init PROVE Evidence
BY DEF Init, Evidence, GroundedOnEvidence, NoAnswer, Ended

LEMMA EvidenceStep == ASSUME Typed, Evidence, [Next]_vars PROVE Evidence'
<1>1. CASE /\ UNCHANGED <<observations, judged>>
           /\ pc' = "answered" /\ answer'.status # "grounded"
    BY <1>1 DEF Evidence, GroundedOnEvidence, Ended
<1>2. CASE StopAtStepLimit \/ StopOverBudget \/ PlanFails \/ PlanNamesBadTool
           \/ PlanRepeats \/ ToolTimesOut \/ CheckFails
           \/ \E o \in Observation : ToolDenied(o)
    BY <1>1, <1>2
    DEF StopAtStepLimit, StopOverBudget, PlanFails, PlanNamesBadTool, PlanRepeats,
        ToolTimesOut, CheckFails, ToolDenied, Refuse, Finish
<1>3. CASE PlanGivesUp
    <2>1. pc' = "answered" /\ answer'.status # "grounded"
        BY <1>3, GuardTyped DEF PlanGivesUp, Reason
    <2>2. QED
        BY <1>1, <1>3, <2>1 DEF PlanGivesUp
<1>4. CASE /\ UNCHANGED <<observations, judged, answer>>
           /\ \/ pc' \in {"planning", "acting", "raised"} /\ ~Ended
              \/ pc = "checking" /\ pc' = "head"
    BY <1>4 DEF Evidence, GroundedOnEvidence, Ended, NoAnswer
<1>5. CASE \/ BeginPlan \/ (\E a \in Action : PlanActs(a)) \/ ToolRaises
           \/ CheckInsufficient \/ SynthesisRaises
    BY <1>4, <1>5
    DEF BeginPlan, PlanActs, Planned, ToolRaises, CheckInsufficient, Checked,
        SynthesisRaises, Ended
<1>6. ASSUME NEW o \in Observation, ToolFails(o) PROVE Evidence'
    <2>1. /\ pc = "acting" /\ pc' = "answered" /\ answer'.status # "grounded"
          /\ observations' = observations \cup {o} /\ (Guarded => o.cleared)
        BY <1>6 DEF ToolFails, Observe, Returns, Denied, Refuse, Finish
    <2>2. QED
        BY <2>1 DEF Evidence, GroundedOnEvidence, Ended
<1>7. ASSUME NEW o \in Observation, ToolSucceeds(o) PROVE Evidence'
    <2>1. /\ pc = "acting" /\ pc' = "checking" /\ answer' = answer /\ o.success
          /\ observations' = observations \cup {o} /\ (Guarded => o.cleared)
        BY <1>7 DEF ToolSucceeds, Observe, Returns, Denied
    <2>2. QED
        BY <2>1 DEF Evidence, GroundedOnEvidence, Ended, NoAnswer
<1>8. CASE CheckSufficient
    <2>1. /\ pc = "checking" /\ pc' = "synthesizing" /\ answer' = answer
          /\ observations' = observations /\ judged' = observations
        BY <1>8 DEF CheckSufficient, Checked
    <2>2. QED
        BY <2>1 DEF Evidence, GroundedOnEvidence, Ended, NoAnswer
<1>9. CASE Synthesize
    <2>1. /\ pc = "synthesizing" /\ pc' = "answered"
          /\ observations' = observations /\ judged' = judged
          /\ answer'.status = "grounded" =>
                /\ answer'.reason = "answer_complete"
                /\ Guarded => \E o \in observations : o.cited
        BY <1>9, GuardTyped DEF Synthesize, Reason
    <2>2. QED
        BY <2>1 DEF Evidence, GroundedOnEvidence, Ended
<1>10. CASE UNCHANGED vars
    BY <1>10 DEF vars, Evidence, GroundedOnEvidence, Ended
<1>11. QED
    BY <1>2, <1>3, <1>5, <1>6, <1>7, <1>8, <1>9, <1>10
    DEF Next, Head, Plan, Act, Check, Answering

\* Every grounded answer rests on checked, permitted and cited evidence.
THEOREM GroundedAlways == Spec => []GroundedOnEvidence
<1>1. Evidence => GroundedOnEvidence
    BY DEF Evidence
<1>2. QED
    BY <1>1, AlwaysTyped, EvidenceInit, EvidenceStep, PTL DEF Spec
=============================================================================
