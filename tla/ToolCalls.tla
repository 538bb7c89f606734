----------------------------- MODULE ToolCalls ------------------------------
(***************************************************************************)
(* One call of a tool of src/adaptive/tools that leaves the process: the   *)
(* web tool with its retries, the SQL tool with its validation, or the     *)
(* parametric tool, awaited as they are (graph/nodes.py) or under the      *)
(* agent loop's asyncio.wait_for.  Time passes in ticks; a timer fires as  *)
(* soon as the event loop runs again.  Of Python 3.11's wait_for this      *)
(* matters: cancelled when what it waits for has just finished, it drops   *)
(* the cancellation and goes on with the outcome.                          *)
(***************************************************************************)
EXTENDS Naturals, Sequences, FiniteSets, FiniteSetsExt

CONSTANTS
    Setup,      \* wirings and requests: see SetupShape
    Statement,  \* what the query builder may write: see StatementShape
    Name,       \* names and aliases of tables in statements
    Null

\* A reference to a table, whose name and alias_or_name (the qualifier) may be
\* those of others.  cte: it means a CTE.  outer: it is in the outermost FROM.
Tables == [named : BOOLEAN, name : Name, qualifier : Name, cte : BOOLEAN,
           outer : BOOLEAN, schema : {"none", "allowed", "other"}]

StatementShape(s) ==
    /\ s.form \in {"empty", "unparsable", "several", "other", "select"}
    /\ s.writes \in BOOLEAN \* a forbidden node, INTO or a lock anywhere in it
    /\ IsFiniteSet(s.tables) /\ s.tables \subseteq Tables
    /\ s.ctes \subseteq Name \* the names its CTEs define, at any depth
    /\ \A t \in s.tables : t.cte => t.name \in s.ctes /\ t.schema = "none"
    /\ s.derived \subseteq Name \* aliases of subqueries in the outermost FROM
    /\ s.where \in {"none", "or", "other"} \* whether its outermost WHERE is a disjunction
    /\ s.limit \in [given : {"none", "literal", "expression"}, rows : Nat]

SetupShape(s) ==
    /\ s.tool \in {"web", "sql", "parametric"}
    /\ s.deadline = Null \/ s.deadline \in Nat \ {0} \* the caller's wait_for
    /\ s.url \in [plain : BOOLEAN, listed : BOOLEAN, private : BOOLEAN]
    /\ s.fetcher \in {"async", "sync"}
    /\ s.max_retries \in Nat
    /\ s.timeout_seconds \in Nat \ {0}
    /\ s.executor \in {"session", "execute", "callable"}
    /\ s.max_rows \in Nat
    /\ s.tenantValid \in BOOLEAN

ASSUME ToolCallsAssumption ==
    /\ \A s \in Setup : SetupShape(s)
    /\ \A s \in Statement : StatementShape(s)

Scopeds == [tables : SUBSET Tables, ctes : SUBSET Name, from : SUBSET Name,
            where : {"none", "or", "other"}, asked : SUBSET Name, limit : Nat]

ASSUME NullIsNoStatement == Null \notin Scopeds

VARIABLES
    setup,
    pc,        \* the await, or blocking call, the tool is at
    now,       \* ticks since the call
    attempt,   \* local of the web tool, from 0
    began,     \* when this attempt did
    deaf,      \* history: the caller's cancellation was dropped
    sql,       \* the validated and scoped statement
    readOnly,  \* set_read_only(True) has been called on the executor
    ran,       \* the statement the executor was given
    result     \* what the caller gets

vars == <<setup, pc, now, attempt, began, deaf, sql, readOnly, ran, result>>
web == <<attempt, began, deaf>>
database == <<sql, readOnly, ran>>

Init ==
    /\ setup \in Setup
    /\ pc = "start" /\ now = 0
    /\ attempt = 0 /\ began = 0 /\ deaf = FALSE
    /\ sql = Null /\ readOnly = FALSE /\ ran = Null
    /\ result = Null

Status == {"success", "rejected", "timeout", "error", "cut_off"}

Return(status, size) == pc' = "done" /\ result' = [status |-> status, size |-> size]

Running == pc \notin {"start", "done"}

\* A synchronous fetcher holds the event loop: no timer fires meanwhile.
Blocked == pc = "fetch" /\ setup.fetcher = "sync"

\* The caller's timer has gone off, and its cancellation not been dropped.
Overdue == setup.deadline # Null /\ now >= setup.deadline /\ ~deaf

AttemptOver == pc = "fetch" /\ now - began >= setup.timeout_seconds

-----------------------------------------------------------------------------
(* The web tool.                                                           *)

\* plain: http or https, a host and no user.
Allowed(url) == url.plain /\ url.listed /\ ~url.private

CallWeb ==
    /\ pc = "start" /\ setup.tool = "web"
    /\ IF Allowed(setup.url) THEN pc' = "fetch" /\ UNCHANGED result ELSE Return("rejected", 0)
    /\ UNCHANGED <<setup, now, web, database>>

\* usage["attempts"] counts this one.
FetchAnswers ==
    /\ pc = "fetch"
    /\ Return("success", attempt + 1)
    /\ UNCHANGED <<setup, now, web, database>>

\* Mutant: one retry too many.
RetryOnceMore(status) ==
    IF attempt = setup.max_retries + 1
    THEN Return(status, attempt + 1) /\ UNCHANGED <<attempt, began>>
    ELSE attempt' = attempt + 1 /\ began' = now /\ UNCHANGED <<pc, result>>

\* The next attempt starts at once; after the last the failure is the result.
Retry(status) ==
    IF attempt = setup.max_retries
    THEN Return(status, attempt + 1) /\ UNCHANGED <<attempt, began>>
    ELSE attempt' = attempt + 1 /\ began' = now /\ UNCHANGED <<pc, result>>

\* The fetcher raises; a cancellation that comes at the same moment is dropped.
FetchRaises ==
    /\ pc = "fetch"
    /\ \E status \in {"timeout", "error"} : Retry(status)
    /\ \/ UNCHANGED deaf
       \/ Overdue /\ ~Blocked /\ deaf' = TRUE
    /\ UNCHANGED <<setup, now, database>>

\* Mutant: the last attempt is not given up.
FetchTimesOutButTheLast ==
    /\ AttemptOver /\ ~Blocked /\ attempt < setup.max_retries
    /\ Retry("timeout")
    /\ UNCHANGED <<setup, now, deaf, database>>

\* The tool's own wait_for gives an attempt up.
FetchTimesOut ==
    /\ AttemptOver /\ ~Blocked
    /\ Retry("timeout")
    /\ UNCHANGED <<setup, now, deaf, database>>

-----------------------------------------------------------------------------
(* The SQL tool.                                                           *)

CallSql ==
    /\ pc = "start" /\ setup.tool = "sql"
    /\ pc' = "build"
    /\ UNCHANGED <<setup, now, web, database, result>>

\* validate_sql
Valid(s) ==
    /\ s.form = "select" /\ setup.max_rows >= 1
    /\ ~s.writes
    /\ \A t \in s.tables : t.named /\ t.schema # "other"
    /\ s.limit.given # "expression"
    /\ s.limit.given = "literal" => s.limit.rows <= setup.max_rows

\* Mutant: each table's condition replaces the one before it.
AskedOfTheLast(s) ==
    LET names == {t.qualifier : t \in {u \in s.tables : u.name \notin s.ctes}}
    IN  IF names = {} THEN {} ELSE {CHOOSE n \in names : TRUE}

\* with_tenant asks tenant_id of these qualifiers, and skips a table that has
\* the name of a CTE, whatever it means.
Asked(s) == {t.qualifier : t \in {u \in s.tables : u.name \notin s.ctes}}

\* What a column of the outermost WHERE can be qualified by.
FromList(s) == s.derived \cup {t.qualifier : t \in {u \in s.tables : u.outer}}

\* The conditions are put behind the WHERE that was there, with AND and without
\* parentheses.
ScopedSql(s) ==
    [tables |-> s.tables, ctes |-> s.ctes, from |-> FromList(s), where |-> s.where,
     asked |-> Asked(s),
     limit |-> IF s.limit.given = "literal" THEN s.limit.rows ELSE setup.max_rows]

AfterValidation ==
    IF setup.executor = "session" THEN "read_only" ELSE "execute"

BuildSql ==
    /\ pc = "build"
    /\ \E s \in Statement :
          IF Valid(s) /\ setup.tenantValid /\ Asked(s) # {}
          THEN sql' = ScopedSql(s) /\ pc' = AfterValidation /\ UNCHANGED result
          ELSE Return("rejected", 0) /\ UNCHANGED sql
    /\ UNCHANGED <<setup, now, web, readOnly, ran>>

SetReadOnly ==
    /\ pc = "read_only"
    /\ readOnly' = TRUE /\ pc' = "limit_time"
    /\ UNCHANGED <<setup, now, web, sql, ran, result>>

SetStatementTimeout ==
    /\ pc = "limit_time"
    /\ pc' = "execute"
    /\ UNCHANGED <<setup, now, web, database, result>>

\* The executor is given the statement; its answer comes with Executed.
Execute ==
    /\ pc = "execute"
    /\ ran' = sql /\ pc' = "executing"
    /\ UNCHANGED <<setup, now, web, sql, readOnly, result>>

\* The rows are cut to max_rows, whatever the executor hands over.  The database
\* refuses a WHERE that names a table of a subquery, unless one of the outermost
\* FROM answers to the same name.
Executed ==
    /\ pc = "executing"
    /\ sql.asked \subseteq sql.from
    /\ \E rows \in 0..setup.max_rows + 1 : Return("success", Min({rows, setup.max_rows}))
    /\ UNCHANGED <<setup, now, web, database>>

SqlRaises ==
    /\ pc \in {"build", "read_only", "limit_time", "executing"}
    /\ \E status \in {"timeout", "error"} : Return(status, 0)
    /\ UNCHANGED <<setup, now, web, database>>

-----------------------------------------------------------------------------
(* The parametric tool, and the caller.                                    *)

CallParametric ==
    /\ pc = "start" /\ setup.tool = "parametric"
    /\ pc' = "generate"
    /\ UNCHANGED <<setup, now, web, database, result>>

Generated ==
    /\ pc = "generate"
    /\ \E status \in {"success", "error"} : Return(status, 0)
    /\ UNCHANGED <<setup, now, web, database>>

\* CancelledError is no Exception: no handler of a tool catches it.
CutOff ==
    /\ Running /\ Overdue /\ ~Blocked
    /\ Return("cut_off", 0)
    /\ UNCHANGED <<setup, now, web, database>>

\* A timer that is due fires first.  A fetcher keeps to the time it is given.
Tick ==
    /\ Running
    /\ setup.deadline # Null \/ pc = "fetch"
    /\ ~AttemptOver /\ (Overdue => Blocked)
    /\ now' = now + 1
    /\ UNCHANGED <<setup, pc, web, database, result>>

Code ==
    \/ CallWeb \/ CallSql \/ CallParametric \/ FetchTimesOut \/ Execute \/ CutOff

\* What others decide: a fetcher, a model, the database.
Answer ==
    \/ FetchAnswers \/ FetchRaises
    \/ BuildSql \/ SetReadOnly \/ SetStatementTimeout \/ Executed \/ SqlRaises \/ Generated

Next == Code \/ Answer \/ Tick

Spec == Init /\ [][Next]_vars

(***************************************************************************)
(* The event loop runs what is due and time passes.  Nobody else needs to  *)
(* answer, but for a synchronous fetcher whose time is up.                 *)
(***************************************************************************)
FairSpec ==
    /\ Spec
    /\ WF_vars(Code) /\ WF_vars(Tick)
    /\ WF_vars(Blocked /\ AttemptOver /\ (FetchAnswers \/ FetchRaises))
-----------------------------------------------------------------------------

\* Each variable holds what the code can put there.
TypeOK ==
    /\ setup \in Setup
    /\ pc \in {"start", "fetch", "build", "read_only", "limit_time", "execute", "executing",
              "generate", "done"}
    /\ now \in Nat /\ attempt \in 0..setup.max_retries /\ began \in 0..now
    /\ deaf \in BOOLEAN /\ readOnly \in BOOLEAN
    /\ sql = Null \/ sql \in {ScopedSql(s) : s \in Statement}
    /\ ran \in {Null, sql}
    /\ result = Null \/ result \in [status : Status, size : Nat]

(***************************************************************************)
(* However retries and timers interleave: the web tool gives up only when  *)
(* every retry is spent, and never takes longer than all attempts may;     *)
(* a caller with a deadline has its answer, or is told there is none, by   *)
(* the deadline, except that a synchronous fetcher is not interrupted and  *)
(* that one dropped cancellation leaves the remaining retries to run; and  *)
(* it is told so only when its time is up.                                 *)
(***************************************************************************)
RetriesWithinTime ==
    /\ setup.tool = "web" => now <= (setup.max_retries + 1) * setup.timeout_seconds
    /\ setup.deadline # Null /\ ~Blocked =>
           \/ now <= setup.deadline
           \/ setup.fetcher = "sync"
           \/ deaf /\ now <= setup.deadline + setup.max_retries * setup.timeout_seconds
    /\ (pc = "done" /\ setup.tool = "web" /\ result.status \in {"timeout", "error"}) =>
           attempt = setup.max_retries /\ result.size = setup.max_retries + 1
    /\ (pc = "done" /\ result.status = "cut_off") => now = setup.deadline /\ ~deaf

\* No row of q comes from a row of t that is another tenant's: the condition on t
\* is in force wherever the WHERE is.
HeldToTenant(q, t) == t.outer /\ t.qualifier \in q.asked /\ q.where # "or"

\* The condition meant for a table of a subquery is one on a table of the
\* outermost FROM that answers to the same name.
Shadowed(q, t) == ~t.outer /\ t.qualifier \in q.from

(***************************************************************************)
(* What the executor is given is validated first: one SELECT without       *)
(* writes, asked for the tenant, limited to max_rows, and over a session   *)
(* that was made read-only before.  A call that is rejected has run        *)
(* nothing.  One that succeeds returns at most max_rows rows, and every    *)
(* real table in it is held to the tenant but in three cases, in which     *)
(* with_tenant does not do what its tests and sql_tool.py:1 claim: the     *)
(* statement's own WHERE is a disjunction (a OR b becomes a OR b AND c),   *)
(* the table has the name of a CTE, or it is shadowed.                     *)
(***************************************************************************)
OnlyVettedStatementsRun ==
    /\ ran # Null =>
           /\ \E s \in Statement : s.form = "select" /\ ~s.writes /\ ran = ScopedSql(s)
           /\ ran.limit <= setup.max_rows /\ ran.asked # {}
           /\ setup.executor = "session" => readOnly
    /\ (pc = "done" /\ setup.tool = "sql") =>
           /\ result.status = "rejected" => ran = Null
           /\ result.status = "success" =>
                  /\ ran # Null /\ result.size <= setup.max_rows
                  /\ \A t \in ran.tables :
                        \/ t.cte \/ HeldToTenant(ran, t)
                        \/ ran.where = "or" \/ t.name \in ran.ctes \/ Shadowed(ran, t)

\* A call of the web tool ends although nobody answers, and so does any call
\* under a deadline.
CallEnds == (setup.tool = "web" \/ setup.deadline # Null) ~> (pc = "done")
=============================================================================
