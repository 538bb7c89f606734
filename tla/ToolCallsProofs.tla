--------------------------- MODULE ToolCallsProofs ---------------------------
(***************************************************************************)
(* Proofs about ToolCalls: for all wirings, deadlines, retries and         *)
(* statements, retries keep to the time and only vetted statements run.    *)
(***************************************************************************)
EXTENDS ToolCalls, TLAPS

SqlPlace == {"build", "read_only", "limit_time", "execute", "executing"}

\* TypeOK in three parts.
CallTypes ==
    /\ setup \in Setup
    /\ pc \in {"start", "fetch", "build", "read_only", "limit_time", "execute", "executing",
              "generate", "done"}
    /\ now \in Nat /\ attempt \in 0..setup.max_retries /\ began \in 0..now
FlagTypes == deaf \in BOOLEAN /\ readOnly \in BOOLEAN
DataTypes ==
    /\ sql = Null \/ sql \in {ScopedSql(s) : s \in Statement}
    /\ ran \in {Null, sql}
    /\ result = Null \/ result \in [status : Status, size : Nat]

\* Which tool is where, and that a call that is over has a result.
Place ==
    /\ pc = "fetch" => setup.tool = "web"
    /\ pc \in SqlPlace => setup.tool = "sql"
    /\ pc = "generate" => setup.tool = "parametric"
    /\ pc = "done" => result \in [status : Status, size : Nat]

\* How late it may be: attempts follow each other, each within its time, and
\* after a dropped cancellation they are counted from the deadline.
Clock ==
    /\ pc = "start" => now = 0
    /\ setup.tool = "web" =>
           /\ began <= attempt * setup.timeout_seconds
           /\ now - began <= setup.timeout_seconds
    /\ (setup.deadline # Null /\ ~deaf /\ ~(setup.tool = "web" /\ setup.fetcher = "sync")) =>
           now <= setup.deadline
    /\ deaf =>
           /\ setup.deadline # Null /\ setup.tool = "web" /\ setup.fetcher # "sync"
           /\ \/ pc = "done" /\ now = setup.deadline
              \/ /\ attempt >= 1
                 /\ began <= setup.deadline + (attempt - 1) * setup.timeout_seconds

\* What an outcome tells of retries and time.
Told ==
    pc = "done" =>
        /\ setup.tool = "web" /\ result.status \in {"timeout", "error"} =>
               attempt = setup.max_retries /\ result.size = setup.max_retries + 1
        /\ result.status = "cut_off" => now = setup.deadline /\ ~deaf

Validated(q) == \E s \in Statement : Valid(s) /\ Asked(s) # {} /\ q = ScopedSql(s)

\* How far the statement has come at each await.
Vetted ==
    /\ pc \in {"start", "fetch", "generate", "build"} => sql = Null
    /\ pc \notin {"executing", "done"} => ran = Null
    /\ pc \in SqlPlace \ {"build"} => Validated(sql)
    /\ pc \in {"limit_time", "execute", "executing"} /\ setup.executor = "session" => readOnly
    /\ pc = "executing" => ran = sql
    /\ ran # Null => Validated(ran) /\ (setup.executor = "session" => readOnly)
    /\ (pc = "done" /\ setup.tool = "sql") =>
           /\ result.status = "rejected" => ran = Null
           /\ result.status = "success" =>
                  /\ Validated(ran)
                  /\ result.size <= setup.max_rows
                  /\ ran.asked \subseteq ran.from

Inv == TypeOK /\ Place /\ Clock /\ Told /\ Vetted

-----------------------------------------------------------------------------
(* Arithmetic and the least of two.                                        *)

LEMMA Times ==
  ASSUME NEW a \in Nat, NEW b \in Nat, a <= b, NEW t \in Nat
  PROVE  /\ a * t \in Nat /\ b * t \in Nat /\ a * t <= b * t
         /\ (a + 1) * t = a * t + t
<1>1. (b - a) * t \in Nat
  OBVIOUS
<1>2. b * t = a * t + (b - a) * t
  OBVIOUS
<1> QED  BY <1>1, <1>2

LEMMA LeastOfTwo ==
  ASSUME NEW a \in Nat, NEW b \in Nat
  PROVE  Min({a, b}) \in Nat /\ Min({a, b}) <= b
<1>1. \E x \in {a, b} : \A y \in {a, b} : x <= y
  <2>1. CASE a <= b  BY <2>1
  <2>2. CASE ~(a <= b)  BY <2>2
  <2> QED  BY <2>1, <2>2
<1>2. Min({a, b}) \in {a, b} /\ \A y \in {a, b} : Min({a, b}) <= y
  BY <1>1 DEF Min
<1> QED  BY <1>2

LEMMA TypeParts == TypeOK <=> CallTypes /\ FlagTypes /\ DataTypes
  BY DEF TypeOK, CallTypes, FlagTypes, DataTypes

LEMMA SetupTypes ==
  ASSUME TypeOK
  PROVE  /\ setup.max_retries \in Nat /\ setup.timeout_seconds \in Nat /\ setup.max_rows \in Nat
         /\ setup.deadline # Null => setup.deadline \in Nat
         /\ setup.tool \in {"web", "sql", "parametric"} /\ setup.fetcher \in {"async", "sync"}
         /\ attempt \in Nat /\ attempt <= setup.max_retries
         /\ began \in Nat /\ now \in Nat /\ began <= now
         /\ deaf \in BOOLEAN
  BY ToolCallsAssumption DEF TypeOK, SetupShape

-----------------------------------------------------------------------------
(* Each step keeps the types and the places.                               *)

LEMMA InitInv == Init => Inv
<1> SUFFICES ASSUME Init PROVE Inv
  OBVIOUS
<1>1. setup.timeout_seconds \in Nat /\ setup.max_retries \in Nat
      /\ (setup.deadline # Null => setup.deadline \in Nat)
  BY ToolCallsAssumption DEF Init, SetupShape
<1>2. TypeOK
  <2>1. CallTypes
    BY <1>1 DEF Init, CallTypes
  <2>2. FlagTypes
    BY DEF Init, FlagTypes
  <2>3. DataTypes
    BY DEF Init, DataTypes
  <2> QED  BY <2>1, <2>2, <2>3, TypeParts
<1>3. Place /\ Told /\ Vetted
  BY DEF Init, Place, Told, Vetted, SqlPlace
<1>4. Clock
  BY <1>1 DEF Init, Clock
<1> QED  BY <1>2, <1>3, <1>4 DEF Inv

\* Returning a status and a size of their types.
LEMMA ReturnTyped ==
  ASSUME NEW status \in Status, NEW size \in Nat, Return(status, size)
  PROVE  /\ pc' = "done" /\ result' \in [status : Status, size : Nat]
         /\ result'.status = status /\ result'.size = size
  BY DEF Return

LEMMA RetryTyped ==
  ASSUME TypeOK, pc = "fetch", NEW status \in {"timeout", "error"}, Retry(status), now' = now
  PROVE  \/ /\ attempt = setup.max_retries /\ attempt' = attempt /\ began' = began
            /\ pc' = "done" /\ result' \in [status : Status, size : Nat]
            /\ result'.status = status /\ result'.size = setup.max_retries + 1
         \/ /\ attempt < setup.max_retries /\ attempt' = attempt + 1 /\ began' = now
            /\ pc' = pc /\ result' = result
<1>1. CASE attempt = setup.max_retries
  <2>1. Return(status, attempt + 1) /\ UNCHANGED <<attempt, began>>
    BY <1>1 DEF Retry
  <2>2. status \in Status /\ attempt + 1 \in Nat
    BY SetupTypes DEF Status
  <2> QED  BY <1>1, <2>1, <2>2, ReturnTyped
<1>2. CASE attempt # setup.max_retries
  BY <1>2, SetupTypes DEF Retry
<1> QED  BY <1>1, <1>2

\* A step of the web tool.
WebStep == CallWeb \/ FetchAnswers \/ FetchRaises \/ FetchTimesOut

\* A step of another tool, in which no time passes.
OtherStep ==
    \/ CallSql \/ CallParametric \/ Execute \/ BuildSql \/ SetReadOnly
    \/ SetStatementTimeout \/ Executed \/ SqlRaises \/ Generated

LEMMA NextSteps ==
  ASSUME [Next]_vars
  PROVE  WebStep \/ OtherStep \/ CutOff \/ Tick \/ UNCHANGED vars
  BY DEF Next, Code, Answer, WebStep, OtherStep

\* What a step of the web tool does, the three ways it may go on.
LEMMA WebStepShape ==
  ASSUME TypeOK, WebStep
  PROVE  /\ UNCHANGED <<setup, now, sql, readOnly, ran>>
         /\ \/ /\ pc = "start" /\ setup.tool = "web" /\ UNCHANGED web
               /\ \/ pc' = "fetch" /\ result' = result
                  \/ /\ pc' = "done" /\ result' \in [status : Status, size : Nat]
                     /\ result'.status = "rejected"
            \/ /\ pc = "fetch" /\ UNCHANGED web
               /\ pc' = "done" /\ result' \in [status : Status, size : Nat]
               /\ result'.status = "success"
            \/ /\ pc = "fetch"
               /\ \E status \in {"timeout", "error"} : Retry(status)
               /\ \/ deaf' = deaf
                  \/ Overdue /\ ~Blocked /\ deaf' = TRUE
<1>1. CASE CallWeb
  <2>1. CASE Allowed(setup.url)
    BY <1>1, <2>1 DEF CallWeb, web, database
  <2>2. CASE ~Allowed(setup.url)
    <3>1. Return("rejected", 0) /\ "rejected" \in Status
      BY <1>1, <2>2 DEF CallWeb, Status
    <3> QED  BY <1>1, <3>1, ReturnTyped DEF CallWeb, web, database
  <2> QED  BY <2>1, <2>2
<1>2. CASE FetchAnswers
  <2>1. Return("success", attempt + 1) /\ "success" \in Status /\ attempt + 1 \in Nat
    BY <1>2, SetupTypes DEF FetchAnswers, Status
  <2> QED  BY <1>2, <2>1, ReturnTyped DEF FetchAnswers, web, database
<1>3. CASE FetchRaises
  BY <1>3 DEF FetchRaises, database
<1>4. CASE FetchTimesOut
  BY <1>4 DEF FetchTimesOut, AttemptOver, database
<1> QED  BY <1>1, <1>2, <1>3, <1>4 DEF WebStep

LEMMA WebStepInv ==
  ASSUME Inv, WebStep
  PROVE  Inv'
<1> USE DEF Inv
<1>0. CallTypes /\ FlagTypes /\ DataTypes
  BY TypeParts
<1>1. UNCHANGED <<setup, now, sql, readOnly, ran>>
  BY WebStepShape
<1>2. CASE pc = "start"
  <2>1. /\ setup.tool = "web" /\ attempt' = attempt /\ began' = began /\ deaf' = deaf
        /\ \/ pc' = "fetch" /\ result' = result
           \/ /\ pc' = "done" /\ result' \in [status : Status, size : Nat]
              /\ result'.status = "rejected"
    BY <1>2, WebStepShape DEF web
  <2>2. TypeOK'
    <3>1. CallTypes'
      BY <1>1, <2>1, <1>0 DEF CallTypes
    <3>2. FlagTypes'
      BY <1>1, <2>1, <1>0 DEF FlagTypes
    <3>3. DataTypes'
      BY <1>1, <2>1, <1>0 DEF DataTypes, ScopedSql, Asked, FromList
    <3> QED  BY <3>1, <3>2, <3>3 DEF TypeOK, CallTypes, FlagTypes, DataTypes
  <2>3. Place' /\ Told' /\ Vetted'
    BY <1>1, <1>2, <2>1 DEF Place, Told, Vetted, SqlPlace
  <2>4. Clock'
    BY <1>1, <1>2, <2>1 DEF Clock
  <2> QED  BY <2>2, <2>3, <2>4
<1>3. CASE pc = "fetch" /\ UNCHANGED web /\ pc' = "done" /\ result'.status = "success"
             /\ result' \in [status : Status, size : Nat]
  <2>1. TypeOK'
    <3>1. CallTypes'
      BY <1>1, <1>3, <1>0 DEF CallTypes, web
    <3>2. FlagTypes'
      BY <1>1, <1>3, <1>0 DEF FlagTypes, web
    <3>3. DataTypes'
      BY <1>1, <1>3, <1>0 DEF DataTypes, ScopedSql, Asked, FromList
    <3> QED  BY <3>1, <3>2, <3>3 DEF TypeOK, CallTypes, FlagTypes, DataTypes
  <2>2. Place' /\ Told' /\ Vetted'
    BY <1>1, <1>3 DEF Place, Told, Vetted, SqlPlace
  <2>3. Clock'
    BY <1>1, <1>3 DEF Clock, web
  <2> QED  BY <2>1, <2>2, <2>3
<1>4. ASSUME pc = "fetch", NEW status \in {"timeout", "error"}, Retry(status),
             deaf' = deaf \/ (Overdue /\ ~Blocked /\ deaf' = TRUE)
      PROVE  Inv'
  <2> DEFINE T == setup.timeout_seconds
  <2>1. setup.tool = "web"
    BY <1>4 DEF Place
  <2>2. \/ /\ attempt = setup.max_retries /\ attempt' = attempt /\ began' = began
           /\ pc' = "done" /\ result' \in [status : Status, size : Nat]
           /\ result'.status = status /\ result'.size = setup.max_retries + 1
        \/ /\ attempt < setup.max_retries /\ attempt' = attempt + 1 /\ began' = now
           /\ pc' = pc /\ result' = result
    BY <1>1, <1>4, RetryTyped
  <2>3. TypeOK'
    <3>1. CallTypes'
      <4>1. setup.max_retries \in Nat /\ attempt \in Nat /\ began \in Nat /\ now \in Nat
            /\ attempt <= setup.max_retries /\ began <= now
        BY SetupTypes
      <4>2. attempt' \in 0..setup.max_retries /\ began' \in 0..now
        BY <2>2, <4>1
      <4>3. pc' \in {"fetch", "done"}
        BY <1>4, <2>2
      <4> QED  BY <1>0, <1>1, <4>2, <4>3 DEF CallTypes
    <3>2. FlagTypes'
      BY <1>1, <1>4, <2>2, <1>0 DEF FlagTypes
    <3>3. DataTypes'
      BY <1>1, <1>4, <2>2, <1>0 DEF DataTypes, ScopedSql, Asked, FromList
    <3> QED  BY <3>1, <3>2, <3>3 DEF TypeOK, CallTypes, FlagTypes, DataTypes
  <2>4. Place' /\ Told' /\ Vetted'
    <3>1. status # "cut_off" /\ status \in {"timeout", "error"}
      BY <1>4
    <3> QED  BY <1>1, <1>4, <2>1, <2>2, <3>1 DEF Place, Told, Vetted, SqlPlace
  <2>5. attempt \in Nat /\ T \in Nat /\ began \in Nat /\ now \in Nat /\ began <= now
        /\ attempt * T \in Nat /\ (attempt + 1) * T = attempt * T + T
    BY SetupTypes, Times
  <2>6. began <= attempt * T /\ now - began <= T
    BY <2>1 DEF Clock
  <2>7. began' <= attempt' * T /\ now - began' <= T
    <3>1. CASE attempt' = attempt /\ began' = began
      BY <2>6, <3>1
    <3>2. CASE attempt' = attempt + 1 /\ began' = now
      <4>1. now <= attempt * T + T
        BY <2>5, <2>6
      <4>2. attempt' * T = attempt * T + T
        BY <2>5, <3>2
      <4> QED  BY <2>5, <3>2, <4>1, <4>2
    <3> QED  BY <2>2, <3>1, <3>2
  <2>8. deaf' =>
           /\ setup.deadline # Null /\ setup.fetcher # "sync"
           /\ \/ pc' = "done" /\ now = setup.deadline
              \/ /\ attempt' >= 1 /\ began' <= setup.deadline + (attempt' - 1) * T
    <3>1. CASE deaf /\ deaf' = deaf
      <4>1. /\ setup.deadline # Null /\ setup.fetcher # "sync" /\ setup.deadline \in Nat
            /\ attempt >= 1 /\ began <= setup.deadline + (attempt - 1) * T
        BY <1>4, <3>1, SetupTypes DEF Clock
      <4>2. attempt - 1 \in Nat /\ (attempt - 1) * T \in Nat
            /\ attempt * T = (attempt - 1) * T + T
        <5>1. attempt - 1 \in Nat
          BY <2>5, <4>1
        <5>2. ((attempt - 1) + 1) * T = (attempt - 1) * T + T /\ (attempt - 1) * T \in Nat
          BY <2>5, <5>1, Times
        <5> QED  BY <2>5, <5>1, <5>2
      <4>3. now <= setup.deadline + attempt * T
        BY <2>5, <2>6, <4>1, <4>2
      <4> QED  BY <2>2, <2>5, <4>1, <4>3
    <3>2. CASE ~deaf /\ Overdue /\ ~Blocked
      <4>1. setup.deadline # Null /\ now >= setup.deadline /\ setup.fetcher # "sync"
        BY <1>4, <3>2 DEF Overdue, Blocked
      <4>2. now = setup.deadline
        <5>1. setup.deadline \in Nat /\ now <= setup.deadline
          BY <3>2, <4>1, SetupTypes DEF Clock
        <5> QED  BY <2>5, <4>1, <5>1
      <4> QED  BY <2>2, <2>5, <4>1, <4>2
    <3> QED  BY <1>4, <3>1, <3>2 DEF Overdue
  <2>9. Clock'
    <3>1. ~deaf' => ~deaf
      BY <1>4
    <3> QED  BY <1>1, <1>4, <2>1, <2>2, <2>7, <2>8, <3>1 DEF Clock
  <2> QED  BY <2>3, <2>4, <2>9
<1> QED  BY <1>2, <1>3, <1>4, WebStepShape

\* What a step of the other tools leaves behind.
Handed ==
    /\ pc' \in SqlPlace \cup {"generate", "done"}
    /\ pc' \in SqlPlace => setup.tool = "sql"
    /\ pc' = "generate" => setup.tool = "parametric"
    /\ pc' = "done" => result' \in [status : Status, size : Nat] /\ result'.status # "cut_off"
    /\ pc' # "done" => result' = result
    /\ FlagTypes' /\ DataTypes' /\ Vetted'

LEMMA CallStep ==
  ASSUME Inv, CallSql \/ CallParametric
  PROVE  Handed
<1>0. FlagTypes /\ DataTypes
  BY TypeParts DEF Inv
<1>1. /\ pc = "start" /\ UNCHANGED <<setup, deaf, sql, readOnly, ran, result>>
      /\ \/ pc' = "build" /\ setup.tool = "sql"
         \/ pc' = "generate" /\ setup.tool = "parametric"
  BY DEF CallSql, CallParametric, web, database
<1>2. FlagTypes' /\ DataTypes'
  BY <1>0, <1>1 DEF FlagTypes, DataTypes, ScopedSql, Asked, FromList
<1>3. Vetted'
  BY <1>1 DEF Inv, Vetted, SqlPlace
<1> QED  BY <1>1, <1>2, <1>3 DEF Handed, SqlPlace

LEMMA BuildStep ==
  ASSUME Inv, BuildSql
  PROVE  Handed
<1>0. /\ FlagTypes /\ DataTypes /\ setup.tool = "sql"
      /\ pc = "build" /\ sql = Null /\ ran = Null /\ UNCHANGED <<setup, deaf, readOnly, ran>>
  BY TypeParts DEF Inv, BuildSql, Place, SqlPlace, Vetted, web
<1>1. CASE \E s \in Statement : Valid(s) /\ Asked(s) # {} /\ sql' = ScopedSql(s)
                             /\ pc' = AfterValidation /\ result' = result
  <2>1. pc' \in {"read_only", "execute"} /\ (pc' = "execute" => setup.executor # "session")
    BY <1>1 DEF AfterValidation
  <2>2. FlagTypes' /\ DataTypes'
    BY <1>0, <1>1 DEF FlagTypes, DataTypes, ScopedSql, Asked, FromList
  <2>3. Validated(sql)'
    BY <1>0, <1>1 DEF Validated, Valid, ScopedSql, Asked, FromList
  <2>4. Vetted'
    BY <1>0, <2>1, <2>3 DEF Vetted, SqlPlace
  <2> QED  BY <1>0, <1>1, <2>1, <2>2, <2>4 DEF Handed, SqlPlace
<1>2. CASE Return("rejected", 0) /\ UNCHANGED sql
  <2>1. /\ pc' = "done" /\ result' \in [status : Status, size : Nat]
        /\ result'.status = "rejected"
    BY <1>2, ReturnTyped DEF Status
  <2>2. FlagTypes' /\ DataTypes'
    BY <1>0, <1>2, <2>1 DEF FlagTypes, DataTypes, ScopedSql, Asked, FromList
  <2>3. Vetted'
    BY <1>0, <1>2, <2>1 DEF Vetted, SqlPlace
  <2> QED  BY <2>1, <2>2, <2>3 DEF Handed, SqlPlace
<1> QED  BY <1>1, <1>2 DEF BuildSql

LEMMA ReadOnlyStep ==
  ASSUME Inv, SetReadOnly \/ SetStatementTimeout
  PROVE  Handed
<1>0. /\ FlagTypes /\ DataTypes /\ setup.tool = "sql"
      /\ UNCHANGED <<setup, deaf, sql, ran, result>> /\ readOnly' \in BOOLEAN
      /\ \/ pc = "read_only" /\ pc' = "limit_time" /\ readOnly' = TRUE
         \/ pc = "limit_time" /\ pc' = "execute" /\ readOnly' = readOnly
  BY TypeParts DEF Inv, SetReadOnly, SetStatementTimeout, Place, SqlPlace, web, database, FlagTypes
<1>1. FlagTypes' /\ DataTypes'
  BY <1>0 DEF FlagTypes, DataTypes, ScopedSql, Asked, FromList
<1>2. Validated(sql)' /\ ran = Null
  <2>1. Validated(sql) /\ ran = Null
    BY <1>0 DEF Inv, Vetted, SqlPlace
  <2> QED  BY <1>0, <2>1 DEF Validated, Valid, ScopedSql, Asked, FromList
<1>3. Vetted'
  BY <1>0, <1>2 DEF Inv, Vetted, SqlPlace
<1> QED  BY <1>0, <1>1, <1>3 DEF Handed, SqlPlace

LEMMA ExecuteStep ==
  ASSUME Inv, Execute
  PROVE  Handed
<1>0. /\ FlagTypes /\ DataTypes /\ setup.tool = "sql"
      /\ UNCHANGED <<setup, deaf, sql, readOnly, result>>
      /\ pc = "execute" /\ pc' = "executing" /\ ran' = sql
  BY TypeParts DEF Inv, Execute, Place, SqlPlace, web
<1>1. FlagTypes' /\ DataTypes'
  BY <1>0 DEF FlagTypes, DataTypes, ScopedSql, Asked, FromList
<1>2. Validated(sql)' /\ Validated(ran)' /\ (setup.executor = "session" => readOnly)
  <2>1. Validated(sql) /\ (setup.executor = "session" => readOnly)
    BY <1>0 DEF Inv, Vetted, SqlPlace
  <2> QED  BY <1>0, <2>1 DEF Validated, Valid, ScopedSql, Asked, FromList
<1>3. Vetted'
  BY <1>0, <1>2 DEF Vetted, SqlPlace
<1> QED  BY <1>0, <1>1, <1>3 DEF Handed, SqlPlace

\* What was given to the executor stays as it is.
LEMMA RanKept ==
  ASSUME Inv, UNCHANGED <<setup, sql, readOnly, ran>>
  PROVE  /\ ran' # Null => Validated(ran)' /\ (setup.executor = "session" => readOnly)
         /\ DataTypes => (sql = Null \/ sql \in {ScopedSql(s) : s \in Statement})'
<1>1. ran # Null => Validated(ran) /\ (setup.executor = "session" => readOnly)
  BY DEF Inv, Vetted
<1> QED  BY <1>1 DEF Validated, Valid, ScopedSql, Asked, FromList, DataTypes

\* A step that is the last one, with any outcome but a cut-off.
LEMMA LastStep ==
  ASSUME Inv, UNCHANGED <<setup, deaf, sql, readOnly, ran>>, pc' = "done",
         result' \in [status : Status, size : Nat], result'.status # "cut_off",
         setup.tool = "sql" =>
             /\ result'.status # "rejected"
             /\ result'.status = "success" =>
                    Validated(ran) /\ result'.size <= setup.max_rows /\ ran.asked \subseteq ran.from
  PROVE  Handed
<1>0. FlagTypes /\ DataTypes
  BY TypeParts DEF Inv
<1>1. FlagTypes'
  BY <1>0 DEF FlagTypes
<1>2. DataTypes'
  BY <1>0, RanKept DEF DataTypes
<1>3. Validated(ran) => Validated(ran)'
  BY DEF Validated, Valid, ScopedSql, Asked, FromList
<1>4. Vetted'
  BY <1>3, RanKept DEF Vetted, SqlPlace
<1> QED  BY <1>1, <1>2, <1>4 DEF Handed, SqlPlace

LEMMA AnswerStep ==
  ASSUME Inv, Executed \/ SqlRaises \/ Generated
  PROVE  Handed
<1>0. UNCHANGED <<setup, deaf, sql, readOnly, ran>>
  BY DEF Executed, SqlRaises, Generated, web, database
<1>1. CASE Executed
  <2>1. /\ ran = sql /\ Validated(ran) /\ ran.asked \subseteq ran.from
    BY <1>1 DEF Executed, Inv, Vetted, SqlPlace
  <2>2. PICK rows \in 0..setup.max_rows + 1 : Return("success", Min({rows, setup.max_rows}))
    BY <1>1 DEF Executed
  <2>3. setup.max_rows \in Nat /\ rows \in Nat
    BY <2>2, SetupTypes DEF Inv
  <2>4. Min({rows, setup.max_rows}) \in Nat /\ Min({rows, setup.max_rows}) <= setup.max_rows
    BY <2>3, LeastOfTwo
  <2>5. /\ pc' = "done" /\ result' \in [status : Status, size : Nat]
        /\ result'.status = "success" /\ result'.size <= setup.max_rows
    BY <2>2, <2>4, ReturnTyped DEF Status
  <2> QED  BY <1>0, <2>1, <2>5, LastStep
<1>2. CASE SqlRaises
  <2>1. PICK status \in {"timeout", "error"} : Return(status, 0)
    BY <1>2 DEF SqlRaises
  <2>2. /\ pc' = "done" /\ result' \in [status : Status, size : Nat]
        /\ result'.status \in {"timeout", "error"}
    BY <2>1, ReturnTyped DEF Status
  <2> QED  BY <1>0, <2>2, LastStep
<1>3. CASE Generated
  <2>1. PICK status \in {"success", "error"} : Return(status, 0)
    BY <1>3 DEF Generated
  <2>2. /\ pc' = "done" /\ result' \in [status : Status, size : Nat]
        /\ result'.status \in {"success", "error"}
    BY <2>1, ReturnTyped DEF Status
  <2>3. setup.tool = "parametric"
    BY <1>3 DEF Generated, Inv, Place
  <2> QED  BY <1>0, <2>2, <2>3, LastStep
<1> QED  BY <1>1, <1>2, <1>3

LEMMA OtherStepInv ==
  ASSUME Inv, OtherStep
  PROVE  Inv'
<1> USE DEF Inv
<1>0. CallTypes
  BY TypeParts
<1>1. setup.tool # "web" /\ UNCHANGED <<setup, now, attempt, began, deaf>>
  <2>1. pc \in SqlPlace => setup.tool = "sql"
    BY DEF Place
  <2>2. pc = "generate" => setup.tool = "parametric"
    BY DEF Place
  <2> QED
    BY <2>1, <2>2 DEF OtherStep, CallSql, CallParametric, Execute, BuildSql, SetReadOnly,
       SetStatementTimeout, Executed, SqlRaises, Generated, web, SqlPlace
<1>2. Handed
  BY CallStep, BuildStep, ReadOnlyStep, ExecuteStep, AnswerStep DEF OtherStep
<1>3. TypeOK'
  <2>1. CallTypes'
    BY <1>0, <1>1, <1>2 DEF CallTypes, Handed, SqlPlace
  <2> QED  BY <1>2, <2>1 DEF Handed, TypeOK, CallTypes, FlagTypes, DataTypes
<1>4. Place'
  BY <1>1, <1>2 DEF Handed, Place, SqlPlace
<1>5. Clock'
  BY <1>1, <1>2 DEF Handed, Clock, SqlPlace
<1>6. Told'
  BY <1>1, <1>2 DEF Handed, Told
<1> QED  BY <1>2, <1>3, <1>4, <1>5, <1>6 DEF Handed

-----------------------------------------------------------------------------
(* The caller's timer, and time.                                           *)

LEMMA CutOffInv ==
  ASSUME Inv, CutOff
  PROVE  Inv'
<1> USE DEF Inv
<1>0. CallTypes /\ FlagTypes /\ DataTypes
  BY TypeParts
<1>1. /\ pc \notin {"start", "done"} /\ UNCHANGED <<setup, now, attempt, began, deaf, sql, readOnly, ran>>
      /\ setup.deadline # Null /\ now >= setup.deadline /\ ~deaf /\ ~Blocked
  BY DEF CutOff, Running, Overdue, web, database
<1>2. /\ pc' = "done" /\ result' \in [status : Status, size : Nat]
      /\ result'.status = "cut_off"
  BY ReturnTyped DEF CutOff, Status
<1>3. ~(setup.tool = "web" /\ setup.fetcher = "sync")
  <2>1. ASSUME setup.tool = "web" PROVE pc = "fetch"
    BY <1>0, <1>1, <2>1 DEF CallTypes, Place, SqlPlace
  <2> QED  BY <1>1, <2>1 DEF Blocked
<1>4. now = setup.deadline
  <2>1. now <= setup.deadline
    BY <1>1, <1>3 DEF Clock
  <2> QED  BY <1>1, <2>1, SetupTypes
<1>5. TypeOK'
  <2>1. CallTypes'
    BY <1>0, <1>1, <1>2 DEF CallTypes
  <2>2. FlagTypes' /\ DataTypes'
    BY <1>0, <1>1, <1>2, RanKept DEF FlagTypes, DataTypes
  <2> QED  BY <2>1, <2>2 DEF TypeOK, CallTypes, FlagTypes, DataTypes
<1>6. Place'
  BY <1>2 DEF Place, SqlPlace
<1>7. Clock'
  BY <1>1, <1>2 DEF Clock
<1>8. Told'
  BY <1>1, <1>2, <1>4 DEF Told
<1>9. Vetted'
  BY <1>1, <1>2, RanKept DEF Vetted, SqlPlace
<1> QED  BY <1>5, <1>6, <1>7, <1>8, <1>9

LEMMA TickInv ==
  ASSUME Inv, Tick
  PROVE  Inv'
<1> USE DEF Inv
<1>0. CallTypes /\ FlagTypes /\ DataTypes
  BY TypeParts
<1>1. /\ UNCHANGED <<setup, pc, attempt, began, deaf, sql, readOnly, ran, result>>
      /\ pc \notin {"start", "done"} /\ now' = now + 1 /\ ~AttemptOver /\ (Overdue => Blocked)
  BY DEF Tick, Running, web, database
<1>2. setup.timeout_seconds \in Nat /\ now \in Nat /\ began \in Nat
  BY SetupTypes
<1>3. TypeOK'
  <2>1. CallTypes'
    BY <1>0, <1>1, <1>2 DEF CallTypes
  <2>2. FlagTypes' /\ DataTypes'
    BY <1>0, <1>1, RanKept DEF FlagTypes, DataTypes
  <2> QED  BY <2>1, <2>2 DEF TypeOK, CallTypes, FlagTypes, DataTypes
<1>4. Place' /\ Told'
  BY <1>1 DEF Place, Told
<1>5. Clock'
  <2>1. ASSUME setup.tool = "web"
        PROVE  began <= attempt * setup.timeout_seconds /\ now + 1 - began <= setup.timeout_seconds
    <3>1. pc = "fetch"
      BY <1>0, <1>1, <2>1 DEF CallTypes, Place, SqlPlace
    <3>2. now - began < setup.timeout_seconds
      BY <1>1, <1>2, <3>1 DEF AttemptOver
    <3> QED  BY <1>2, <2>1, <3>2 DEF Clock
  <2>2. ASSUME setup.deadline # Null, ~deaf, ~(setup.tool = "web" /\ setup.fetcher = "sync")
        PROVE  now + 1 <= setup.deadline
    <3>1. ~Blocked
      BY <2>2 DEF Blocked, Place
    <3>2. ~(now >= setup.deadline)
      BY <1>1, <2>2, <3>1 DEF Overdue
    <3> QED  BY <1>2, <2>2, <3>2, SetupTypes
  <2>3. deaf =>
           /\ setup.deadline # Null /\ setup.tool = "web" /\ setup.fetcher # "sync"
           /\ attempt >= 1 /\ began <= setup.deadline + (attempt - 1) * setup.timeout_seconds
    BY <1>1 DEF Clock
  <2>4. (setup.tool = "web" =>
            /\ began <= attempt * setup.timeout_seconds
            /\ now - began <= setup.timeout_seconds)'
    <3> SUFFICES ASSUME setup.tool = "web"
                 PROVE  /\ began' <= attempt' * (setup').timeout_seconds
                        /\ now' - began' <= (setup').timeout_seconds
      BY <1>1
    <3>1. /\ setup' = setup /\ attempt' = attempt /\ began' = began /\ now' = now + 1
      BY <1>1
    <3> QED  BY <1>2, <2>1, <3>1
  <2>5. ((setup.deadline # Null /\ ~deaf /\ ~(setup.tool = "web" /\ setup.fetcher = "sync")) =>
            now <= setup.deadline)'
    BY <1>1, <2>2
  <2>6. (deaf =>
            /\ setup.deadline # Null /\ setup.tool = "web" /\ setup.fetcher # "sync"
            /\ attempt >= 1
            /\ began <= setup.deadline + (attempt - 1) * setup.timeout_seconds)'
    BY <1>1, <2>3
  <2> QED  BY <1>1, <2>4, <2>5, <2>6 DEF Clock
<1>6. Vetted'
  <2>1. pc \in SqlPlace \ {"build"} => Validated(sql)'
    <3>1. pc \in SqlPlace \ {"build"} => Validated(sql)
      BY DEF Vetted
    <3>2. Validated(sql) => Validated(sql)'
      BY <1>1 DEF Validated, Valid, ScopedSql, Asked, FromList
    <3> QED  BY <3>1, <3>2
  <2> QED  BY <1>1, <2>1, RanKept DEF Vetted
<1> QED  BY <1>3, <1>4, <1>5, <1>6

LEMMA StutterInv ==
  ASSUME Inv, UNCHANGED vars
  PROVE  Inv'
<1> USE DEF Inv, vars, web, database
<1>1. TypeOK'
  BY DEF TypeOK, ScopedSql, Asked, FromList
<1>2. Place' /\ Clock' /\ Told'
  BY DEF Place, Clock, Told
<1>3. Vetted'
  <2>1. (Validated(sql) => Validated(sql)') /\ (Validated(ran) => Validated(ran)')
    BY DEF Validated, Valid, ScopedSql, Asked, FromList
  <2> QED  BY <2>1 DEF Vetted
<1> QED  BY <1>1, <1>2, <1>3

LEMMA InvAlways == Spec => []Inv
<1>1. Inv /\ [Next]_vars => Inv'
  BY NextSteps, WebStepInv, OtherStepInv, CutOffInv, TickInv, StutterInv
<1> QED  BY <1>1, InitInv, PTL DEF Spec

-----------------------------------------------------------------------------
(* What the invariant implies.                                             *)

LEMMA InvTime == Inv => RetriesWithinTime
<1> SUFFICES ASSUME Inv PROVE RetriesWithinTime
  OBVIOUS
<1> USE DEF Inv
<1> DEFINE T == setup.timeout_seconds
           n == setup.max_retries
<1>1. /\ T \in Nat /\ n \in Nat /\ attempt \in Nat /\ attempt <= n
      /\ began \in Nat /\ now \in Nat /\ began <= now
      /\ (setup.deadline # Null => setup.deadline \in Nat)
  BY SetupTypes
<1>2. attempt * T \in Nat /\ n * T \in Nat /\ attempt * T <= n * T /\ (n + 1) * T = n * T + T
  <2> HIDE DEF T, n
  <2>1. attempt * T \in Nat /\ n * T \in Nat /\ attempt * T <= n * T
    BY <1>1, Times
  <2>2. (n + 1) * T = n * T + T
    BY <1>1, Times
  <2> QED  BY <2>1, <2>2
<1>3. setup.tool = "web" => now <= (n + 1) * T
  <2> SUFFICES ASSUME setup.tool = "web" PROVE now <= (n + 1) * T
    OBVIOUS
  <2>1. began <= attempt * T /\ now - began <= T
    BY DEF Clock
  <2> QED  BY <1>1, <1>2, <2>1
<1>4. ASSUME setup.deadline # Null, ~(now <= setup.deadline), setup.fetcher # "sync"
      PROVE  deaf /\ now <= setup.deadline + n * T
  <2>1. deaf /\ setup.tool = "web"
    BY <1>4 DEF Clock
  <2>2. now - began <= T
    BY <2>1 DEF Clock
  <2>3. attempt >= 1 /\ began <= setup.deadline + (attempt - 1) * T
    BY <1>1, <1>4, <2>1 DEF Clock
  <2>4. attempt - 1 \in Nat /\ (attempt - 1) * T \in Nat
        /\ attempt * T = (attempt - 1) * T + T
    <3> HIDE DEF T
    <3>1. attempt - 1 \in Nat
      BY <1>1, <2>3
    <3>2. ((attempt - 1) + 1) * T = (attempt - 1) * T + T /\ (attempt - 1) * T \in Nat
      BY <1>1, <3>1, Times
    <3> QED  BY <1>1, <3>1, <3>2
  <2> QED  BY <1>1, <1>2, <1>4, <2>1, <2>2, <2>3, <2>4
<1> QED  BY <1>3, <1>4 DEF RetriesWithinTime, Told

\* What with_tenant makes of a statement: each real table is held to the tenant,
\* or is one of the three it misses, once the database accepts the names.
LEMMA TenantKept ==
  ASSUME NEW s \in Statement, NEW q, q = ScopedSql(s), q.asked \subseteq q.from,
         NEW t \in q.tables
  PROVE  HeldToTenant(q, t) \/ q.where = "or" \/ t.name \in q.ctes \/ Shadowed(q, t)
<1>1. /\ q.tables = s.tables /\ q.ctes = s.ctes /\ q.asked = Asked(s)
  BY DEF ScopedSql
<1>2. t.name \notin q.ctes => t.qualifier \in q.asked
  BY <1>1 DEF Asked
<1>3. StatementShape(s)
  BY ToolCallsAssumption
<1>4. t.outer \in BOOLEAN
  BY <1>1, <1>3 DEF StatementShape, Tables
<1> QED  BY <1>2, <1>4 DEF HeldToTenant, Shadowed

LEMMA InvVetted == Inv => OnlyVettedStatementsRun
<1> SUFFICES ASSUME Inv PROVE OnlyVettedStatementsRun
  OBVIOUS
<1>1. ASSUME Validated(ran)
      PROVE  /\ \E s \in Statement : s.form = "select" /\ ~s.writes /\ ran = ScopedSql(s)
             /\ ran.limit <= setup.max_rows /\ ran # Null /\ ran.asked # {}
             /\ ran.asked \subseteq ran.from => \A t \in ran.tables :
                   HeldToTenant(ran, t) \/ ran.where = "or" \/ t.name \in ran.ctes \/ Shadowed(ran, t)
  <2>1. PICK s \in Statement : Valid(s) /\ Asked(s) # {} /\ ran = ScopedSql(s)
    BY <1>1 DEF Validated
  <2>2. setup.max_rows \in Nat
    BY SetupTypes DEF Inv
  <2>3. /\ ran.tables = s.tables /\ ran.asked = Asked(s)
        /\ ran.limit = IF s.limit.given = "literal" THEN s.limit.rows ELSE setup.max_rows
    BY <2>1 DEF ScopedSql
  <2>4. ran.limit <= setup.max_rows
    BY <2>1, <2>2, <2>3 DEF Valid
  <2>5. ran # Null
    <3>1. StatementShape(s)
      BY ToolCallsAssumption
    <3>2. \A t \in s.tables : t.qualifier \in Name
      BY <3>1 DEF StatementShape, Tables
    <3>3. Asked(s) \in SUBSET Name /\ FromList(s) \in SUBSET Name
      BY <3>1, <3>2 DEF StatementShape, Asked, FromList
    <3>4. (IF s.limit.given = "literal" THEN s.limit.rows ELSE setup.max_rows) \in Nat
      BY <2>2, <3>1 DEF StatementShape
    <3>5. s.tables \in SUBSET Tables /\ s.ctes \in SUBSET Name
          /\ s.where \in {"none", "or", "other"}
      BY <3>1 DEF StatementShape
    <3>6. ran \in Scopeds
      BY <2>1, <3>3, <3>4, <3>5 DEF ScopedSql, Scopeds
    <3> QED  BY <3>6, NullIsNoStatement
  <2>6. ran.asked \subseteq ran.from => \A t \in ran.tables :
           HeldToTenant(ran, t) \/ ran.where = "or" \/ t.name \in ran.ctes \/ Shadowed(ran, t)
    BY <2>1, TenantKept
  <2> QED  BY <2>1, <2>3, <2>4, <2>5, <2>6 DEF Valid
<1>2. /\ ran # Null => Validated(ran) /\ (setup.executor = "session" => readOnly)
      /\ (pc = "done" /\ setup.tool = "sql") =>
             /\ result.status = "rejected" => ran = Null
             /\ result.status = "success" =>
                   /\ Validated(ran)
                   /\ result.size <= setup.max_rows
                   /\ ran.asked \subseteq ran.from
  BY DEF Inv, Vetted
<1> QED  BY <1>1, <1>2 DEF OnlyVettedStatementsRun

\* Every variable of a tool call keeps its type, whatever the wiring, the
\* statement and the deadline (web_tool.py, sql_tool.py, parametric_tool.py).
THEOREM TypeCorrect == Spec => []TypeOK
  BY InvAlways, PTL DEF Inv

\* Retries keep to the time of the attempts, and a caller under wait_for has its
\* answer by the deadline but for the two cases RetriesWithinTime names, for all
\* timeouts, retries and deadlines (web_tool.py and the agent loop's wait_for).
THEOREM TimeKept == Spec => []RetriesWithinTime
  BY InvAlways, InvTime, PTL

\* Only validated and limited SELECTs reach the executor, and what they return is
\* held to the tenant but for the three cases OnlyVettedStatementsRun names, for
\* all statements the query builder may write (sql_tool.py, sql_validate.py).
THEOREM VettedAlways == Spec => []OnlyVettedStatementsRun
  BY InvAlways, InvVetted, PTL
=============================================================================
