----------------------------- MODULE QueryGraph -----------------------------
(***************************************************************************)
(* run_query (src/adaptive/graph/build.py): look into the cache, choose a  *)
(* route, run one tool or the agent loop, check the output, store it.      *)
(* Several queries run at once on one event loop; each gives it up at the  *)
(* embedding call, in the router and in the tool or agent, and documents   *)
(* are replaced meanwhile.  The agent loop is taken by what it may answer  *)
(* (module AgentLoop), the cache from SemanticCache.                       *)
(***************************************************************************)
EXTENDS SemanticCache

CONSTANTS
    Query,           \* the queries asked, as tasks
    Requests,        \* topic, scope, mode and routing policy of a query
    Tool,            \* values of RouteTool
    Wired,           \* keys of deps.tools
    Vector, Parametric,
    Readable,        \* the documents each scope may read
    Guarded,         \* a guardrail runner is wired
    CacheWired,      \* a cache and an embedding provider are wired
    Ttl,             \* cache_ttl_seconds
    MaxVersion,      \* bound: replacements of a document
    MaxTime,         \* bound: ticks
    MaxForeign,      \* bound: entries put by others than run_query
    Null

Depth == {"parametric", "single_hop", "multi_hop"}

\* RoutingPolicy: the depth and the tool it forces, if any, and
\* escalation_depth, any of the three.
Policy == [depth : Depth \cup {Null}, tool : Tool \cup {Null}, escalation : Depth]

Request == [topic : Topic, scope : Scope, mode : Mode, policy : Policy]

\* `escalated` is history: the depth is the one the policy escalates to.
Route == [depth : Depth, tool : Tool, escalated : BOOLEAN]

\* `refs` and `cached` are history: what a hit was served with.
Answer == [status : {"grounded", "partial", "refused"}, draws : SUBSET DocVersion,
           refs : SUBSET DocVersion, cached : BOOLEAN]

ASSUME QueryGraphAssumption ==
    /\ Requests \subseteq Request
    /\ {Vector, Parametric} \cup Wired \subseteq Tool /\ Vector # Parametric
    /\ Readable \in [Scope -> SUBSET Doc]
    /\ Guarded \in BOOLEAN /\ CacheWired \in BOOLEAN
    /\ Ttl \in Nat /\ MaxVersion \in Nat /\ MaxTime \in Nat /\ MaxForeign \in Nat
    /\ Null \notin Request \cup Route \cup Answer \cup Depth \cup Tool

VARIABLES
    pc,      \* the await a query is at, or how it ended
    request,
    route,   \* the route decision
    draws,   \* document versions the tools have read for it
    answer,  \* its answer, set also if it is lost on the way out
    ended,   \* history: when a query was answered
    cache,
    active,  \* the active version of each document
    now,
    foreign  \* entries others have put

queryVars == <<pc, request, route, draws, answer, ended>>
worldVars == <<active, now, foreign>>
vars == <<queryVars, cache, worldVars>>

TypeOK ==
    /\ pc \in [Query -> {"none", "embedding", "routing", "acting", "read",
                         "answered", "raised"}]
    /\ request \in [Query -> Requests \cup {Null}]
    /\ route \in [Query -> Route \cup {Null}]
    /\ draws \in [Query -> SUBSET DocVersion]
    /\ answer \in [Query -> Answer \cup {Null}]
    /\ ended \in [Query -> Nat]
    /\ cache \subseteq Entry
    /\ active \in [Doc -> Nat]
    /\ now \in Nat
    /\ foreign \in Nat
    /\ \A q \in Query :
          /\ pc[q] # "none" => request[q] # Null
          /\ pc[q] \in {"acting", "read"} => route[q] # Null
          /\ pc[q] = "answered" => answer[q] # Null

Init ==
    /\ pc = [q \in Query |-> "none"]
    /\ request = [q \in Query |-> Null]
    /\ route = [q \in Query |-> Null]
    /\ draws = [q \in Query |-> {}]
    /\ answer = [q \in Query |-> Null]
    /\ ended = [q \in Query |-> 0]
    /\ cache = {}
    /\ active = [d \in Doc |-> 1]
    /\ now = 0
    /\ foreign = 0

-----------------------------------------------------------------------------
(* How a query ends.                                                       *)

Raise(q) == pc' = [pc EXCEPT ![q] = "raised"]

\* Mutant: the answer is not passed on.
ReturnNothing(q, a) ==
    /\ pc' = [pc EXCEPT ![q] = "answered"]
    /\ ended' = [ended EXCEPT ![q] = now]
    /\ UNCHANGED answer

Return(q, a) ==
    /\ pc' = [pc EXCEPT ![q] = "answered"]
    /\ answer' = [answer EXCEPT ![q] = a]
    /\ ended' = [ended EXCEPT ![q] = now]

Fresh(q, status) ==
    [status |-> status, draws |-> draws[q], refs |-> {}, cached |-> FALSE]

Asked(q) ==
    /\ pc[q] = "none"
    /\ \E r \in Requests : request' = [request EXCEPT ![q] = r]
    /\ pc' = [pc EXCEPT ![q] = "embedding"]
    /\ UNCHANGED <<route, draws, answer, ended, cache, worldVars>>

-----------------------------------------------------------------------------
(* The cache, then the route.                                              *)

Hits(q) ==
    IF CacheWired
    THEN Best(Candidates(cache, request[q], now, active), request[q])
    ELSE {}

\* Whatever the entry's answer was, a hit is called grounded; it also answers
\* a query whose policy forces a route.
Hit(q) ==
    /\ pc[q] = "embedding"
    /\ \E e \in Hits(q) :
           Return(q, [status |-> "grounded", draws |-> e.draws, refs |-> e.refs,
                      cached |-> TRUE])
    /\ UNCHANGED <<request, route, draws, cache, worldVars>>

Available(tool) == tool \in Wired \cup {Vector, Parametric}

\* What becomes of the route decision rt.
Follow(q, rt) ==
    /\ route' = [route EXCEPT ![q] = rt]
    /\ IF rt.depth = "multi_hop" \/ Available(rt.tool)
       THEN pc' = [pc EXCEPT ![q] = "acting"] /\ UNCHANGED <<answer, ended>>
       ELSE Return(q, Fresh(q, "refused"))
    /\ UNCHANGED <<request, draws, cache, worldVars>>

Forces(policy) == policy.depth # Null \/ policy.tool # Null

\* forced_decision of a policy that forces a depth, a tool or both.
ForcedDecision(policy) ==
    [depth |-> IF policy.depth = Null THEN "single_hop" ELSE policy.depth,
     tool |-> IF policy.depth = "parametric" THEN Parametric
              ELSE IF policy.tool = Null THEN Vector ELSE policy.tool,
     escalated |-> FALSE]

MissForced(q) ==
    /\ pc[q] = "embedding" /\ Hits(q) = {}
    /\ Forces(request[q].policy)
    /\ Follow(q, ForcedDecision(request[q].policy))

MissRouted(q) ==
    /\ pc[q] = "embedding" /\ Hits(q) = {}
    /\ ~Forces(request[q].policy)
    /\ pc' = [pc EXCEPT ![q] = "routing"]
    /\ UNCHANGED <<request, route, draws, answer, ended, cache, worldVars>>

\* Mutant: the decision is taken as it comes.
AsDecided(rt) == rt

\* normalize_decision: parametric depth never retrieves.
Normalized(rt) ==
    IF rt.depth = "parametric" THEN [rt EXCEPT !.tool = Parametric] ELSE rt

\* apply_escalation: a decision is kept when it is confident or no budget is
\* left; otherwise its depth, and only that, becomes the policy's.
Escalated(rt, keep, depth) ==
    IF keep THEN Normalized(rt)
    ELSE [Normalized(rt) EXCEPT !.depth = depth, !.escalated = TRUE]

Routed(q) ==
    /\ pc[q] = "routing"
    /\ \E rt \in Route, keep \in BOOLEAN :
           /\ ~rt.escalated
           /\ Follow(q, Escalated(rt, keep, request[q].policy.escalation))

-----------------------------------------------------------------------------
(* The tool or the agent, the output check, the cache again.               *)

Direct(q) == route[q].depth # "multi_hop"

\* What a retrieval finds now of the documents the scope may read.
Visible(q) == {[doc |-> d, ver |-> active[d]] : d \in Readable[request[q].scope]}

\* The vector tool of the direct path reads once, ...
ReadOnce(q) ==
    /\ pc[q] = "acting"
    /\ Direct(q) /\ route[q].tool = Vector
    /\ \E found \in SUBSET Visible(q) : draws' = [draws EXCEPT ![q] = found]
    /\ pc' = [pc EXCEPT ![q] = "read"]
    /\ UNCHANGED <<request, route, answer, ended, cache, worldVars>>

\* ... the agent any number of times.
ReadMore(q) ==
    /\ pc[q] = "acting"
    /\ ~Direct(q)
    /\ \E found \in SUBSET Visible(q) : draws' = [draws EXCEPT ![q] = @ \cup found]
    /\ UNCHANGED <<pc, request, route, answer, ended, cache, worldVars>>

\* The embedding call, the look-up, the router, a tool or the agent may raise;
\* the vector and the parametric tool catch everything.
MayRaise(q) ==
    \/ pc[q] \in {"embedding", "routing"}
    \/ pc[q] = "acting" /\ ~(Direct(q) /\ route[q].tool \in {Vector, Parametric})

\* Mutant: what raised is tried again from the start.
AwaitRetries(q) ==
    /\ MayRaise(q)
    /\ pc' = [pc EXCEPT ![q] = "embedding"]
    /\ route' = [route EXCEPT ![q] = Null]
    /\ draws' = [draws EXCEPT ![q] = {}]
    /\ UNCHANGED <<request, answer, ended, cache, worldVars>>

AwaitRaises(q) ==
    /\ MayRaise(q)
    /\ Raise(q)
    /\ UNCHANGED <<request, route, draws, answer, ended, cache, worldVars>>

\* The entry run_query makes of an answer: it references nothing.
NewEntry(q) ==
    [topic |-> request[q].topic, scope |-> request[q].scope,
     mode |-> request[q].mode, draws |-> draws[q], refs |-> {},
     expires |-> now + Ttl]

Store(q, status) ==
    IF CacheWired /\ status # "refused"
    THEN cache' = Put(cache, NewEntry(q))
    ELSE UNCHANGED cache

\* The answer is stored and returned, ...
Deliver(q, status) ==
    /\ Store(q, status)
    /\ Return(q, Fresh(q, status))

\* ... or lost when what comes after it raises.
Lose(q, status) ==
    /\ Raise(q)
    /\ answer' = [answer EXCEPT ![q] = Fresh(q, status)]
    /\ UNCHANGED <<ended, cache>>

StoreRaises(q, status) == CacheWired /\ status # "refused" /\ Lose(q, status)

\* What the direct path's output check makes of a result with or without
\* text; a verdict of qualify leaves the answer as it is.
Checked(text) ==
    IF ~Guarded THEN {"grounded"}
    ELSE IF text THEN {"grounded", "refused"} ELSE {"refused"}

ToolFails(q) ==
    /\ pc[q] = "acting" /\ Direct(q)
    /\ Deliver(q, "refused")
    /\ UNCHANGED <<request, route, draws, worldVars>>

ToolSucceeds(q) ==
    /\ pc[q] \in {"acting", "read"} /\ Direct(q)
    /\ route[q].tool = Vector => pc[q] = "read"
    /\ \E text \in BOOLEAN :
           /\ route[q].tool = Vector => text = (draws[q] # {})
           /\ \E status \in Checked(text) :
                  Deliver(q, status) \/ StoreRaises(q, status)
    /\ UNCHANGED <<request, route, draws, worldVars>>

\* The agent's answer (AgentLoop: partial only with guardrails, grounded only
\* on evidence).
AgentAnswers(q, status) ==
    /\ pc[q] = "acting" /\ ~Direct(q)
    /\ status = "partial" => Guarded
    /\ UNCHANGED <<request, route, draws, worldVars>>

AgentReturns(q) ==
    \E status \in {"grounded", "partial", "refused"} :
        /\ AgentAnswers(q, status)
        /\ Guarded => status = "refused"
        /\ Deliver(q, status) \/ StoreRaises(q, status)

\* Line 140: direct_evidence is not bound on this path.
AgentAnswerChecked(q) ==
    \E status \in {"grounded", "partial"} :
        /\ AgentAnswers(q, status)
        /\ Guarded
        /\ Lose(q, status)

-----------------------------------------------------------------------------
(* Others.                                                                 *)

\* Ingestion activates a new version; nothing tells the cache.
Replace(d) ==
    /\ active[d] < MaxVersion
    /\ active' = [active EXCEPT ![d] = @ + 1]
    /\ UNCHANGED <<queryVars, cache, now, foreign>>

Tick ==
    /\ now < MaxTime
    /\ now' = now + 1
    /\ UNCHANGED <<queryVars, cache, active, foreign>>

\* Another caller of the cache service stores an answer with its references,
\* to versions it has read at some time before.
PutForeign ==
    /\ CacheWired /\ foreign < MaxForeign
    /\ foreign' = foreign + 1
    /\ \E t \in Topic, s \in Scope, m \in Mode, d \in Doc :
           \E v \in 1..active[d] :
               /\ d \in Readable[s]
               /\ cache' = Put(cache, [topic |-> t, scope |-> s, mode |-> m,
                                       draws |-> {[doc |-> d, ver |-> v]},
                                       refs |-> {[doc |-> d, ver |-> v]},
                                       expires |-> now + Ttl])
    /\ UNCHANGED <<queryVars, active, now>>

\* A caller of invalidate_document (the service has none).
Invalidate ==
    /\ \E v \in UNION {e.refs : e \in cache} :
           cache' = InvalidateDocument(cache, v, now)
    /\ UNCHANGED <<queryVars, worldVars>>

-----------------------------------------------------------------------------
Step(q) ==
    \/ Hit(q) \/ MissForced(q) \/ MissRouted(q) \/ Routed(q)
    \/ ReadOnce(q) \/ ToolFails(q) \/ ToolSucceeds(q)
    \/ AgentReturns(q) \/ AgentAnswerChecked(q) \/ AwaitRaises(q)

Next ==
    \/ \E q \in Query : Asked(q) \/ Step(q) \/ ReadMore(q)
    \/ \E d \in Doc : Replace(d)
    \/ Tick \/ PutForeign \/ Invalidate

Spec == Init /\ [][Next]_vars

\* Providers and tools answer or raise, the agent loop terminates.
FairSpec == Spec /\ \A q \in Query : WF_vars(Step(q))
-----------------------------------------------------------------------------
(* Properties.                                                             *)

\* What a query is answered with, fresh or from the cache, was made only from
\* documents its scope may read.
EvidenceInScope ==
    \A q \in Query :
        answer[q] # Null =>
            \A v \in answer[q].draws : v.doc \in Readable[request[q].scope]

Served(q) == pc[q] = "embedding" /\ pc'[q] = "answered" /\ answer'[q].cached

\* A hit on an entry of run_query repeats what a query with the same scope
\* and mode and a similar text was answered, not refused, less than the time
\* to live ago.
HitRepeatsAnswer ==
    [][\A q \in Query :
          (Served(q) /\ answer'[q].refs = {}) =>
              \E p \in Query :
                  /\ pc[p] = "answered" /\ ~answer[p].cached
                  /\ answer[p].status # "refused"
                  /\ answer[p].draws = answer'[q].draws
                  /\ request[p].scope = request[q].scope
                  /\ request[p].mode = request[q].mode
                  /\ <<request[p].topic, request[q].topic>> \in Near
                  /\ now < ended[p] + Ttl]_vars

\* An entry that names its references is not served once one of them has been
\* replaced, in whatever order reading, replacing, storing and invalidating
\* happen, and also if nobody invalidates.
ReferencedHitsCurrent ==
    [][\A q \in Query :
          (Served(q) /\ answer'[q].refs # {}) =>
              \A v \in answer'[q].draws : active[v.doc] = v.ver]_vars

\* escalation.py: "Enforce the invariant that parametric depth never
\* retrieves".  Whatever a policy forces and a router answers, a query at that
\* depth keeps another tool, or retrieves, only if it was escalated there by a
\* policy that names it as escalation_depth: apply_escalation normalises
\* before it sets the depth and not again after.
ParametricNeverRetrieves ==
    \A q \in Query :
        (/\ route[q] # Null /\ route[q].depth = "parametric"
         /\ route[q].tool # Parametric \/ draws[q] # {})
        => route[q].escalated /\ request[q].policy.escalation = "parametric"

\* Every query comes to an end.
QueryEnds == \A q \in Query : pc[q] = "embedding" ~> pc[q] \in {"answered", "raised"}

-----------------------------------------------------------------------------
(* What the documents claim and the code does otherwise (README, Findings).*)

\* Design, V1 completeness: "Multi-hop queries use the bounded agent loop and
\* terminate under all configured budgets."  What the agent answers reaches
\* the caller.
AgentAnswersArrive ==
    \A q \in Query : (answer[q] # Null /\ ~Direct(q)) => pc[q] = "answered"
=============================================================================
