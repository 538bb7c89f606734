-------------------------- MODULE QueryGraphProofs --------------------------
(***************************************************************************)
(* Proofs about QueryGraph: for any queries, scopes, documents and time to *)
(* live, what a query is answered with, fresh or from the cache.           *)
(***************************************************************************)
EXTENDS QueryGraph, TLAPS

\* Nothing is known of a query before it is routed.
Unrouted ==
    \A q \in Query :
        pc[q] \in {"none", "embedding", "routing"} =>
            route[q] = Null /\ draws[q] = {} /\ answer[q] = Null

\* Nothing outside its scope is in a query's hands or in an entry.
DrawsInScope ==
    /\ \A q \in Query : \A v \in draws[q] : v.doc \in Readable[request[q].scope]
    /\ \A e \in cache : \A v \in e.draws : v.doc \in Readable[e.scope]

\* Query p was answered with what entry e, of run_query, holds.
MadeBy(e, p) ==
    /\ pc[p] = "answered" /\ ~answer[p].cached
    /\ answer[p].status # "refused"
    /\ answer[p].draws = e.draws
    /\ request[p].scope = e.scope
    /\ request[p].mode = e.mode
    /\ request[p].topic = e.topic
    /\ e.expires <= ended[p] + Ttl

EntriesAccountedFor ==
    \A e \in cache :
        /\ e.refs = {} => \E p \in Query : MadeBy(e, p)
        /\ e.refs # {} => e.draws = e.refs

Inv == TypeOK /\ Unrouted /\ EvidenceInScope /\ DrawsInScope /\ EntriesAccountedFor

LEMMA InitInv == Init => Inv
  BY QueryGraphAssumption
  DEF Init, Inv, TypeOK, Unrouted, EvidenceInScope, DrawsInScope, EntriesAccountedFor

-----------------------------------------------------------------------------
(* The cache.                                                              *)

\* What a hit is chosen by.
LEMMA HitFits ==
  ASSUME NEW q \in Query, NEW e \in Hits(q)
  PROVE  /\ e \in cache
         /\ e.scope = request[q].scope /\ e.mode = request[q].mode
         /\ <<e.topic, request[q].topic>> \in Near
         /\ ~(e.expires <= now)
         /\ \A v \in e.refs : active[v.doc] = v.ver
  BY DEF Hits, Best, Candidates, SameScope, Expired, ReferencesActive

\* Invalidation shortens the life of entries that name the version.
LEMMA Invalidated ==
  ASSUME TypeOK, NEW v, NEW f \in InvalidateDocument(cache, v, now)
  PROVE  /\ f \in Entry
         /\ \/ f \in cache
            \/ \E e \in cache : /\ v \in e.refs
                                /\ f.scope = e.scope /\ f.draws = e.draws
                                /\ f.refs = e.refs
<1>1. PICK e \in cache : f = IF v \in e.refs THEN [e EXCEPT !.expires = now] ELSE e
  BY DEF InvalidateDocument
<1>2. e \in Entry /\ now \in Nat  BY DEF TypeOK
<1>3. CASE v \in e.refs
  BY <1>1, <1>2, <1>3 DEF Entry
<1>4. CASE v \notin e.refs
  BY <1>1, <1>2, <1>4
<1> QED  BY <1>3, <1>4

LEMMA NewEntryTyped ==
  ASSUME TypeOK, NEW q \in Query, pc[q] \in {"acting", "read"}
  PROVE  NewEntry(q) \in Entry
<1>1. request[q] \in Request /\ draws[q] \in SUBSET DocVersion
  BY QueryGraphAssumption DEF TypeOK
<1>2. now + Ttl \in Nat  BY QueryGraphAssumption DEF TypeOK
<1> QED  BY <1>1, <1>2 DEF NewEntry, Entry, Request

-----------------------------------------------------------------------------
(* What a step of query q does to the others: nothing.                     *)

OnlyOf(q) ==
    /\ pc[q] \notin {"answered", "raised"}
    /\ \A p \in Query \ {q} :
           /\ pc'[p] = pc[p] /\ request'[p] = request[p] /\ route'[p] = route[p]
           /\ draws'[p] = draws[p] /\ answer'[p] = answer[p] /\ ended'[p] = ended[p]
    /\ pc[q] # "none" => request'[q] = request[q]
    /\ UNCHANGED worldVars

\* A query goes on or raises; what it has drawn stays in scope.
LEMMA GoesOnInv ==
  ASSUME Inv, NEW q \in Query, OnlyOf(q), TypeOK', UNCHANGED <<answer, ended, cache>>,
         pc'[q] # "answered",
         pc'[q] \in {"embedding", "routing"} =>
             /\ pc[q] \in {"none", "embedding"}
             /\ UNCHANGED <<route, draws>>,
         pc'[q] # "none",
         \A v \in draws'[q] : v.doc \in Readable[request'[q].scope]
  PROVE  Inv'
<1> USE DEF Inv, OnlyOf, worldVars
<1>1. Unrouted'  BY DEF Unrouted
<1>2. EvidenceInScope'  BY DEF EvidenceInScope, Unrouted, TypeOK
<1>3. DrawsInScope'  BY DEF DrawsInScope
<1>4. EntriesAccountedFor'  BY DEF EntriesAccountedFor, MadeBy
<1> QED  BY <1>1, <1>2, <1>3, <1>4

\* A query ends with an answer a, drawn in scope; cache entries that are new
\* are its own and hold that answer.
LEMMA EndsInv ==
  ASSUME Inv, NEW q \in Query, OnlyOf(q), TypeOK', pc[q] # "none",
         pc'[q] \in {"answered", "raised"}, UNCHANGED draws,
         answer'[q] # Null =>
             \A v \in answer'[q].draws : v.doc \in Readable[request[q].scope],
         \/ cache' = cache
         \/ \E new : /\ new = NewEntry(q) /\ cache' = Put(cache, new)
                     /\ MadeBy(new, q)'
  PROVE  Inv'
<1> USE DEF Inv, OnlyOf, worldVars
<1>1. Unrouted'  BY DEF Unrouted
<1>2. EvidenceInScope'  BY DEF EvidenceInScope
<1>3. DrawsInScope'  BY DEF DrawsInScope, Put, NewEntry
<1>4. \A e \in cache : (\E p \in Query : MadeBy(e, p)) => \E p \in Query : MadeBy(e, p)'
  BY DEF MadeBy
<1>5. EntriesAccountedFor'
  <2>1. CASE cache' = cache  BY <1>4, <2>1 DEF EntriesAccountedFor
  <2>2. CASE \E new : /\ new = NewEntry(q) /\ cache' = Put(cache, new)
                      /\ MadeBy(new, q)'
    <3>1. PICK new : /\ new = NewEntry(q) /\ cache' = Put(cache, new)
                     /\ MadeBy(new, q)'
      BY <2>2
    <3>2. new.refs = {}  BY <3>1 DEF NewEntry
    <3>3. cache' = cache \cup {new}  BY <3>1 DEF Put
    <3> QED  BY <1>4, <3>1, <3>2, <3>3 DEF EntriesAccountedFor
  <2> QED  BY <2>1, <2>2
<1> QED  BY <1>1, <1>2, <1>3, <1>5
-----------------------------------------------------------------------------
(* The steps of a query.                                                   *)

LEMMA AskedInv ==
  ASSUME Inv, NEW q \in Query, Asked(q)
  PROVE  Inv'
<1>1. TypeOK'  BY QueryGraphAssumption DEF Inv, Asked, TypeOK, worldVars
<1>2. OnlyOf(q)  BY DEF Inv, Asked, OnlyOf, TypeOK
<1>3. pc'[q] = "embedding" /\ draws'[q] = {}
  BY DEF Inv, Asked, TypeOK, Unrouted
<1> QED  BY <1>1, <1>2, <1>3, GoesOnInv DEF Asked

LEMMA ReturnTyped ==
  ASSUME TypeOK, NEW q \in Query, request[q] # Null, NEW a \in Answer, Return(q, a),
         route' \in [Query -> Route \cup {Null}],
         \A p \in Query \ {q} : route'[p] = route[p],
         UNCHANGED <<request, draws, worldVars>>, cache' \subseteq Entry
  PROVE  TypeOK'
<1>1. a # Null  BY QueryGraphAssumption
<1>2. answer' \in [Query -> Answer \cup {Null}] /\ answer'[q] = a
  BY DEF TypeOK, Return
<1>3. /\ pc' \in [Query -> {"none", "embedding", "routing", "acting", "read",
                           "answered", "raised"}]
      /\ ended' \in [Query -> Nat]
  BY DEF TypeOK, Return, worldVars
<1>4. \A p \in Query : /\ p # q => pc'[p] = pc[p] /\ answer'[p] = answer[p]
                       /\ p = q => pc'[p] = "answered"
  BY DEF TypeOK, Return
<1> QED  BY <1>1, <1>2, <1>3, <1>4 DEF TypeOK, worldVars

LEMMA HitInv ==
  ASSUME Inv, NEW q \in Query, Hit(q)
  PROVE  Inv'
<1>1. PICK e \in Hits(q) :
          Return(q, [status |-> "grounded", draws |-> e.draws, refs |-> e.refs,
                     cached |-> TRUE])
  BY DEF Hit
<1>2. e \in cache /\ e.scope = request[q].scope  BY HitFits
<1>3. e.draws \in SUBSET DocVersion /\ e.refs \in SUBSET DocVersion
  BY <1>2 DEF Inv, TypeOK, Entry
<1>4. TypeOK'
  <2>1. [status |-> "grounded", draws |-> e.draws, refs |-> e.refs,
         cached |-> TRUE] \in Answer
    BY <1>3 DEF Answer
  <2>2. TypeOK /\ request[q] # Null  BY DEF Inv, Hit, TypeOK
  <2>3. route' \in [Query -> Route \cup {Null}] /\ cache' \subseteq Entry
    BY DEF Inv, Hit, TypeOK
  <2> QED  BY <1>1, <2>1, <2>2, <2>3, ReturnTyped DEF Hit
<1>5. OnlyOf(q)  BY <1>1 DEF Inv, Hit, Return, OnlyOf, TypeOK
<1>6. /\ pc'[q] = "answered"
      /\ answer'[q].draws = e.draws
  BY <1>1 DEF Inv, Return, TypeOK
<1>7. \A v \in e.draws : v.doc \in Readable[request[q].scope]
  BY <1>2 DEF Inv, DrawsInScope
<1> QED  BY <1>4, <1>5, <1>6, <1>7, EndsInv DEF Hit

LEMMA FreshTyped ==
  ASSUME TypeOK, NEW q \in Query, NEW status \in {"grounded", "partial", "refused"}
  PROVE  Fresh(q, status) \in Answer
  BY DEF Fresh, Answer, TypeOK

LEMMA FollowInv ==
  ASSUME Inv, NEW q \in Query, NEW rt \in Route, Follow(q, rt),
         pc[q] \in {"embedding", "routing"}
  PROVE  Inv'
<1>1. rt # Null  BY QueryGraphAssumption
<1>2. CASE rt.depth = "multi_hop" \/ Available(rt.tool)
  <2>1. TypeOK'  BY <1>1, <1>2 DEF Inv, Follow, TypeOK, worldVars
  <2>2. OnlyOf(q)  BY <1>2 DEF Inv, Follow, OnlyOf, TypeOK
  <2>3. pc'[q] = "acting" /\ draws'[q] = {}
    BY <1>2 DEF Inv, Follow, TypeOK, Unrouted
  <2> QED  BY <1>2, <2>1, <2>2, <2>3, GoesOnInv DEF Follow
<1>3. CASE ~(rt.depth = "multi_hop" \/ Available(rt.tool))
  <2>1. Fresh(q, "refused") \in Answer  BY FreshTyped DEF Inv
  <2>2. TypeOK'
    <3>1. TypeOK /\ request[q] # Null  BY DEF Inv, TypeOK
    <3>2. /\ route' \in [Query -> Route \cup {Null}]
          /\ \A p \in Query \ {q} : route'[p] = route[p]
          /\ cache' \subseteq Entry
      BY DEF Inv, Follow, TypeOK
    <3> QED  BY <1>3, <2>1, <3>1, <3>2, ReturnTyped DEF Follow
  <2>3. OnlyOf(q)  BY <1>3 DEF Inv, Follow, Return, OnlyOf, TypeOK
  <2>4. pc'[q] = "answered" /\ answer'[q].draws = {}
    BY <1>3 DEF Inv, Follow, Return, Fresh, TypeOK, Unrouted
  <2> QED  BY <1>3, <2>2, <2>3, <2>4, EndsInv DEF Follow
<1> QED  BY <1>2, <1>3

LEMMA RouteTyped ==
  ASSUME NEW rt \in Route, NEW keep \in BOOLEAN, NEW depth \in Depth
  PROVE  Escalated(rt, keep, depth) \in Route
  BY QueryGraphAssumption DEF Escalated, Normalized, Route, Depth

LEMMA ForcedTyped ==
  ASSUME NEW policy \in Policy
  PROVE  ForcedDecision(policy) \in Route
  BY QueryGraphAssumption DEF ForcedDecision, Policy, Route, Depth

LEMMA RoutingInv ==
  ASSUME Inv, NEW q \in Query, MissForced(q) \/ MissRouted(q) \/ Routed(q)
  PROVE  Inv'
<1>1. CASE MissForced(q)
  <2>1. request[q].policy \in Policy
    BY <1>1, QueryGraphAssumption DEF MissForced, Inv, TypeOK, Request
  <2> QED  BY <1>1, <2>1, ForcedTyped, FollowInv DEF MissForced
<1>2. CASE MissRouted(q)
  <2>1. TypeOK'  BY <1>2 DEF Inv, MissRouted, TypeOK, worldVars
  <2>2. OnlyOf(q)  BY <1>2 DEF Inv, MissRouted, OnlyOf, TypeOK
  <2>3. pc'[q] = "routing" /\ draws'[q] = {}
    BY <1>2 DEF Inv, MissRouted, TypeOK, Unrouted
  <2> QED  BY <1>2, <2>1, <2>2, <2>3, GoesOnInv DEF MissRouted
<1>3. CASE Routed(q)
  <2>1. PICK rt \in Route, keep \in BOOLEAN :
            Follow(q, Escalated(rt, keep, request[q].policy.escalation))
    BY <1>3 DEF Routed
  <2>2. request[q].policy.escalation \in Depth
    BY <1>3, QueryGraphAssumption DEF Routed, Inv, TypeOK, Request, Policy
  <2> QED  BY <1>3, <2>1, <2>2, RouteTyped, FollowInv DEF Routed
<1> QED  BY <1>1, <1>2, <1>3

LEMMA ActingInv ==
  ASSUME Inv, NEW q \in Query, ReadOnce(q) \/ ReadMore(q) \/ AwaitRaises(q)
  PROVE  Inv'
<1>1. request[q] # Null /\ request[q] \in Request /\ request[q].scope \in Scope
  BY QueryGraphAssumption
  DEF Inv, TypeOK, ReadOnce, ReadMore, AwaitRaises, MayRaise, Request
<1>2. /\ Visible(q) \subseteq DocVersion
      /\ \A v \in Visible(q) : v.doc \in Readable[request[q].scope]
  BY <1>1, QueryGraphAssumption DEF Visible, DocVersion, Inv, TypeOK
<1>3. CASE ReadOnce(q)
  <2>1. TypeOK'  BY <1>2, <1>3 DEF Inv, ReadOnce, TypeOK, worldVars
  <2>2. OnlyOf(q)  BY <1>3 DEF Inv, ReadOnce, OnlyOf, TypeOK
  <2>3. pc'[q] = "read" /\ draws'[q] \subseteq Visible(q)
    BY <1>3 DEF Inv, ReadOnce, TypeOK
  <2> QED  BY <1>2, <1>3, <2>1, <2>2, <2>3, GoesOnInv DEF ReadOnce
<1>4. CASE ReadMore(q)
  <2>1. TypeOK'  BY <1>2, <1>4 DEF Inv, ReadMore, TypeOK, worldVars
  <2>2. OnlyOf(q)  BY <1>4 DEF Inv, ReadMore, OnlyOf, TypeOK
  <2>3. pc'[q] = "acting" /\ draws'[q] \subseteq draws[q] \cup Visible(q)
    BY <1>4 DEF Inv, ReadMore, TypeOK
  <2> QED  BY <1>2, <1>4, <2>1, <2>2, <2>3, GoesOnInv DEF ReadMore, Inv, DrawsInScope
<1>5. CASE AwaitRaises(q)
  <2>1. TypeOK'  BY <1>5 DEF Inv, AwaitRaises, Raise, MayRaise, TypeOK, worldVars
  <2>2. OnlyOf(q)  BY <1>5 DEF Inv, AwaitRaises, Raise, MayRaise, OnlyOf, TypeOK
  <2>3. pc'[q] = "raised"  BY <1>5 DEF Inv, AwaitRaises, Raise, TypeOK
  <2> QED  BY <1>5, <2>1, <2>2, <2>3, GoesOnInv DEF AwaitRaises, Inv, DrawsInScope
<1> QED  BY <1>3, <1>4, <1>5

LEMMA DeliverInv ==
  ASSUME Inv, NEW q \in Query, NEW status \in {"grounded", "partial", "refused"},
         Deliver(q, status), pc[q] \in {"acting", "read"},
         UNCHANGED <<request, route, draws, worldVars>>
  PROVE  Inv'
<1>1. Fresh(q, status) \in Answer  BY FreshTyped DEF Inv
<1>2. NewEntry(q) \in Entry  BY NewEntryTyped DEF Inv
<1>3. cache' \subseteq Entry
  BY <1>2 DEF Inv, TypeOK, Deliver, Store, Put
<1>4. TypeOK /\ request[q] # Null  BY DEF Inv, TypeOK
<1>5. TypeOK'
  BY <1>1, <1>3, <1>4, ReturnTyped DEF Deliver, TypeOK
<1>6. OnlyOf(q)  BY DEF Inv, Deliver, Return, OnlyOf, TypeOK
<1>7. /\ pc'[q] = "answered" /\ ended'[q] = now
      /\ answer'[q] = Fresh(q, status)
  BY DEF Inv, Deliver, Return, TypeOK
<1>8. \A v \in answer'[q].draws : v.doc \in Readable[request[q].scope]
  BY <1>7 DEF Fresh, Inv, DrawsInScope
<1>9. \/ cache' = cache
      \/ \E new : /\ new = NewEntry(q) /\ cache' = Put(cache, new)
                  /\ MadeBy(new, q)'
  <2>1. CASE status = "refused"  BY <2>1 DEF Deliver, Store
  <2>2. CASE status # "refused"
    <3>1. PICK new : new = NewEntry(q)  OBVIOUS
    <3>2. new.expires = now + Ttl /\ now + Ttl \in Nat
      BY <3>1, QueryGraphAssumption DEF NewEntry, Inv, TypeOK
    <3>3. MadeBy(new, q)'
      BY <1>7, <2>2, <3>1, <3>2 DEF MadeBy, NewEntry, Fresh
    <3> QED  BY <3>1, <3>3 DEF Deliver, Store
  <2> QED  BY <2>1, <2>2
<1> QED  BY <1>5, <1>6, <1>7, <1>8, <1>9, EndsInv

LEMMA LoseInv ==
  ASSUME Inv, NEW q \in Query, NEW status \in {"grounded", "partial", "refused"},
         Lose(q, status), pc[q] \in {"acting", "read"},
         UNCHANGED <<request, route, draws, worldVars>>
  PROVE  Inv'
<1>1. Fresh(q, status) \in Answer  BY FreshTyped DEF Inv
<1>2. TypeOK'  BY <1>1 DEF Inv, Lose, Raise, TypeOK, worldVars
<1>3. OnlyOf(q)  BY DEF Inv, Lose, Raise, OnlyOf, TypeOK
<1>4. pc'[q] = "raised" /\ answer'[q].draws = draws[q]
  BY DEF Inv, Lose, Raise, Fresh, TypeOK
<1> QED  BY <1>2, <1>3, <1>4, EndsInv DEF Lose, Inv, DrawsInScope

LEMMA EndingInv ==
  ASSUME Inv, NEW q \in Query,
         ToolFails(q) \/ ToolSucceeds(q) \/ AgentReturns(q) \/ AgentAnswerChecked(q)
  PROVE  Inv'
<1>1. CASE ToolFails(q)  BY <1>1, DeliverInv DEF ToolFails
<1>2. CASE ToolSucceeds(q)
  <2>1. PICK status \in {"grounded", "partial", "refused"} :
            Deliver(q, status) \/ StoreRaises(q, status)
    BY <1>2 DEF ToolSucceeds, Checked
  <2> QED  BY <1>2, <2>1, DeliverInv, LoseInv DEF ToolSucceeds, StoreRaises
<1>3. CASE AgentReturns(q)
  BY <1>3, DeliverInv, LoseInv DEF AgentReturns, AgentAnswers, StoreRaises
<1>4. CASE AgentAnswerChecked(q)
  BY <1>4, LoseInv DEF AgentAnswerChecked, AgentAnswers
<1> QED  BY <1>1, <1>2, <1>3, <1>4
-----------------------------------------------------------------------------
(* The steps of others.                                                    *)

LEMMA OthersInv ==
  ASSUME Inv, UNCHANGED queryVars,
         (\E d \in Doc : Replace(d)) \/ Tick \/ PutForeign \/ Invalidate
  PROVE  Inv'
<1> USE DEF queryVars
<1>1. Unrouted' /\ EvidenceInScope'
      /\ \A q \in Query : \A v \in draws'[q] : v.doc \in Readable[request'[q].scope]
  BY DEF Inv, Unrouted, EvidenceInScope, DrawsInScope
<1>2. CASE cache' = cache /\ ((\E d \in Doc : Replace(d)) \/ Tick)
  <2>1. TypeOK'  BY <1>2 DEF Inv, TypeOK, Replace, Tick
  <2>2. EntriesAccountedFor'  BY <1>2 DEF Inv, EntriesAccountedFor, MadeBy
  <2> QED  BY <1>1, <1>2, <2>1, <2>2 DEF Inv, DrawsInScope
<1>3. CASE PutForeign
  <2>1. PICK t \in Topic, s \in Scope, m \in Mode, d \in Doc :
            \E v \in 1..active[d] :
               /\ d \in Readable[s]
               /\ cache' = Put(cache, [topic |-> t, scope |-> s, mode |-> m,
                                       draws |-> {[doc |-> d, ver |-> v]},
                                       refs |-> {[doc |-> d, ver |-> v]},
                                       expires |-> now + Ttl])
    BY <1>3 DEF PutForeign
  <2>2. PICK v \in 1..active[d] :
               /\ d \in Readable[s]
               /\ cache' = Put(cache, [topic |-> t, scope |-> s, mode |-> m,
                                       draws |-> {[doc |-> d, ver |-> v]},
                                       refs |-> {[doc |-> d, ver |-> v]},
                                       expires |-> now + Ttl])
    BY <2>1
  <2>3. PICK new : /\ new = [topic |-> t, scope |-> s, mode |-> m,
                             draws |-> {[doc |-> d, ver |-> v]},
                             refs |-> {[doc |-> d, ver |-> v]},
                             expires |-> now + Ttl]
                   /\ cache' = cache \cup {new}
    BY <2>2 DEF Put
  <2>4. now + Ttl \in Nat /\ [doc |-> d, ver |-> v] \in DocVersion
    BY QueryGraphAssumption DEF Inv, TypeOK, DocVersion
  <2>5. new \in Entry  BY <2>3, <2>4 DEF Entry
  <2>6. TypeOK'
    <3>1. cache' \subseteq Entry  BY <2>3, <2>5 DEF Inv, TypeOK
    <3>2. foreign' \in Nat /\ UNCHANGED <<active, now>>
      BY <1>3 DEF PutForeign, Inv, TypeOK
    <3> QED  BY <3>1, <3>2 DEF Inv, TypeOK
  <2>7. DrawsInScope'
    <3>1. new.scope = s /\ \A w \in new.draws : w.doc = d  BY <2>3
    <3>2. \A w \in new.draws : w.doc \in Readable[new.scope]  BY <2>2, <3>1
    <3> QED  BY <1>1, <2>3, <3>2 DEF Inv, DrawsInScope
  <2>8. new.refs # {} /\ new.draws = new.refs  BY <2>3
  <2>9. EntriesAccountedFor'
    BY <2>3, <2>8 DEF Inv, EntriesAccountedFor, MadeBy
  <2> QED  BY <1>1, <2>6, <2>7, <2>9 DEF Inv
<1>4. CASE Invalidate
  <2>1. PICK v : cache' = InvalidateDocument(cache, v, now)
    BY <1>4 DEF Invalidate
  <2>2. \A f \in cache' :
            /\ f \in Entry
            /\ \/ f \in cache
               \/ \E e \in cache : /\ v \in e.refs
                                   /\ f.scope = e.scope /\ f.draws = e.draws
                                   /\ f.refs = e.refs
    BY <2>1, Invalidated DEF Inv
  <2>3. TypeOK'  BY <1>4, <2>2 DEF Invalidate, worldVars, Inv, TypeOK
  <2>4. DrawsInScope'  BY <1>1, <2>2 DEF Inv, DrawsInScope
  <2>5. EntriesAccountedFor'
    BY <2>2 DEF Inv, EntriesAccountedFor, MadeBy
  <2> QED  BY <1>1, <2>3, <2>4, <2>5 DEF Inv
<1> QED  BY <1>2, <1>3, <1>4 DEF Replace, Tick

LEMMA NextInv == Inv /\ [Next]_vars => Inv'
<1> SUFFICES ASSUME Inv, [Next]_vars PROVE Inv'
  OBVIOUS
<1>1. ASSUME NEW q \in Query, Asked(q) \/ Step(q) \/ ReadMore(q)
      PROVE  Inv'
  BY <1>1, AskedInv, HitInv, RoutingInv, ActingInv, EndingInv DEF Step
<1>2. CASE (\E d \in Doc : Replace(d)) \/ Tick \/ PutForeign \/ Invalidate
  BY <1>2, OthersInv DEF Replace, Tick, PutForeign, Invalidate
<1>3. CASE UNCHANGED vars
  BY <1>3 DEF vars, queryVars, worldVars, Inv, TypeOK, Unrouted, EvidenceInScope,
     DrawsInScope, EntriesAccountedFor, MadeBy
<1> QED  BY <1>1, <1>2, <1>3 DEF Next

LEMMA Invariance == Spec => []Inv
  BY InitInv, NextInv, PTL DEF Spec

-----------------------------------------------------------------------------
(* Theorems.                                                               *)

\* Every variable keeps its type; a query that acts has a route, one that was
\* answered an answer.
THEOREM TypeCorrect == Spec => []TypeOK
  BY Invariance, PTL DEF Inv

\* Neither a tool nor the cache, whoever filled it, answers a query out of
\* documents its scope may not read.
THEOREM AnswersInScope == Spec => []EvidenceInScope
  BY Invariance, PTL DEF Inv

\* What is served from the cache was chosen by a hit.
LEMMA ServedByHit ==
  ASSUME Inv, Next, NEW q \in Query, Served(q)
  PROVE  \E e \in Hits(q) : answer'[q].draws = e.draws /\ answer'[q].refs = e.refs
<1>1. ASSUME NEW p \in Query, Hit(p)
      PROVE  \E e \in Hits(q) : answer'[q].draws = e.draws /\ answer'[q].refs = e.refs
  BY <1>1 DEF Hit, Return, Served, Inv, TypeOK
<1>2. ASSUME NEW p \in Query, Asked(p) \/ Step(p) \/ ReadMore(p), ~Hit(p)
      PROVE  FALSE
  <2>1. pc[q] = "embedding" /\ pc'[q] = "answered" /\ answer'[q].cached
    BY DEF Served
  <2>2. pc \in [Query -> {"none", "embedding", "routing", "acting", "read",
                          "answered", "raised"}]
        /\ answer \in [Query -> Answer \cup {Null}]
    BY DEF Inv, TypeOK
  <2>3. CASE Asked(p) \/ MissRouted(p) \/ ReadOnce(p) \/ ReadMore(p) \/ AwaitRaises(p)
    BY <2>1, <2>2, <2>3
    DEF Asked, MissRouted, ReadOnce, ReadMore, AwaitRaises, Raise
  <2>4. ASSUME NEW rt, Follow(p, rt)  PROVE FALSE
    BY <2>1, <2>2, <2>4 DEF Follow, Return, Fresh
  <2>5. CASE \/ ToolFails(p) \/ ToolSucceeds(p) \/ AgentReturns(p)
             \/ AgentAnswerChecked(p)
    BY <2>1, <2>2, <2>5
    DEF ToolFails, ToolSucceeds, AgentReturns, AgentAnswerChecked, AgentAnswers,
        Deliver, StoreRaises, Lose, Raise, Return
  <2> QED
    BY <1>2, <2>3, <2>4, <2>5 DEF Step, MissForced, Routed
<1>3. ASSUME UNCHANGED queryVars  PROVE FALSE
  BY <1>3 DEF queryVars, Served
<1> QED
  BY <1>1, <1>2, <1>3 DEF Next, Step, Replace, Tick, PutForeign, Invalidate

\* An entry that names its references is served only while they are current.
THEOREM ReferencesAreCurrent == Spec => ReferencedHitsCurrent
<1>1. Inv /\ [Next]_vars =>
          [\A q \in Query :
              (Served(q) /\ answer'[q].refs # {}) =>
                  \A v \in answer'[q].draws : active[v.doc] = v.ver]_vars
  <2> SUFFICES ASSUME Inv, Next, NEW q \in Query, Served(q), answer'[q].refs # {}
               PROVE  \A v \in answer'[q].draws : active[v.doc] = v.ver
    OBVIOUS
  <2>1. PICK e \in Hits(q) : answer'[q].draws = e.draws /\ answer'[q].refs = e.refs
    BY ServedByHit
  <2>2. e \in cache /\ \A v \in e.refs : active[v.doc] = v.ver  BY HitFits
  <2> QED  BY <2>1, <2>2 DEF Inv, EntriesAccountedFor
<1> QED  BY <1>1, Invariance, PTL DEF Spec, ReferencedHitsCurrent

\* A hit on an entry of run_query repeats a recent answer to a similar text.
THEOREM HitsRepeatAnswers == Spec => HitRepeatsAnswer
<1>1. Inv /\ [Next]_vars =>
          [\A q \in Query :
              (Served(q) /\ answer'[q].refs = {}) =>
                  \E p \in Query :
                      /\ pc[p] = "answered" /\ ~answer[p].cached
                      /\ answer[p].status # "refused"
                      /\ answer[p].draws = answer'[q].draws
                      /\ request[p].scope = request[q].scope
                      /\ request[p].mode = request[q].mode
                      /\ <<request[p].topic, request[q].topic>> \in Near
                      /\ now < ended[p] + Ttl]_vars
  <2> SUFFICES ASSUME Inv, Next, NEW q \in Query, Served(q), answer'[q].refs = {}
               PROVE  \E p \in Query :
                          /\ pc[p] = "answered" /\ ~answer[p].cached
                          /\ answer[p].status # "refused"
                          /\ answer[p].draws = answer'[q].draws
                          /\ request[p].scope = request[q].scope
                          /\ request[p].mode = request[q].mode
                          /\ <<request[p].topic, request[q].topic>> \in Near
                          /\ now < ended[p] + Ttl
    OBVIOUS
  <2>1. PICK e \in Hits(q) : answer'[q].draws = e.draws /\ answer'[q].refs = e.refs
    BY ServedByHit
  <2>2. /\ e \in cache
        /\ e.scope = request[q].scope /\ e.mode = request[q].mode
        /\ <<e.topic, request[q].topic>> \in Near
        /\ ~(e.expires <= now)
    BY HitFits
  <2>3. PICK p \in Query : MadeBy(e, p)
    BY <2>1, <2>2 DEF Inv, EntriesAccountedFor
  <2>4. now \in Nat /\ e.expires \in Nat /\ ended[p] + Ttl \in Nat
    BY <2>2, QueryGraphAssumption DEF Inv, TypeOK, Entry
  <2>5. now < ended[p] + Ttl  BY <2>2, <2>3, <2>4 DEF MadeBy
  <2> QED  BY <2>1, <2>2, <2>3, <2>5 DEF MadeBy
<1> QED  BY <1>1, Invariance, PTL DEF Spec, HitRepeatsAnswer

\* A query has drawn nothing at parametric depth, or its policy escalated it
\* there.
LEMMA ParametricKept ==
  ASSUME Inv, ParametricNeverRetrieves, [Next]_vars
  PROVE  ParametricNeverRetrieves'
<1> DEFINE Plain(rt, escalation) ==
        (rt.depth = "parametric" /\ rt.tool # Parametric) =>
            rt.escalated /\ escalation = "parametric"
<1>1. /\ route \in [Query -> Route \cup {Null}]
      /\ draws \in [Query -> SUBSET DocVersion]
      /\ request \in [Query -> Requests \cup {Null}]
  BY DEF Inv, TypeOK
<1>2. CASE UNCHANGED <<route, draws, request>>
  BY <1>2 DEF ParametricNeverRetrieves
<1>3. ASSUME NEW q \in Query, NEW rt \in Route, Plain(rt, request[q].policy.escalation),
             Follow(q, rt), pc[q] \in {"embedding", "routing"}
      PROVE  ParametricNeverRetrieves'
  <2>1. UNCHANGED <<draws, request>> /\ draws[q] = {}
    BY <1>3 DEF Follow, Inv, Unrouted
  <2>2. route' = [route EXCEPT ![q] = rt]  BY <1>3 DEF Follow
  <2>3. route'[q] = rt /\ \A p \in Query \ {q} : route'[p] = route[p]
    BY <1>1, <2>2
  <2> QED  BY <1>3, <2>1, <2>3 DEF ParametricNeverRetrieves
<1>4. ASSUME NEW q \in Query, MissForced(q)
      PROVE  ParametricNeverRetrieves'
  <2>1. request[q].policy \in Policy
    BY <1>4, QueryGraphAssumption DEF MissForced, Inv, TypeOK, Request
  <2>2. Plain(ForcedDecision(request[q].policy), request[q].policy.escalation)
    BY DEF ForcedDecision
  <2> QED  BY <1>3, <1>4, <2>1, <2>2, ForcedTyped DEF MissForced
<1>5. ASSUME NEW q \in Query, Routed(q)
      PROVE  ParametricNeverRetrieves'
  <2> DEFINE escalation == request[q].policy.escalation
  <2>1. PICK rt \in Route, keep \in BOOLEAN : Follow(q, Escalated(rt, keep, escalation))
    BY <1>5 DEF Routed
  <2>2. escalation \in Depth
    BY <1>5, QueryGraphAssumption DEF Routed, Inv, TypeOK, Request, Policy
  <2>3. Plain(Escalated(rt, keep, escalation), escalation)
    BY QueryGraphAssumption DEF Escalated, Normalized, Route
  <2>4. Escalated(rt, keep, escalation) \in Route  BY <2>2, RouteTyped
  <2> QED  BY <1>3, <1>5, <2>1, <2>3, <2>4 DEF Routed
<1>6. ASSUME NEW q \in Query, ReadOnce(q) \/ ReadMore(q)
      PROVE  ParametricNeverRetrieves'
  <2>1. route[q].depth # "parametric" \/ route[q].tool # Parametric
    BY <1>6, QueryGraphAssumption DEF ReadOnce, ReadMore, Direct
  <2>2. route[q] # Null  BY <1>6 DEF ReadOnce, ReadMore, Inv, TypeOK
  <2>3. route[q].depth = "parametric" =>
            route[q].escalated /\ request[q].policy.escalation = "parametric"
    BY <2>1, <2>2 DEF ParametricNeverRetrieves
  <2>4. UNCHANGED <<route, request>> /\ \A p \in Query \ {q} : draws'[p] = draws[p]
    BY <1>1, <1>6 DEF ReadOnce, ReadMore
  <2> QED  BY <2>3, <2>4 DEF ParametricNeverRetrieves
<1>7. ASSUME NEW q \in Query, Asked(q)
      PROVE  ParametricNeverRetrieves'
  <2>1. route[q] = Null /\ UNCHANGED <<route, draws>>
    BY <1>7 DEF Asked, Inv, Unrouted
  <2>2. \A p \in Query \ {q} : request'[p] = request[p]
    BY <1>1, <1>7 DEF Asked
  <2> QED  BY <2>1, <2>2 DEF ParametricNeverRetrieves
<1>8. ASSUME NEW q \in Query,
             \/ Hit(q) \/ MissRouted(q) \/ AwaitRaises(q) \/ ToolFails(q)
             \/ ToolSucceeds(q) \/ AgentReturns(q) \/ AgentAnswerChecked(q)
      PROVE  UNCHANGED <<route, draws, request>>
  BY <1>8 DEF Hit, MissRouted, AwaitRaises, ToolFails, ToolSucceeds,
     AgentReturns, AgentAnswerChecked, AgentAnswers
<1>9. ASSUME (\E d \in Doc : Replace(d)) \/ Tick \/ PutForeign \/ Invalidate
             \/ UNCHANGED vars
      PROVE  UNCHANGED <<route, draws, request>>
  BY <1>9 DEF Replace, Tick, PutForeign, Invalidate, vars, queryVars
<1> QED  BY <1>2, <1>4, <1>5, <1>6, <1>7, <1>8, <1>9 DEF Next, Step

\* A query at parametric depth, whoever chose it, never retrieves, but for one
\* its own policy escalates to that depth.
THEOREM ParametricNever == Spec => []ParametricNeverRetrieves
<1>1. Init => ParametricNeverRetrieves
  BY DEF Init, ParametricNeverRetrieves
<1>2. Inv /\ ParametricNeverRetrieves /\ [Next]_vars => ParametricNeverRetrieves'
  BY ParametricKept
<1> QED  BY <1>1, <1>2, Invariance, PTL DEF Spec
=============================================================================
