--------------------------- MODULE HybridRetrieval ---------------------------
(***************************************************************************)
(* One retrieval, from the request to the response: the cached BM25 index, *)
(* the dense stage with its embedding providers, reciprocal rank fusion,   *)
(* the reranker, the token budget, and its two callers, POST /v1/queries   *)
(* (api/main.py) and the vector tool, while ingestions replace documents.  *)
(* The event loop runs others only where the code awaits a provider; the   *)
(* steps of the model are the blocks between.  A version of a document has *)
(* one chunk, and one tenant's index is modelled.                          *)
(***************************************************************************)
EXTENDS Naturals, Sequences, FiniteSetsExt

CONSTANTS
    Doc,        \* documents, numbers; their order is that of the chunk ids
    Tenant,
    Owner,      \* [Doc -> Tenant]
    Principal,
    Acl,        \* [Doc -> principals a reader must have]
    Size,       \* [Doc -> tokens of its chunk]
    Request,    \* what is asked: see RequestShape
    Ranking,    \* orders of relevance: injections of Row into Nat, 0 best
    Reranker,   \* subset of {"none", "nim", "function", "fallback"}
    RrfK,       \* rrf_k
    Unit,       \* what a score of 1 counts: see Contribution
    Budget,     \* context_token_budget
    StageLimit, \* stage_limit; 0: None
    Changing,   \* bound: documents replaced while the retrieval runs
    MaxVersion, \* bound: versions of a document
    Null

RequestShape(r) ==
    /\ r.caller \in {"api", "tool"}
    /\ r.tenant \in Tenant
    /\ r.acl \subseteq Principal
    /\ r.limit \in Nat \ {0}
    /\ r.documents = Null \/ r.documents \subseteq Doc
    /\ r.generate \in BOOLEAN

\* A row of the table of chunks.
Row == [doc : Doc, version : 1..MaxVersion]

ASSUME HybridAssumption ==
    /\ Doc \subseteq Nat /\ IsFiniteSet(Doc)
    /\ Owner \in [Doc -> Tenant] /\ Size \in [Doc -> Nat]
    /\ Acl \in [Doc -> SUBSET Principal]
    /\ Ranking \subseteq [Row -> Nat]
    /\ \A r \in Request : RequestShape(r)
    /\ Reranker \subseteq {"none", "nim", "function", "fallback"}
    /\ RrfK \in Nat \ {0} /\ Budget \in Nat \ {0}
    /\ Unit \in Nat
    /\ \A r \in Request : \A rank \in 1..(IF StageLimit # 0 THEN StageLimit ELSE r.limit) :
           Unit % (RrfK + rank) = 0
    /\ Changing \subseteq Doc
    /\ StageLimit \in Nat /\ MaxVersion \in Nat \ {0}

VARIABLES
    corpus,   \* rows of the table of chunks
    cached,   \* the rows the tenant's BM25 index was built from; Null: none
    pending,  \* documents replaced whose done callback has not run
    relevance,\* [bm25, dense]: the order each stage gives the rows
    setup,    \* the wiring: number of providers, kind of reranker
    request,
    pc,       \* the await the retrieval is at
    provider, \* which of the providers in line is called
    bm25Hits, \* its order is that of relevance.bm25
    ranked,   \* candidates
    next,     \* local: index of the candidate looked at
    selected,
    tokens,
    response,
    lag,      \* history: documents replaced that the retrieval may not know of
    read      \* history: the rows there were when the dense stage searched

stores == <<corpus, cached, pending, lag, read>>
inputs == <<relevance, setup, request>>
locals == <<bm25Hits, ranked, next, selected, tokens>>
vars == <<stores, inputs, pc, provider, locals, response>>

Responses == {"pending", "answered", "unanswered", "nothing", "plain", "raised",
              "tool_success", "tool_error"}

TypeOK ==
    /\ corpus \subseteq Row /\ read \subseteq Row
    /\ cached = Null \/ cached \subseteq Row
    /\ pending \subseteq Doc /\ lag \subseteq Doc
    /\ pc \in {"start", "embed", "rerank", "select", "generate", "done"}
    /\ provider \in 1..setup.providers
    /\ bm25Hits \subseteq Row /\ ranked \in Seq(Row) /\ selected \in Seq(Row)
    /\ next \in 1..Len(ranked) + 1 /\ tokens \in Nat
    /\ response \in Responses
    /\ response = "pending" <=> pc # "done"

\* The rows a query by tenant_id sees.
OwnRows(rows) == {r \in rows : Owner[r.doc] = request.tenant}

Init ==
    /\ request \in Request
    /\ corpus = {[doc |-> d, version |-> 1] : d \in Doc}
    /\ cached \in {Null, OwnRows(corpus)}
    /\ pending = {} /\ lag = {} /\ read = {}
    /\ relevance \in [bm25 : Ranking, dense : Ranking]
    /\ setup \in [providers : {1, 2}, reranker : Reranker]
    /\ pc = "start" /\ provider = 1
    /\ bm25Hits = {} /\ ranked = <<>> /\ selected = <<>>
    /\ next = 1 /\ tokens = 0
    /\ response = "pending"

-----------------------------------------------------------------------------
(* Orders and cuts.                                                        *)

\* The elements of S that the relation puts before x.
Preceding(S, relation, x) == {y \in S : <<y, x>> \in relation}

\* The finite set S as a sequence, when the relation is a total order on it.
InOrder(S, relation) ==
    [i \in 1..Cardinality(S) |->
        CHOOSE x \in S : Cardinality(Preceding(S, relation, x)) = i - 1]

Least(a, b) == IF a < b THEN a ELSE b

Cut(seq, limit) == SubSeq(seq, 1, Least(Len(seq), limit))

\* The rank of r in a stage's list of rows, from 0.
Rank(rows, r, stage) ==
    Cardinality({s \in rows : relevance[stage][s] < relevance[stage][r]})

\* The first n of them.
First(n, rows, stage) == {r \in rows : Rank(rows, r, stage) < n}

StageSize == IF StageLimit # 0 THEN StageLimit ELSE request.limit

Readable(r) == Acl[r.doc] \subseteq request.acl

\* An empty list of documents is no restriction to the SQL, and one to _allowed.
SqlDocuments(r) == request.documents \in {Null, {}} \/ r.doc \in request.documents

Allowed(r) ==
    /\ Owner[r.doc] = request.tenant
    /\ Readable(r)
    /\ request.documents # Null => r.doc \in request.documents

-----------------------------------------------------------------------------
(* The end of a retrieval.                                                 *)

\* Mutant: the result is not set.
FinishSilently(result) == pc' = "done" /\ UNCHANGED response

Finish(result) == pc' = "done" /\ response' = result

\* retrieve raises: the handler lets it out, the vector tool reports it.
Raised == Finish(IF request.caller = "tool" THEN "tool_error" ELSE "raised")

\* Mutant: after the last provider it is the first one's turn again.
RoundRobin(whenLast) ==
    provider' = (provider % setup.providers) + 1 /\ UNCHANGED <<pc, response>>

\* The next provider in line, or the exception of the last.
FallBack(whenLast) ==
    IF provider < setup.providers
    THEN provider' = provider + 1 /\ UNCHANGED <<pc, response>>
    ELSE whenLast /\ UNCHANGED provider

-----------------------------------------------------------------------------
(* Stages.                                                                 *)

\* Everything up to the embedding call: the BM25 stage does not wait, its
\* index is made if there is none.  The tenant's scores are cut, then filtered.
BM25Search ==
    /\ pc = "start"
    /\ LET index == IF cached = Null THEN OwnRows(corpus) ELSE cached
       IN  /\ bm25Hits' = First(StageSize, index, "bm25")
           /\ cached' = IF index = {} THEN Null ELSE index
    /\ lag' = pending
    /\ pc' = "embed"
    /\ UNCHANGED <<corpus, pending, read, inputs, provider, ranked, next, selected,
                   tokens, response>>

\* Its query raises.
BM25Raises ==
    /\ pc = "start"
    /\ cached = Null
    /\ Raised
    /\ UNCHANGED <<stores, inputs, provider, locals>>

\* Mutant: no more rows fetched than will be returned.
FetchExact(rows) == First(StageSize, rows, "dense")

\* LIMIT 3 * limit, before the access control list is looked at.
Fetch(rows) == First(3 * StageSize, rows, "dense")

DenseHits ==
    LET fetched == Fetch({r \in OwnRows(corpus) : SqlDocuments(r)})
    IN  First(StageSize, {r \in fetched : Readable(r)}, "dense")

\* 1 / (rrf_k + rank) in units that make every such fraction a whole number:
\* sums compare as the fractions do, ties are ties in floating point too.
Contribution(hits, r, stage) ==
    IF r \in hits THEN Unit \div (RrfK + 1 + Rank(hits, r, stage)) ELSE 0

Score(denseHits, r) ==
    Contribution(bm25Hits, r, "bm25") + Contribution(denseHits, r, "dense")

\* The higher score first, then the smaller chunk id.
Precedes(score, a, b) ==
    \/ score[a] > score[b]
    \/ score[a] = score[b] /\ a.doc < b.doc
    \/ score[a] = score[b] /\ a.doc = b.doc /\ a.version < b.version

Candidates(denseHits) == {r \in bm25Hits \cup denseHits : Allowed(r)}

Fused(denseHits) ==
    LET candidates == Candidates(denseHits)
        score == [r \in candidates |-> Score(denseHits, r)]
    IN  InOrder(candidates,
                {p \in candidates \X candidates : Precedes(score, p[1], p[2])})

\* The vector has come: search, fuse, filter and order, in one go.
DenseSearch ==
    /\ pc = "embed"
    /\ ranked' = Fused(DenseHits)
    /\ pc' = IF setup.reranker # "none" /\ ranked' # <<>> THEN "rerank" ELSE "select"
    /\ provider' = 1
    /\ read' = corpus
    /\ UNCHANGED <<corpus, cached, pending, lag, inputs, bm25Hits, next, selected,
                   tokens, response>>

\* The provider raises, or gives no or too few vectors.
EmbedFails ==
    /\ pc = "embed"
    /\ FallBack(Raised)
    /\ UNCHANGED <<stores, inputs, locals>>

\* A vector of the wrong dimension is taken from the first provider, and only
\* refused by the stage; the query itself may raise as well.
DenseRaises ==
    /\ pc = "embed"
    /\ Raised
    /\ UNCHANGED <<stores, inputs, provider, locals>>

-----------------------------------------------------------------------------
(* Reranking.                                                              *)

\* Scores may put the candidates in any order.
Orders == {[i \in DOMAIN ranked |-> ranked[p[i]]] :
               p \in Bijection(DOMAIN ranked, DOMAIN ranked)}

Rerank ==
    /\ pc = "rerank"
    /\ \E order \in Orders : ranked' = Cut(order, request.limit)
    /\ pc' = "select"
    /\ UNCHANGED <<stores, inputs, provider, bm25Hits, next, selected, tokens, response>>

\* The NIM reranker catches its own failures and keeps the order.
RerankKeepsOrder ==
    /\ pc = "rerank"
    /\ setup.reranker \in {"nim", "fallback"}
    /\ ranked' = Cut(ranked, request.limit)
    /\ pc' = "select"
    /\ UNCHANGED <<stores, inputs, provider, bm25Hits, next, selected, tokens, response>>

\* A scoring function that raises; behind a FallbackReranker, both do.
RerankRaises ==
    /\ pc = "rerank"
    /\ setup.reranker \in {"function", "fallback"}
    /\ Raised
    /\ UNCHANGED <<stores, inputs, provider, locals>>

-----------------------------------------------------------------------------
(* The token budget: one step for each candidate.                          *)

Full == selected # <<>> /\ Len(selected) >= request.limit

SelectionEnds == Full \/ next > Len(ranked)

Count == Size[ranked[next].doc]

\* Mutant: the loop stops at the first chunk that does not fit.
StopAtFirst ==
    /\ pc = "select" /\ ~SelectionEnds
    /\ selected # <<>> /\ tokens + Count > Budget
    /\ next' = Len(ranked) + 1
    /\ UNCHANGED <<stores, inputs, pc, provider, bm25Hits, ranked, selected, tokens, response>>

\* A later chunk may still fit.
Skip ==
    /\ pc = "select" /\ ~SelectionEnds
    /\ selected # <<>> /\ tokens + Count > Budget
    /\ next' = next + 1
    /\ UNCHANGED <<stores, inputs, pc, provider, bm25Hits, ranked, selected, tokens, response>>

\* The first is cut to the budget if need be.
Take ==
    /\ pc = "select" /\ ~SelectionEnds
    /\ selected = <<>> \/ tokens + Count <= Budget
    /\ selected' = Append(selected, ranked[next])
    /\ tokens' = tokens + Least(Count, Budget)
    /\ next' = next + 1
    /\ UNCHANGED <<stores, inputs, pc, provider, bm25Hits, ranked, response>>

-----------------------------------------------------------------------------
(* The callers.                                                            *)

\* retrieve returns.
Respond ==
    /\ pc = "select" /\ SelectionEnds
    /\ IF request.caller = "api" /\ request.generate /\ selected # <<>>
       THEN pc' = "generate" /\ UNCHANGED response
       ELSE Finish(IF request.caller = "tool" THEN "tool_success"
                   ELSE IF request.generate THEN "nothing" ELSE "plain")
    /\ UNCHANGED <<stores, inputs, provider, locals>>

Generate ==
    /\ pc = "generate"
    /\ Finish("answered")
    /\ UNCHANGED <<stores, inputs, provider, locals>>

\* The passages are returned with an apology for an answer.
GenerateFails ==
    /\ pc = "generate"
    /\ FallBack(Finish("unanswered"))
    /\ UNCHANGED <<stores, inputs, locals>>

-----------------------------------------------------------------------------
(* Ingestion, as the API wires it.                                         *)

\* process commits a replacement.  It has deleted the chunks that carry the row's
\* number, and written one that carries the draft's, a number not in the table;
\* old may be no chunk's number, and the old content then stays: Ingestion tells
\* when (its ReplacedChunksRemoved fails).
Replace(d) ==
    \E old, draft \in 1..MaxVersion :
        LET kept == corpus \ {[doc |-> d, version |-> old]}
            new  == [doc |-> d, version |-> draft]
        IN  /\ new \notin kept
            /\ corpus' = kept \cup {new}
            /\ pending' = pending \cup {d}
            /\ lag' = lag \cup {d}
            /\ UNCHANGED <<cached, read, inputs, pc, provider, locals, response>>

\* Mutant: the callback of an ingestion leaves the index.
KeepIndex(d) == UNCHANGED cached

DropIndex(d) == cached' = IF Owner[d] = request.tenant THEN Null ELSE cached

\* The done callback: BM25Stage.invalidate of the tenant.
Callback(d) ==
    /\ d \in pending
    /\ pending' = pending \ {d}
    /\ DropIndex(d)
    /\ UNCHANGED <<corpus, lag, read, inputs, pc, provider, locals, response>>

-----------------------------------------------------------------------------
Step ==
    \/ BM25Search \/ BM25Raises \/ EmbedFails \/ DenseRaises \/ DenseSearch
    \/ RerankRaises \/ RerankKeepsOrder \/ Rerank
    \/ Skip \/ Take \/ Respond \/ Generate \/ GenerateFails

Next == Step \/ \E d \in Changing : Replace(d) \/ Callback(d)

Spec == Init /\ [][Next]_vars

\* Providers answer or raise: their clients have timeouts.  Nothing is assumed
\* of ingestion.
FairSpec == Spec /\ WF_vars(Step)

-----------------------------------------------------------------------------
(* Properties.                                                             *)

\* ranked is the fusion of the two stages.
JustFused ==
    \/ pc = "rerank"
    \/ pc = "select" /\ (setup.reranker = "none" \/ ranked = <<>>)

\* A chunk the reader may see and the table held is missing from the candidates
\* only for a reason of the ranking: as many readable chunks before it as the
\* stage returns, or so many hidden ones that the threefold fetch of
\* neondb_dense.py did not reach it.  (hybrid.py filters after the cut.)
MissedOnlyInACrowd ==
    JustFused =>
        \A r \in read :
            LET before == {s \in OwnRows(read) :
                              SqlDocuments(s) /\ relevance.dense[s] < relevance.dense[r]}
                readable == {s \in before : Readable(s)}
            IN  Allowed(r) /\ r \notin Range(ranked) =>
                    \/ Cardinality(readable) >= StageSize
                    \/ Cardinality(before \ readable) > 2 * StageSize

\* The budget holds, and it is used: what was ranked and not selected would
\* not fit, unless the limit was reached; something is selected if anything
\* was ranked.  (hybrid.py 74-99 skips a chunk and goes on.)
BudgetHeldAndUsed ==
    /\ tokens <= Budget
    /\ pc \in {"generate", "done"} /\ response \notin {"raised", "tool_error"} =>
          /\ ranked # <<>> => selected # <<>>
          /\ \A i \in DOMAIN ranked :
                \/ ranked[i] \in Range(selected)
                \/ Len(selected) = request.limit
                \/ tokens + Size[ranked[i].doc] > Budget

\* What is returned is in the table, unless an ingestion replaced its document
\* while the retrieval was under way or shortly before, its callback still to
\* run: the two stages read at different times, one of them from a cache.  It is
\* not always current: the table keeps chunks of old content that Replace missed,
\* and both stages return those.
StoredUnlessReplaced ==
    \A r \in Range(selected) : r \in corpus \/ r.doc \in lag

\* Whatever fails, the caller gets a response.
RequestEnds == <>(pc = "done")
=============================================================================
