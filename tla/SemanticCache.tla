--------------------------- MODULE SemanticCache ----------------------------
(***************************************************************************)
(* The semantic cache of src/adaptive/cache over its PostgreSQL store: the *)
(* rows of semantic_cache_entries as a set, and what look-up, put and      *)
(* invalidation make of it.  None of the three gives up the event loop, so *)
(* each is one operator; when they are called is the business of           *)
(* QueryGraph.  Time is counted in ticks.                                  *)
(***************************************************************************)
EXTENDS Naturals

CONSTANTS
    Topic, \* query texts, as their embeddings
    Near,  \* pairs of topics whose cosine similarity reaches the threshold
    Scope, \* tenant and access control list of a request context
    Mode,  \* model profile and response mode
    Doc    \* documents the tenants have

DocVersion == [doc : Doc, ver : Nat]

\* `draws` is what the answer text was made from; `refs` is the column
\* referenced_document_versions, which may or may not say so.
Entry == [topic : Topic, scope : Scope, mode : Mode, draws : SUBSET DocVersion,
          refs : SUBSET DocVersion, expires : Nat]

ASSUME SemanticCacheAssumption ==
    /\ Near \subseteq Topic \X Topic
    /\ \A t \in Topic : <<t, t>> \in Near

\* Mutant: the tenant's entries, whatever their acl.
AnyScope(e, r) == TRUE

SameScope(e, r) == e.scope = r.scope

\* Mutant: an entry is served one tick too long.
ExpiredLate(e, now) == e.expires < now

Expired(e, now) == e.expires <= now

\* Mutant: references are trusted to be invalidated (as cache/redis.py does).
TrustReferences(e, active) == TRUE

\* _references_are_active: each referenced version is its document's active one.
ReferencesActive(e, active) == \A v \in e.refs : active[v.doc] = v.ver

\* The rows lookup keeps as candidates for request r.
Candidates(cache, r, now, active) ==
    {e \in cache : /\ SameScope(e, r)
                   /\ ~Expired(e, now)
                   /\ e.mode = r.mode
                   /\ ReferencesActive(e, active)
                   /\ <<e.topic, r.topic>> \in Near}

\* max by similarity: a row with the very embedding of the request if there is
\* one; rows no two of which are told apart are returned in any order.
Best(candidates, r) ==
    LET exact == {e \in candidates : e.topic = r.topic}
    IN  IF exact # {} THEN exact ELSE candidates

Put(cache, e) == cache \cup {e}

\* invalidate_document: rows that reference the version expire now.
InvalidateDocument(cache, v, now) ==
    {IF v \in e.refs THEN [e EXCEPT !.expires = now] ELSE e : e \in cache}
=============================================================================
