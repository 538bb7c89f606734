----------------------------- MODULE SearchIndex ----------------------------
(***************************************************************************)
(* retrieval/opensearch.py under the calls the ingestion service makes:    *)
(* OpenSearchIndexWriter with its in-memory maps, a bulk request of which  *)
(* single items may fail, deletion of the version a replacement found in   *)
(* memory, and the stage that searches.  Any number of uploads wait in     *)
(* their embed calls; what process does after that runs without a yield,   *)
(* so one upload at a time is past it.  The database may fail, and the     *)
(* process may be restarted between any two calls to the outside.  Every   *)
(* upload has new content, and the scope of its tenant.                    *)
(***************************************************************************)
EXTENDS Naturals, FiniteSets, FiniteSetsExt

CONSTANTS
    Tenant,
    Scope,         \* [Tenant -> access scope of its documents]
    ChunkCount,    \* chunks of a document
    Client,        \* subset of {"delete_by_query", "delete"}: what a client has
    Limit,         \* what searches ask for
    MaxUploads, MaxRestarts, \* bounds
    Null

ASSUME SearchIndexAssumption ==
    /\ Client \subseteq {"delete_by_query", "delete"}
    /\ ChunkCount \in Nat /\ Limit \subseteq Nat /\ MaxUploads \in Nat /\ MaxRestarts \in Nat
    /\ Null \notin Tenant

\* A document in the service's memory; what _chunk decided and carries across
\* the embed call, with the record it found (seen); an upload past that call,
\* with the database as its transaction sees it; a document of the database,
\* with the version numbers given to it, and the one its chunks were cut with
\* (written), which its row need not have got; an entry of the index.
Remembered == [doc : Nat, version : Nat]

Draft ==
    [tenant : Tenant, doc : Nat, version : Nat, content : Nat,
     seen : Remembered \cup {Null}]

ActiveDocument ==
    [tenant : Tenant, doc : Nat, version : Nat, taken : SUBSET Nat,
     written : Nat, content : Nat]

Upload ==
    [tenant : Tenant, doc : Nat, version : Nat, content : Nat,
     replaced : Nat \cup {Null}, rows : SUBSET ActiveDocument,
     step : {"upsert", "delete", "commit"}]

Entry ==
    [tenant : Tenant, document_id : Nat, version : Nat, content : Nat, chunk : Nat]

\* Python's None is neither a number nor a record.
ASSUME NullIsNoRecord == Null \notin Nat \cup Remembered \cup Upload

VARIABLES
    client,   \* the client the writer was given
    rows,     \* committed: the active documents
    usable,   \* FALSE once the session needs a rollback()
    memory,   \* the service's record of the tenant's document, or Null
    drafts,   \* the uploads in their embed calls
    job,      \* the upload past it, or Null
    index,    \* the entries of the search index
    known,    \* the writer's maps: versions with their tenant, entries written
    nextId,   \* fresh document ids
    uploads, restarts,
    exposed,  \* history: entries there at a restart or a failure
    lost,     \* history: entries a failure or a restart may have cost
    overtaken \* history: documents written by an upload whose tenant's record
              \* another one had changed during the embed call

database == <<rows, usable>>
service == <<memory, drafts, job, nextId, uploads>>
history == <<exposed, lost, overtaken>>
vars == <<client, database, service, index, known, restarts, history>>

Forgotten == [versions |-> {}, documents |-> {}, entries |-> {}]

Init ==
    /\ client \in Client
    /\ rows = {} /\ usable = TRUE
    /\ memory = [t \in Tenant |-> Null] /\ drafts = {} /\ job = Null
    /\ index = {} /\ known = Forgotten
    /\ nextId = 1 /\ uploads = 0 /\ restarts = 0
    /\ exposed = {} /\ lost = {} /\ overtaken = {}

\* What _source writes for the chunks of one document version; content tells
\* the uploads apart, as the hash in the chunk ids does.
Entries(t, doc, version, content) ==
    [tenant : {t}, document_id : {doc}, version : {version}, content : {content},
     chunk : 1..ChunkCount]

EntriesOf(r) == Entries(r.tenant, r.doc, r.written, r.content)

NewEntries == Entries(job.tenant, job.doc, job.version, job.content)

-----------------------------------------------------------------------------
(* The service, as far as it decides what the writer is asked.             *)

Rows(t) == {r \in rows : r.tenant = t}

Suspend(t, doc, version) ==
    /\ drafts' = drafts \cup
          {[tenant |-> t, doc |-> doc, version |-> version, content |-> uploads + 1,
            seen |-> memory[t]]}
    /\ uploads' = uploads + 1

\* process up to the embed call.  Of a tenant not in memory the oldest document
\* is taken, unless the upload has a filename: then find_active finds none.
Start(t) ==
    /\ job = Null /\ usable /\ uploads < MaxUploads
    /\ \/ /\ memory[t] # Null
          /\ Suspend(t, memory[t].doc, memory[t].version + 1)
          /\ UNCHANGED nextId
       \/ /\ memory[t] = Null
          /\ \E r \in Rows(t) : /\ \A o \in Rows(t) : r.doc <= o.doc
                               /\ Suspend(t, r.doc, r.version + 1)
          /\ UNCHANGED nextId
       \/ /\ memory[t] = Null
          /\ Suspend(t, nextId, 1)
          /\ nextId' = nextId + 1
    /\ UNCHANGED <<client, database, memory, job, index, known, restarts, history>>

\* A statement raised, and the session needs a rollback() nobody calls: no upload
\* gets as far as the indexer any more, those in their embed calls included, and
\* no memory record written from now on is used by one that does.
Poisoned == usable' = FALSE /\ drafts' = {}

\* The embedding provider raises, and the job is recorded as failed, or that
\* raises, too; as may any statement of another request.
EmbedRaises(d) ==
    /\ job = Null /\ usable
    /\ \/ drafts' = drafts \ {d} /\ UNCHANGED usable
       \/ Poisoned
    /\ UNCHANGED <<client, rows, memory, job, nextId, uploads, index, known,
                   restarts, history>>

\* The memory part of _persist looks the tenant's document up again.
Remember(d) ==
    LET e == memory[d.tenant]
    IN  memory' = [memory EXCEPT ![d.tenant] =
                       IF e = Null THEN [doc |-> d.doc, version |-> d.version]
                       ELSE [doc |-> e.doc, version |-> e.version + 1]]

Found(d) == {r \in rows : r.doc = d.doc}

\* The database part, in the open transaction: the document gets the row r.
Write(d, r) ==
    LET e == memory[d.tenant]
    IN  /\ job' = [tenant |-> d.tenant, doc |-> r.doc, version |-> d.version,
                   content |-> d.content,
                   replaced |-> IF e = Null THEN Null ELSE e.version,
                   rows |-> {o \in rows : o.doc # r.doc} \cup {r}, step |-> "upsert"]
        /\ overtaken' = overtaken \cup IF e = d.seen THEN {} ELSE {r.doc}

Row(d, doc, version, taken) ==
    [tenant |-> d.tenant, doc |-> doc, version |-> version,
     taken |-> taken \cup {version}, written |-> d.version, content |-> d.content]

\* A document the database does not know gets a new id, and the chunks are cut
\* for that; a number the document had before violates a constraint.
Persist(d) ==
    /\ job = Null /\ usable
    /\ Remember(d)
    /\ \/ /\ Found(d) = {}
          /\ Write(d, Row(d, nextId, 1, {}))
          /\ nextId' = nextId + 1
       \/ /\ \E r \in Found(d) : /\ d.version \notin r.taken
                                /\ Write(d, Row(d, d.doc, d.version, r.taken))
          /\ UNCHANGED nextId
    /\ drafts' = drafts \ {d}
    /\ UNCHANGED <<client, database, index, known, uploads, restarts, exposed, lost>>

\* The memory record is written, then the database raises.
PersistRaises(d) ==
    /\ job = Null /\ usable
    /\ Remember(d)
    /\ Poisoned
    /\ UNCHANGED <<client, rows, job, nextId, uploads, index, known, restarts, history>>

-----------------------------------------------------------------------------
(* The writer.                                                             *)

\* Mutant: the maps are not filled.
LearnedNothing == known

\* The maps upsert_chunks fills before it sends the bulk request.
Learned ==
    [versions |-> known.versions \cup {<<job.doc, job.version>>},
     documents |-> known.documents \cup {job.doc},
     entries |-> known.entries \cup NewEntries]

\* failed: the items the response reports; the service reads no result.
Upsert ==
    /\ job # Null /\ job.step = "upsert"
    /\ known' = Learned
    /\ \E failed \in SUBSET NewEntries :
          /\ index' = index \cup (NewEntries \ failed)
          /\ lost' = lost \cup failed
    /\ job' = [job EXCEPT !.step = IF job.replaced = Null THEN "commit" ELSE "delete"]
    /\ UNCHANGED <<client, database, memory, drafts, nextId, uploads, restarts,
                   exposed, overtaken>>

\* The tenant delete_document_version filters by: "" for a document the writer
\* has not seen since it was made.
KnowsTenant(doc, version) == <<doc, version>> \in known.versions \/ doc \in known.documents

Deleted(doc, version) ==
    IF client = "delete_by_query"
    THEN {e \in index : KnowsTenant(doc, version) /\ e.document_id = doc /\ e.version = version}
    ELSE {e \in known.entries : e.document_id = doc /\ e.version = version}

DeleteReplaced ==
    /\ job # Null /\ job.step = "delete"
    /\ index' = index \ Deleted(job.doc, job.replaced)
    /\ job' = [job EXCEPT !.step = "commit"]
    /\ UNCHANGED <<client, database, memory, drafts, nextId, uploads, known, restarts,
                   history>>

\* What the documents in the database may miss if the upload ends here.
InDoubt == UNION {EntriesOf(r) : r \in {s \in rows : job # Null /\ s.doc = job.doc}}

\* jobs.update and commit: what the upload wrote to the database is committed,
\* or one of them raises and it is gone.
Commit ==
    /\ rows' = job.rows /\ UNCHANGED <<usable, drafts>>

CommitRaises ==
    /\ UNCHANGED rows /\ Poisoned

\* Memory takes the id the row got, and the job is recorded.
Finish ==
    /\ job # Null /\ job.step = "commit"
    /\ memory' = [memory EXCEPT ![job.tenant].doc = job.doc]
    /\ job' = Null
    /\ \/ Commit /\ UNCHANGED <<exposed, lost>>
       \/ CommitRaises /\ exposed' = exposed \cup index /\ lost' = lost \cup InDoubt
    /\ UNCHANGED <<client, nextId, uploads, index, known, restarts, overtaken>>

\* ensure_index, the bulk request or the deletion raises: the job fails, and
\* what it wrote to the database is committed with it all the same.
WriterRaises ==
    /\ job # Null
    /\ \/ /\ job.step = "upsert"
          /\ UNCHANGED <<index, known>>
       \/ /\ job.step = "upsert"
          /\ \E some \in SUBSET NewEntries : index' = index \cup some
          /\ known' = Learned
       \/ /\ job.step = "delete"
          /\ \E some \in SUBSET Deleted(job.doc, job.replaced) : index' = index \ some
          /\ UNCHANGED known
    /\ Commit \/ CommitRaises
    /\ job' = Null
    /\ exposed' = exposed \cup index'
    /\ lost' = lost \cup InDoubt \cup IF job.step = "upsert" THEN NewEntries ELSE {}
    /\ UNCHANGED <<client, memory, nextId, uploads, restarts, overtaken>>

\* The process ends at any point and starts anew.
Restart ==
    /\ restarts < MaxRestarts
    /\ restarts' = restarts + 1
    /\ memory' = [t \in Tenant |-> Null] /\ drafts' = {} /\ job' = Null
    /\ known' = Forgotten /\ usable' = TRUE
    /\ exposed' = exposed \cup index /\ lost' = lost \cup InDoubt
    /\ UNCHANGED <<client, rows, nextId, uploads, index, overtaken>>

Next ==
    \/ \E t \in Tenant : Start(t)
    \/ \E d \in drafts : EmbedRaises(d)
    \/ \E d \in drafts : Persist(d)
    \/ \E d \in drafts : PersistRaises(d)
    \/ Upsert \/ DeleteReplaced \/ Finish \/ WriterRaises \/ Restart

Spec == Init /\ [][Next]_vars

-----------------------------------------------------------------------------
(* OpenSearchStage.search, and the filter of hybrid.py on its hits.        *)

\* Mutant: the tenant is left to the filter of the retriever.
MatchesAnyTenant(q) ==
    {e \in index : /\ q.acl \subseteq Scope[e.tenant]
                   /\ q.documents \in {Null, {}} \/ e.document_id \in q.documents}

\* The filters of the query: every principal of the caller is a term, and an
\* empty list of documents is none.
Matches(q) ==
    {e \in index : /\ e.tenant = q.tenant
                   /\ q.acl \subseteq Scope[e.tenant]
                   /\ q.documents \in {Null, {}} \/ e.document_id \in q.documents}

\* The hits of one search: the best limit of them, in whatever order they score.
Hits(q, limit) ==
    LET found == Matches(q)
    IN  kSubset(Min({limit, Cardinality(found)}), found)

\* _allowed: the caller holds every principal of the chunk.
Usable(q, hits) ==
    {e \in hits : /\ e.tenant = q.tenant /\ Scope[e.tenant] \subseteq q.acl
                  /\ q.documents = Null \/ e.document_id \in q.documents}

-----------------------------------------------------------------------------

(***************************************************************************)
(* Whenever a search can run, the index holds the chunks of the active     *)
(* documents and nothing else, but for entries that were there when the    *)
(* process was started anew or the writer or a commit failed, and for the  *)
(* documents of uploads that another one overtook: what to delete comes    *)
(* from memory, looked up anew after the embed call, and the tenant of the *)
(* deletion from the writer's maps.                                        *)
(***************************************************************************)
LeftoversExposed ==
    job = Null =>
        \A e \in index \ exposed :
            e.document_id \in overtaken \/ \E r \in rows : e \in EntriesOf(r)

(***************************************************************************)
(* A caller with exactly the scope of a document that no overtaken upload  *)
(* wrote finds every chunk of it that no failure cost, or else as many     *)
(* chunks as were asked for, none of which the filter of the retriever     *)
(* takes away again.                                                       *)
(***************************************************************************)
ActiveFound ==
    job = Null =>
        \A r \in {s \in rows : s.doc \notin overtaken} : \A documents \in {Null, {r.doc}} :
            LET q == [tenant |-> r.tenant, acl |-> Scope[r.tenant], documents |-> documents]
            IN  \A limit \in Limit : \A hits \in Hits(q, limit) :
                    \/ EntriesOf(r) \ lost \subseteq Usable(q, hits)
                    \/ Cardinality(Usable(q, hits)) = limit
=============================================================================
