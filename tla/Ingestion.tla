----------------------------- MODULE Ingestion ------------------------------
(***************************************************************************)
(* IngestionService (src/adaptive/ingestion/service.py) as the API wires   *)
(* it: one service and one SQLAlchemy session for the life of the process, *)
(* every upload a task of one event loop.  A task gives up the loop only   *)
(* while the embedding provider is called, so `process` is two atomic      *)
(* segments, Start (lookup to chunking) and the Persist actions (the rest),*)
(* and everything other tasks do in between is what makes it hard.         *)
(*                                                                         *)
(* The session keeps uncommitted changes (db) apart from what is durable   *)
(* (disk).  A statement or flush that fails rolls the transaction back and *)
(* leaves the session unusable until somebody calls rollback(), which no   *)
(* code does, so it stays unusable until the process is restarted.         *)
(***************************************************************************)
EXTENDS ControlPlane

CONSTANTS
    Uploads,      \* the upload requests: tenant, content hash, acl, named
    IndexerWired, \* an indexer is passed to the service (not so in the API)
    StageFaults,  \* parser, chunker, embedding provider and indexer may raise
    DbFaults,     \* the database may fail a statement or a commit
    MaxRetries,   \* bound: calls of process beyond the first of each job
    MaxCrashes    \* bound: restarts of the API process

Upload == [tenant : Tenant, hash : Content, acl : SUBSET Principal,
           named : BOOLEAN]

ASSUME IngestionAssumption ==
    /\ Uploads \subseteq Upload /\ Null \notin Upload
    /\ IndexerWired \in BOOLEAN /\ StageFaults \in BOOLEAN /\ DbFaults \in BOOLEAN
    /\ MaxRetries \in Nat /\ MaxCrashes \in Nat

\* _MemoryDocument.  A tenant has at most one: process either finds the one
\* there is and reuses its id, or finds none; re-keying pops before it adds.
MemDoc == [id : DocId, hash : Content, ver : Version]

\* What _chunk decided about the document and carries across the embed call.
Draft == [id : DocId, ver : Version]

ASSUME NullIsNoRecord == Null \notin MemDoc /\ Null \notin Draft

VARIABLES
    upload,   \* the request behind each job (kept as history after its payload)
    pc,       \* task of each job: none, queued, embedding, idle, refused or lost
    jobs,     \* IngestionService._jobs
    sources,  \* jobs whose temporary file is registered in _sources
    payloads, \* jobs with an entry in _payloads and _contexts
    memdoc,   \* IngestionService._memory_documents
    draft,    \* local variables of process between its two segments
    db,       \* the database as the session sees it
    disk,     \* the database as committed
    usable,   \* FALSE once the session needs a rollback()
    index,    \* chunks in the search index the indexer writes
    nextId,   \* ids drawn so far
    retries, crashes

requestVars == <<upload, retries, crashes>>
memoryVars  == <<pc, jobs, sources, payloads, memdoc, draft>>
storeVars   == <<db, disk, usable>>
vars == <<requestVars, memoryVars, storeVars, index, nextId>>

TypeOK ==
    /\ upload \in [Job -> Uploads \cup {Null}]
    /\ pc \in [Job -> {"none", "queued", "embedding", "idle", "refused", "lost"}]
    /\ jobs \in [Job -> JobRecord \cup {Null}]
    /\ sources \subseteq Job
    /\ payloads \subseteq Job
    /\ memdoc \in [Tenant -> MemDoc \cup {Null}]
    /\ draft \in [Job -> Draft \cup {Null}]
    /\ db \in Database
    /\ disk \in Database
    /\ usable \in BOOLEAN
    /\ index \subseteq ChunkRow
    /\ nextId \in Nat
    /\ retries \in Nat
    /\ crashes \in Nat
    /\ \A j \in Job :
          /\ pc[j] # "none" => upload[j] # Null
          /\ pc[j] \in {"queued", "embedding", "idle"} => jobs[j] # Null
          /\ pc[j] = "embedding" => draft[j] # Null

Init ==
    /\ upload = [j \in Job |-> Null]
    /\ pc = [j \in Job |-> "none"]
    /\ jobs = [j \in Job |-> Null]
    /\ sources = {}
    /\ payloads = {}
    /\ memdoc = [t \in Tenant |-> Null]
    /\ draft = [j \in Job |-> Null]
    /\ db = EmptyDatabase
    /\ disk = EmptyDatabase
    /\ usable = TRUE
    /\ index = {}
    /\ nextId = 0
    /\ retries = 0
    /\ crashes = 0

-----------------------------------------------------------------------------
(* The session.                                                            *)

\* A flush or statement that raises: the whole transaction is gone, what
\* other jobs had flushed but not committed included.
Rollback ==
    /\ db' = disk
    /\ usable' = FALSE
    /\ UNCHANGED disk

CanFail == ~usable \/ DbFaults

-----------------------------------------------------------------------------
(* submit and the task the API creates for it.                             *)

NewJob == [status |-> "received", stage |-> "received", attempts |-> 0,
           doc |-> Null]

\* The part of submit before the job row: temporary file and the four maps.
Register(j, u) ==
    /\ pc[j] = "none"
    /\ \A k \in Job : k < j => pc[k] # "none"
    /\ upload' = [upload EXCEPT ![j] = u]
    /\ jobs' = [jobs EXCEPT ![j] = NewJob]
    /\ sources' = sources \cup {j}
    /\ payloads' = payloads \cup {j}
    /\ UNCHANGED <<memdoc, draft, index, nextId, retries, crashes>>

\* The row is flushed, not committed; the API creates the task.
Submit(j, u) ==
    /\ usable
    /\ u.tenant \in Registered
    /\ Register(j, u)
    /\ pc' = [pc EXCEPT ![j] = "queued"]
    /\ db' = CreateJob(db, j, NewJob)
    /\ UNCHANGED <<disk, usable>>

\* jobs.create raises (unusable session, no tenants row, database fault): the
\* client gets a 500, no task is created, the maps keep the job.
SubmitRefused(j, u) ==
    /\ CanFail \/ u.tenant \notin Registered
    /\ Register(j, u)
    /\ pc' = [pc EXCEPT ![j] = "refused"]
    /\ Rollback

-----------------------------------------------------------------------------
(* process: how it ends.                                                   *)

\* _jobs first, then the row.
GetJob(j) == IF jobs[j] # Null THEN jobs[j] ELSE db.jobs[j]

Failed(j, stage) ==
    [GetJob(j) EXCEPT !.status = "failed", !.stage = stage, !.attempts = @ + 1]

\* Mutant: the result names the id drawn by _chunk, not the row's.
SucceededAsDrafted(j, d) ==
    [GetJob(j) EXCEPT !.status = "active", !.stage = "active",
                      !.doc = draft[j].id]

Succeeded(j, d) ==
    [GetJob(j) EXCEPT !.status = "active", !.stage = "active", !.doc = d]

\* Mutant: the temporary file is removed on success only.
SettleKeepingSource(j, job) ==
    /\ pc' = [pc EXCEPT ![j] = "idle"]
    /\ jobs' = [jobs EXCEPT ![j] = job]
    /\ sources' = IF job.status = "active" THEN sources \ {j} ELSE sources
    /\ payloads' = IF job.status = "active" THEN payloads \ {j} ELSE payloads
    /\ draft' = [draft EXCEPT ![j] = Null]
    /\ UNCHANGED requestVars

\* The finally clause and the memory copy of the job; these precede the row.
Settle(j, job) ==
    /\ pc' = [pc EXCEPT ![j] = "idle"]
    /\ jobs' = [jobs EXCEPT ![j] = job]
    /\ sources' = sources \ {j}
    /\ payloads' = IF job.status = "active" THEN payloads \ {j} ELSE payloads
    /\ draft' = [draft EXCEPT ![j] = Null]
    /\ UNCHANGED requestVars

\* Mutant: session.commit before jobs.update.
CommitBeforeUpdate(j, job, w) ==
    /\ usable
    /\ db' = UpdateJob(w, j, job)
    /\ disk' = w
    /\ UNCHANGED usable

\* jobs.update and session.commit on the database w the pipeline left, ...
Commit(j, job, w) ==
    /\ usable
    /\ db' = UpdateJob(w, j, job)
    /\ disk' = db'
    /\ UNCHANGED usable

\* ... either of which may raise instead.
Save(j, job, w) ==
    \/ Commit(j, job, w)
    \/ CanFail /\ Rollback

-----------------------------------------------------------------------------
(* process, first segment: lookup, parse, normalize, chunk.                *)

HasSource(j) == j \in sources \/ j \in payloads

\* A failed job resumed after a restart has neither file nor payload:
\* FileNotFoundError, at whatever stage the job was.
SourceMissing(j) ==
    /\ pc[j] = "queued"
    /\ ~HasSource(j)
    /\ LET job == Failed(j, GetJob(j).stage)
       IN  Settle(j, job) /\ Save(j, job, db)
    /\ UNCHANGED <<memdoc, index, nextId>>

\* The parser raises, or the text is blank and chunk_document raises.
InputRejected(j) ==
    /\ StageFaults
    /\ pc[j] = "queued"
    /\ HasSource(j)
    /\ \E stage \in {"parsing", "chunking"} :
           LET job == Failed(j, stage)
           IN  Settle(j, job) /\ Save(j, job, db)
    /\ UNCHANGED <<memdoc, index, nextId>>

\* No document of the tenant in memory and find_active raises.
LookupRaises(j) ==
    /\ CanFail
    /\ pc[j] = "queued"
    /\ HasSource(j)
    /\ memdoc[upload[j].tenant] = Null
    /\ Settle(j, Failed(j, "chunking"))
    /\ Rollback
    /\ UNCHANGED <<memdoc, index, nextId>>

\* Mutant: the next version counted the wrong way.
NextVersionDown(e, hash) == IF e.hash = hash THEN e.ver ELSE e.ver - 1

\* The version an upload of hash gets if the document found is e.
NextVersion(e, hash) == IF e.hash = hash THEN e.ver ELSE e.ver + 1

\* _chunk: reuse the tenant's document, from memory or else from the
\* database, or draw a new id; then suspend in the embedding provider.
Start(j) ==
    LET u     == upload[j]
        known == ActiveDocs(db, u.tenant, u.named)
        Suspend(d) ==
            /\ pc' = [pc EXCEPT ![j] = "embedding"]
            /\ draft' = [draft EXCEPT ![j] = d]
            /\ sources' = sources \cup {j}
    IN  /\ pc[j] = "queued"
        /\ HasSource(j)
        /\ \/ /\ memdoc[u.tenant] # Null
              /\ LET e == memdoc[u.tenant]
                 IN  Suspend([id |-> e.id, ver |-> NextVersion(e, u.hash)])
              /\ UNCHANGED nextId
           \/ /\ memdoc[u.tenant] = Null /\ usable
              /\ \E e \in Oldest(known) :
                     Suspend([id |-> e.id, ver |-> NextVersion(e, u.hash)])
              /\ UNCHANGED nextId
           \/ /\ memdoc[u.tenant] = Null /\ usable /\ known = {}
              /\ Suspend([id |-> nextId, ver |-> 1])
              /\ nextId' = nextId + 1
        /\ UNCHANGED <<jobs, payloads, memdoc, storeVars, index, requestVars>>

EmbedRaises(j) ==
    /\ StageFaults
    /\ pc[j] = "embedding"
    /\ LET job == Failed(j, "embedding")
       IN  Settle(j, job) /\ Save(j, job, db)
    /\ UNCHANGED <<memdoc, index, nextId>>

-----------------------------------------------------------------------------
(* process, second segment: persist, index, record the outcome.            *)

\* The memory record _persist writes before it touches the database: the
\* tenant's document is looked up again, after the embed call.
Recorded(j) ==
    LET e == memdoc[upload[j].tenant]
        h == upload[j].hash
    IN  IF e = Null THEN [id |-> draft[j].id, hash |-> h, ver |-> draft[j].ver]
        ELSE [id |-> e.id, hash |-> h, ver |-> NextVersion(e, h)]

\* Mutant: the record is not re-keyed to the id the row got.
RememberAsDrafted(j, rec) ==
    memdoc' = [memdoc EXCEPT ![upload[j].tenant] =
                   [rec EXCEPT !.id = Recorded(j).id]]

Remember(j, rec) == memdoc' = [memdoc EXCEPT ![upload[j].tenant] = rec]

\* The document row the draft names, if this request may see it.
Found(j) == Visible(db, draft[j].id, upload[j].tenant, upload[j].acl)

\* The chunks are cut with the draft's version, under the document's final id.
ChunkOf(j, d) == [doc |-> d, ver |-> draft[j].ver, hash |-> upload[j].hash]

VersionOf(j, d, v) == [doc |-> d, ver |-> v, hash |-> upload[j].hash,
                       acl |-> upload[j].acl, status |-> "pending"]

\* The index after delete_document_version: the version replaced is that of
\* the memory record found, so nothing is deleted when memory had none.
WithoutReplaced(idx, j, d) ==
    LET e == memdoc[upload[j].tenant]
    IN  {c \in idx : ~( /\ e # Null
                        /\ e.hash # upload[j].hash
                        /\ c.doc = d
                        /\ c.ver = e.ver )}

\* The database part left w and the document d: index, re-key, record.
IndexAndSettle(j, d, w) ==
    LET written == IF IndexerWired THEN index \cup {ChunkOf(j, d)} ELSE index
    IN  \/ /\ Remember(j, [Recorded(j) EXCEPT !.id = d])
           /\ index' = IF IndexerWired THEN WithoutReplaced(written, j, d) ELSE index
           /\ Settle(j, Succeeded(j, d))
           /\ Save(j, Succeeded(j, d), CreateChunks(w, ChunkOf(j, d)))
        \/ /\ IndexerWired /\ StageFaults
           /\ Remember(j, Recorded(j))
           /\ index' \in {index, written}
           /\ Settle(j, Failed(j, "indexing"))
           /\ Save(j, Failed(j, "indexing"), CreateChunks(w, ChunkOf(j, d)))

\* No visible row for the draft: a new document, with an id of its own.
PersistNew(j) ==
    LET u == upload[j]
        w == CreateDocument(db, nextId, u.tenant, u.hash, u.acl)
    IN  /\ pc[j] = "embedding" /\ usable
        /\ Found(j) = {}
        /\ nextId' = nextId + 1
        /\ IndexAndSettle(j, nextId, ActivateVersion(w, VersionOf(j, nextId, 1)))

\* A row with other content: new version, activated, the chunks of the
\* version the row had are deleted.
PersistReplacement(j) ==
    LET u == upload[j]
        d == draft[j].id
        w == CreateVersion(db, d, draft[j].ver, u.hash, u.acl)
        a == ActivateVersion(w, VersionOf(j, d, draft[j].ver))
    IN  /\ pc[j] = "embedding" /\ usable
        /\ \E r \in Found(j) :
               /\ r.hash # u.hash
               /\ ~VersionExists(db, d, draft[j].ver)
               /\ ChunkOf(j, d) \notin DeleteChunks(a, d, r.ver).chunks
               /\ IndexAndSettle(j, d, DeleteChunks(a, d, r.ver))
        /\ UNCHANGED nextId

\* A row with the same content: only the chunks are written again.
PersistSameContent(j) ==
    LET d == draft[j].id
    IN  /\ pc[j] = "embedding" /\ usable
        /\ \E r \in Found(j) : r.hash = upload[j].hash
        /\ ChunkOf(j, d) \notin db.chunks
        /\ IndexAndSettle(j, d, db)
        /\ UNCHANGED nextId

\* A UNIQUE constraint the writes run into: the version number of the draft
\* is taken, or the chunks' primary keys exist.
Conflict(j) ==
    LET d == draft[j].id
    IN  \E r \in Found(j) :
            \/ r.hash = upload[j].hash /\ ChunkOf(j, d) \in db.chunks
            \/ /\ r.hash # upload[j].hash
               /\ \/ VersionExists(db, d, draft[j].ver)
                  \/ ChunkOf(j, d) \in DeleteChunks(db, d, r.ver).chunks

\* Mutant: only constraint violations are caught.
PersistRaisesOnConflict(j) ==
    /\ pc[j] = "embedding"
    /\ Conflict(j)
    /\ Remember(j, Recorded(j))
    /\ Settle(j, Failed(j, "indexing"))
    /\ Rollback
    /\ UNCHANGED <<index, nextId>>

\* The memory record is written, then the database raises.
PersistRaises(j) ==
    /\ pc[j] = "embedding"
    /\ CanFail \/ Conflict(j)
    /\ Remember(j, Recorded(j))
    /\ Settle(j, Failed(j, "indexing"))
    /\ Rollback
    /\ UNCHANGED <<index, nextId>>

-----------------------------------------------------------------------------
(* Callers and the environment.                                            *)

\* A caller of the service processes a failed job again (the API never does).
Retry(j) ==
    /\ retries < MaxRetries
    /\ pc[j] = "idle"
    /\ jobs[j].status = "failed"
    /\ pc' = [pc EXCEPT ![j] = "queued"]
    /\ retries' = retries + 1
    /\ UNCHANGED <<jobs, sources, payloads, memdoc, draft, storeVars, index,
                   nextId, upload, crashes>>

\* Mutant: process does not return early for an active job.
ResumeLostAnyStatus(j) ==
    /\ MaxRetries > 0
    /\ pc[j] = "lost" /\ usable
    /\ db.jobs[j] # Null
    /\ LET job == Failed(j, db.jobs[j].stage)
       IN  Settle(j, job) /\ Save(j, job, db)
    /\ UNCHANGED <<memdoc, index, nextId>>

\* A job known only by its row is processed: no source, so it fails at the
\* stage the row names.
ResumeLost(j) ==
    /\ MaxRetries > 0
    /\ pc[j] = "lost" /\ usable
    /\ db.jobs[j] # Null
    /\ db.jobs[j].status # "active"
    /\ LET job == Failed(j, db.jobs[j].stage)
       IN  Settle(j, job) /\ Save(j, job, db)
    /\ UNCHANGED <<memdoc, index, nextId>>

\* The process dies and starts again: memory and the open transaction are
\* gone, the session is new, nothing reschedules the jobs.
Restart ==
    /\ crashes < MaxCrashes
    /\ crashes' = crashes + 1
    /\ pc' = [j \in Job |-> IF pc[j] = "none" THEN "none" ELSE "lost"]
    /\ jobs' = [j \in Job |-> Null]
    /\ sources' = {}
    /\ payloads' = {}
    /\ memdoc' = [t \in Tenant |-> Null]
    /\ draft' = [j \in Job |-> Null]
    /\ db' = disk
    /\ usable' = TRUE
    /\ UNCHANGED <<disk, index, nextId, upload, retries>>

ProcessStep(j) ==
    \/ SourceMissing(j)
    \/ InputRejected(j)
    \/ LookupRaises(j)
    \/ Start(j)
    \/ EmbedRaises(j)
    \/ PersistNew(j)
    \/ PersistReplacement(j)
    \/ PersistSameContent(j)
    \/ PersistRaises(j)

Next ==
    \/ \E j \in Job, u \in Uploads : Submit(j, u) \/ SubmitRefused(j, u)
    \/ \E j \in Job : ProcessStep(j) \/ Retry(j) \/ ResumeLost(j)
    \/ Restart

\* A task's step when the loop first runs it, and when the provider answered.
FirstSegment(j) == SourceMissing(j) \/ InputRejected(j) \/ LookupRaises(j) \/ Start(j)

SecondSegment(j) ==
    PersistNew(j) \/ PersistReplacement(j) \/ PersistSameContent(j) \/ PersistRaises(j)

\* The event loop runs every ready task, and a provider that does not raise
\* answers.  Requests, retries and restarts are up to others.
Fairness == \A j \in Job : WF_vars(FirstSegment(j)) /\ WF_vars(SecondSegment(j))

Spec     == Init /\ [][Next]_vars
FairSpec == Spec /\ Fairness
-----------------------------------------------------------------------------
(* Properties.                                                             *)

Active(w, d) == {v \in w.versions : v.doc = d /\ v.status = "active"}

\* Each committed document has exactly one active version, and its own row
\* (the one readers query) carries that version's number, content and acl:
\* no interleaving, fault or restart leaves the two tables apart.
DocumentMirrorsActiveVersion ==
    \A r \in disk.docs :
        Active(disk, r.id) = {[doc |-> r.id, ver |-> r.ver, hash |-> r.hash,
                               acl |-> r.acl, status |-> "active"]}

\* Replacing deletes chunks of one version and writes those of another; the
\* committed document always has the chunks of the content it shows.
EveryDocumentSearchable ==
    \A r \in disk.docs : \E c \in disk.chunks : c.doc = r.id /\ c.hash = r.hash

\* Every job with a task has its row, and the durable row of a job that has
\* ended says what get_job answers from memory (process writes memory first,
\* 175-179).
RowsInStep ==
    usable => \A j \in Job :
        /\ pc[j] \in {"queued", "embedding"} => db.jobs[j] # Null
        /\ pc[j] = "idle" =>
            /\ disk.jobs[j] # Null
            /\ db.jobs[j] = disk.jobs[j]
            /\ disk.jobs[j].status = jobs[j].status
            /\ disk.jobs[j].stage = jobs[j].stage
            /\ disk.jobs[j].attempts = jobs[j].attempts

\* While the session works, durable rows and memory are in step.  Afterwards
\* memory may be ahead of a row until the restart, but the row is never ahead:
\* no poll says failed of a job that is committed as active.
RowsFollowMemory ==
    /\ RowsInStep
    /\ \A j \in Job :
          (jobs[j] # Null /\ disk.jobs[j] # Null /\ disk.jobs[j].status = "active")
          => jobs[j].status = "active"

\* While the session works, a job reported active has its content committed
\* as a version of the document it names, active or since replaced.
ActiveJobsPublished ==
    usable => \A j \in Job :
        (pc[j] = "idle" /\ jobs[j].status = "active") =>
            \E v \in disk.versions :
                /\ v.doc = jobs[j].doc
                /\ v.hash = upload[j].hash
                /\ v.status # "pending"

\* Without an indexer, the document memory holds for a tenant is one of its
\* committed documents, with the content it has.
MemoryRight ==
    ~IndexerWired => \A t \in Tenant :
        memdoc[t] # Null =>
            \E r \in disk.docs :
                /\ r.id = memdoc[t].id
                /\ r.tenant = t
                /\ r.hash = memdoc[t].hash

\* _chunk compares an upload with what is really published.  A write that
\* fails leaves memory naming content nobody published, but then nothing is
\* committed before a restart has emptied it: whenever a step leaves a session
\* that works memory is right, and whenever one commits it was right before.
\* (The version number may lag behind, see README.)
MemoryNamesPublished ==
    [][(usable' => MemoryRight') /\ (disk' # disk => MemoryRight)]_vars

\* A job that ended has no temporary file left, and an active one no payload;
\* one still waiting for the provider has both.
TemporariesFollowJob ==
    \A j \in Job :
        /\ pc[j] = "idle" => j \notin sources
        /\ (pc[j] = "idle" /\ jobs[j].status = "active") => j \notin payloads
        /\ pc[j] = "embedding" => j \in sources /\ j \in payloads

\* A job committed as active is never touched again, by a retry, by another
\* job's rollback or after a restart.
CommittedActiveIsFinal ==
    [][\A j \in Job :
          (disk.jobs[j] # Null /\ disk.jobs[j].status = "active")
              => disk'.jobs[j] = disk.jobs[j]]_vars

\* Committed documents behave as VersionHistory says.
VersionsOf(w) == {[doc |-> v.doc, ver |-> v.ver, hash |-> v.hash] : v \in w.versions}
CurrentOf(w)  == {[doc |-> r.id, ver |-> r.ver, hash |-> r.hash] : r \in w.docs}

Abstract == INSTANCE VersionHistory
            WITH history <- VersionsOf(disk), current <- CurrentOf(disk)

ImplementsVersionHistory == Abstract!Spec

\* A job whose task was created ends, active or failed, unless the process
\* dies first.
AcceptedJobSettles ==
    \A j \in Job : pc[j] = "queued" ~>
        \/ pc[j] = "idle" /\ jobs[j].status \in {"active", "failed"}
        \/ pc[j] = "lost"
-----------------------------------------------------------------------------
(* What the documents claim and the code does otherwise (README, Findings).*)

\* Uploading a content the tenant already has published never fails.
ReprocessingIsIdempotent ==
    \A j \in Job :
        (pc[j] = "idle" /\ jobs[j].status = "failed") =>
            \A r \in disk.docs :
                ~(r.tenant = upload[j].tenant /\ r.hash = upload[j].hash)

\* Replacing a document leaves no chunk of an earlier content searchable.
ReplacedChunksRemoved ==
    \A c \in disk.chunks, r \in disk.docs : c.doc = r.id => c.hash = r.hash
=============================================================================
