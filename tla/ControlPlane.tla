---------------------------- MODULE ControlPlane ----------------------------
(***************************************************************************)
(* The control-plane database of src/adaptive/db: the rows of documents,   *)
(* document_versions, chunks and ingestion_jobs, and what one repository   *)
(* call makes of them.  A table is a set of rows (jobs: a function, a job  *)
(* having at most one row), so a UNIQUE constraint is a condition on that  *)
(* set.  Every operator is a pure function of a database; when a call is   *)
(* flushed, committed or rolled back is the business of Ingestion.         *)
(*                                                                         *)
(* A chunk row stands for all the chunks of one canonical text cut for one *)
(* document and version: chunking is deterministic and the chunk id is     *)
(* computed from (tenant, document, version, ordinal, text), so the rows   *)
(* of two ingestions of one text under one document and version have the   *)
(* same primary keys, and all the chunks of a text come and go together.   *)
(***************************************************************************)
EXTENDS Naturals

CONSTANTS
    MaxJobs,     \* bound: uploads; job ids are numbered as they are drawn
    Tenant,      \* tenant ids a request may carry
    Registered,  \* tenants that have a row in the tenants table
    Content,     \* content hashes of canonical texts
    Principal,   \* members of access control lists
    Null         \* None: a null column, an absent row or map entry

Job     == 1..MaxJobs
DocId   == Nat       \* likewise drawn once each (uuid4)
Version == Nat \ {0}

VersionStatus == {"pending", "active", "replaced"}

Stage  == {"received", "parsing", "chunking", "embedding", "indexing", "active"}
Status == {"received", "active", "failed"}

DocRow == [id : DocId, tenant : Tenant, hash : Content, ver : Version,
           acl : SUBSET Principal]
VersionRow == [doc : DocId, ver : Version, hash : Content,
               acl : SUBSET Principal, status : VersionStatus]
ChunkRow == [doc : DocId, ver : Version, hash : Content]
JobRecord == [status : Status, stage : Stage, attempts : Nat,
              doc : DocId \cup {Null}]

Database == [docs : SUBSET DocRow, versions : SUBSET VersionRow,
             chunks : SUBSET ChunkRow, jobs : [Job -> JobRecord \cup {Null}]]

ASSUME ControlPlaneAssumption ==
    /\ MaxJobs \in Nat
    /\ Registered \subseteq Tenant
    /\ Null \notin DocId
    /\ Null \notin JobRecord

EmptyDatabase ==
    [docs |-> {}, versions |-> {}, chunks |-> {}, jobs |-> [j \in Job |-> Null]]

-----------------------------------------------------------------------------
(* Queries.                                                                *)

\* RequestContext.can_access: every principal the row requires is held.
CanAccess(held, required) == required \subseteq held

\* DocumentRepository.get: the row by id, within the tenant and the acl.
Visible(db, d, tenant, acl) ==
    {r \in db.docs : r.id = d /\ r.tenant = tenant /\ CanAccess(acl, r.acl)}

\* DocumentRepository.find_active: the oldest active document of the tenant.
\* Every row is stored under the filename "source", so a caller-supplied
\* filename in the metadata matches none of them.
ActiveDocs(db, tenant, named) ==
    {r \in db.docs : r.tenant = tenant /\ ~named}

Oldest(rows) == {r \in rows : \A s \in rows : r.id <= s.id}

\* Mutant: no UNIQUE constraint on document and version number.
VersionNeverExists(db, d, v) == FALSE

VersionExists(db, d, v) == \E r \in db.versions : r.doc = d /\ r.ver = v

-----------------------------------------------------------------------------
(* Commands.                                                               *)

\* DocumentRepository.create: a document row and its version 1, pending.
CreateDocument(db, d, tenant, hash, acl) ==
    [db EXCEPT
        !.docs = @ \cup {[id |-> d, tenant |-> tenant, hash |-> hash,
                          ver |-> 1, acl |-> acl]},
        !.versions = @ \cup {[doc |-> d, ver |-> 1, hash |-> hash,
                              acl |-> acl, status |-> "pending"]}]

\* DocumentVersionRepository.create: one more version, pending.
CreateVersion(db, d, v, hash, acl) ==
    [db EXCEPT !.versions = @ \cup {[doc |-> d, ver |-> v, hash |-> hash,
                                     acl |-> acl, status |-> "pending"]}]

\* Mutant: the version that was active is not marked replaced.
ActivatedOnly(r, d, v) ==
    IF r.doc = d /\ r.ver = v THEN [r EXCEPT !.status = "active"] ELSE r

\* What activate_version does to one row of document_versions ...
Activated(r, d, v) ==
    IF r.doc = d /\ r.ver = v THEN [r EXCEPT !.status = "active"]
    ELSE IF r.doc = d /\ r.status = "active" THEN [r EXCEPT !.status = "replaced"]
    ELSE r

\* ... and to the document's own row, which copies the activated version.
Mirrored(r, rec) ==
    IF r.id = rec.doc
    THEN [r EXCEPT !.ver = rec.ver, !.hash = rec.hash, !.acl = rec.acl]
    ELSE r

\* DocumentRepository.activate_version of the version row rec.
ActivateVersion(db, rec) ==
    [db EXCEPT !.versions = {Activated(r, rec.doc, rec.ver) : r \in @},
               !.docs = {Mirrored(r, rec) : r \in @}]

\* Mutant: the deletion does not filter by document.
DeleteChunksOfAnyDocument(db, d, v) ==
    [db EXCEPT !.chunks = {c \in @ : c.ver # v}]

\* ChunkRepository.delete_by_document_version and bulk_create.
DeleteChunks(db, d, v) ==
    [db EXCEPT !.chunks = {c \in @ : ~(c.doc = d /\ c.ver = v)}]

CreateChunks(db, c) == [db EXCEPT !.chunks = @ \cup {c}]

\* IngestionJobRepository.create and update; update leaves the row's
\* document_id column as it is.
CreateJob(db, j, job) == [db EXCEPT !.jobs[j] = job]

UpdateJob(db, j, job) == [db EXCEPT !.jobs[j] = [job EXCEPT !.doc = db.jobs[j].doc]]
=============================================================================
