--------------------------- MODULE IngestionProofs --------------------------
(***************************************************************************)
(* Theorems about Ingestion, for any number of jobs, tenants, contents and *)
(* principals, any wiring, faults, retries and restarts.                   *)
(***************************************************************************)
EXTENDS Ingestion, TLAPS

-----------------------------------------------------------------------------
(* The repository calls: what creating, activating and deleting do to a    *)
(* database whose tables agree.  These lemmas are about one database value *)
(* of ControlPlane; the steps of Ingestion compose them.                   *)

\* At most one row per document id (the primary key), and at most one
\* version row per document and number (uq_document_version_number).
KeysUnique(w) ==
    /\ \A r, s \in w.docs : r.id = s.id => r = s
    /\ \A v, x \in w.versions : (v.doc = x.doc /\ v.ver = x.ver) => v = x

\* The version row a document row mirrors, and no other, is active.
Mirrors(w) ==
    /\ \A r \in w.docs :
          [doc |-> r.id, ver |-> r.ver, hash |-> r.hash, acl |-> r.acl,
           status |-> "active"] \in w.versions
    /\ \A r \in w.docs, v \in w.versions :
          (v.doc = r.id /\ v.status = "active") => v.ver = r.ver

\* Every version belongs to a document, and ids from n on are not drawn yet.
IdsBelow(w, n) ==
    /\ \A r \in w.docs : r.id < n
    /\ \A v \in w.versions : v.doc < n

Typed(w) == w.docs \subseteq DocRow /\ w.versions \subseteq VersionRow

Consistent(w) == Typed(w) /\ KeysUnique(w) /\ Mirrors(w)

\* Creating a document under a fresh id and activating its version 1 (create
\* and activate_version in _persist) keeps the tables consistent.
LEMMA CreateActivateConsistent ==
    ASSUME NEW w \in Database, NEW d \in DocId, NEW t \in Tenant,
           NEW h \in Content, NEW a \in SUBSET Principal,
           Consistent(w), IdsBelow(w, d), NEW rec,
           rec = [doc |-> d, ver |-> 1, hash |-> h, acl |-> a, status |-> "pending"]
    PROVE  LET x == ActivateVersion(CreateDocument(w, d, t, h, a), rec)
           IN  /\ Consistent(x)
               /\ x.docs = w.docs \cup {[id |-> d, tenant |-> t, hash |-> h,
                                         ver |-> 1, acl |-> a]}
               /\ x.versions = w.versions \cup {[rec EXCEPT !.status = "active"]}
<1> DEFINE row == [id |-> d, tenant |-> t, hash |-> h, ver |-> 1, acl |-> a]
           c == CreateDocument(w, d, t, h, a)
           x == ActivateVersion(c, rec)
           act == [rec EXCEPT !.status = "active"]
<1>1. c.docs = w.docs \cup {row} /\ c.versions = w.versions \cup {rec}
  BY DEF CreateDocument, Database
<1>2. x.docs = {Mirrored(r, rec) : r \in c.docs}
      /\ x.versions = {Activated(r, rec.doc, rec.ver) : r \in c.versions}
  BY DEF ActivateVersion, CreateDocument, Database
<1>3. \A r \in w.docs : Mirrored(r, rec) = r
  BY DEF Mirrored, IdsBelow, Consistent, Typed, DocRow, DocId
<1>4. Mirrored(row, rec) = row
  BY DEF Mirrored
<1>5. x.docs = w.docs \cup {row}
  BY <1>1, <1>2, <1>3, <1>4
<1>6. \A v \in w.versions : Activated(v, rec.doc, rec.ver) = v
  BY DEF Activated, IdsBelow, Consistent, Typed, VersionRow, DocId
<1>7. Activated(rec, rec.doc, rec.ver) = act
  BY DEF Activated
<1>8. x.versions = w.versions \cup {act}
  BY <1>1, <1>2, <1>6, <1>7
<1>9. act = [doc |-> d, ver |-> 1, hash |-> h, acl |-> a, status |-> "active"]
  OBVIOUS
<1>10. Typed(x)
  BY <1>5, <1>8, <1>9 DEF Consistent, Typed, DocRow, VersionRow, Version, VersionStatus
<1>11. KeysUnique(x)
  BY <1>5, <1>8, <1>9 DEF Consistent, Typed, KeysUnique, IdsBelow, DocRow, VersionRow, DocId
<1>12. Mirrors(x)
  BY <1>5, <1>8, <1>9 DEF Consistent, Typed, Mirrors, IdsBelow, DocRow, VersionRow, DocId
<1>13. QED
  BY <1>5, <1>8, <1>10, <1>11, <1>12 DEF Consistent

\* What creating and activating the version row rec makes of the document
\* row old and of its versions.
Superseded(w, x, old, rec) ==
    /\ x.docs = (w.docs \ {old}) \cup
                {[old EXCEPT !.ver = rec.ver, !.hash = rec.hash, !.acl = rec.acl]}
    /\ x.versions = {Activated(r, rec.doc, rec.ver) : r \in w.versions} \cup
                    {[rec EXCEPT !.status = "active"]}

\* Replacing: a new version number of a known document is created and
\* activated (versions.create and activate_version).  The version that was
\* active becomes replaced, its own row otherwise untouched.
LEMMA CreateVersionActivateConsistent ==
    ASSUME NEW w \in Database, NEW d \in DocId, NEW v \in Version,
           NEW h \in Content, NEW a \in SUBSET Principal,
           Consistent(w), ~VersionExists(w, d, v),
           NEW old \in w.docs, old.id = d, NEW rec,
           rec = [doc |-> d, ver |-> v, hash |-> h, acl |-> a, status |-> "pending"]
    PROVE  LET x == ActivateVersion(CreateVersion(w, d, v, h, a), rec)
           IN  Consistent(x) /\ Superseded(w, x, old, rec)
<1> DEFINE c == CreateVersion(w, d, v, h, a)
           x == ActivateVersion(c, rec)
           act == [rec EXCEPT !.status = "active"]
           new == [old EXCEPT !.ver = v, !.hash = h, !.acl = a]
<1>1. c.docs = w.docs /\ c.versions = w.versions \cup {rec}
  BY DEF CreateVersion, Database
<1>2. x.docs = {Mirrored(r, rec) : r \in c.docs}
      /\ x.versions = {Activated(r, d, v) : r \in c.versions}
  BY DEF ActivateVersion, CreateVersion, Database
<1>3. \A r \in w.docs : Mirrored(r, rec) = IF r = old THEN new ELSE r
  BY DEF Mirrored, Consistent, Typed, KeysUnique, DocRow
<1>4. x.docs = (w.docs \ {old}) \cup {new}
  BY <1>1, <1>2, <1>3
<1>5. Activated(rec, d, v) = act
  BY DEF Activated
<1>6. x.versions = {Activated(r, d, v) : r \in w.versions} \cup {act}
  BY <1>1, <1>2, <1>5
<1>7. act = [doc |-> d, ver |-> v, hash |-> h, acl |-> a, status |-> "active"]
  OBVIOUS
<1>8. new \in DocRow /\ new.id = d /\ new.ver = v /\ new.hash = h /\ new.acl = a
  BY DEF Consistent, Typed, DocRow
<1>9. \A r \in w.versions :
          /\ Activated(r, d, v) \in VersionRow
          /\ Activated(r, d, v).doc = r.doc
          /\ Activated(r, d, v).ver = r.ver
          /\ r.doc # d => Activated(r, d, v) = r
          /\ r.doc = d => Activated(r, d, v).status # "active" /\ r.ver # v
  BY DEF Activated, VersionExists, Consistent, Typed, VersionRow, VersionStatus
<1> HIDE DEF new, act, x, c
<1>10. Typed(x)
  BY <1>4, <1>6, <1>7, <1>8, <1>9
     DEF Consistent, Typed, VersionRow, Version, VersionStatus
<1>11. KeysUnique(x)
  <2>1. \A r, s \in x.docs : r.id = s.id => r = s
    BY <1>4, <1>8 DEF Consistent, KeysUnique
  <2>2. \A y, z \in w.versions :
            (y.doc = z.doc /\ y.ver = z.ver) => y = z
    BY DEF Consistent, KeysUnique
  <2>3. \A y, z \in x.versions :
            (y.doc = z.doc /\ y.ver = z.ver) => y = z
    <3>1. SUFFICES ASSUME NEW y \in x.versions, NEW z \in x.versions,
                          y.doc = z.doc, y.ver = z.ver
                   PROVE  y = z
      OBVIOUS
    <3>2. act.doc = d /\ act.ver = v
      BY <1>7
    <3>3. CASE y = act
      BY <3>1, <3>2, <3>3, <1>6, <1>9
    <3>4. CASE z = act
      BY <3>1, <3>2, <3>4, <1>6, <1>9
    <3>5. CASE y # act /\ z # act
      BY <3>1, <3>5, <1>6, <1>9, <2>2
    <3>6. QED
      BY <3>3, <3>4, <3>5
  <2>4. QED
    BY <2>1, <2>3 DEF KeysUnique
<1>12. Mirrors(x)
  <2>1. ASSUME NEW r \in x.docs
        PROVE  [doc |-> r.id, ver |-> r.ver, hash |-> r.hash, acl |-> r.acl,
                status |-> "active"] \in x.versions
    <3>1. CASE r = new
      BY <3>1, <1>6, <1>7, <1>8
    <3>2. CASE r # new
      <4>1. r \in w.docs /\ r.id # d
        BY <3>2, <1>4 DEF Consistent, KeysUnique
      <4>2. PICK y \in w.versions :
                y = [doc |-> r.id, ver |-> r.ver, hash |-> r.hash,
                     acl |-> r.acl, status |-> "active"]
        BY <4>1 DEF Consistent, Mirrors
      <4>3. Activated(y, d, v) = y
        BY <4>1, <4>2, <1>9
      <4>4. QED
        BY <4>2, <4>3, <1>6
    <3>3. QED
      BY <3>1, <3>2
  <2>2. ASSUME NEW r \in x.docs, NEW y \in x.versions,
               y.doc = r.id, y.status = "active"
        PROVE  y.ver = r.ver
    <3>1. CASE y = act
      BY <3>1, <2>2, <1>4, <1>7, <1>8 DEF Consistent, KeysUnique
    <3>2. CASE y # act
      <4>1. PICK z \in w.versions : y = Activated(z, d, v)
        BY <3>2, <1>6
      <4>2. z.doc # d /\ y = z
        BY <4>1, <2>2, <1>9
      <4>3. r \in w.docs
        BY <4>2, <2>2, <1>4, <1>8
      <4>4. QED
        BY <4>2, <4>3, <2>2 DEF Consistent, Mirrors
    <3>3. QED
      BY <3>1, <3>2
  <2>3. QED
    BY <2>1, <2>2 DEF Mirrors
<1>13. Superseded(w, x, old, rec)
  BY <1>4, <1>6 DEF Superseded, new, act
<1>14. QED
  BY <1>10, <1>11, <1>12, <1>13 DEF Consistent, x, c

\* Chunk and job calls leave documents and versions as they are.
LEMMA OtherTablesKeep ==
    ASSUME NEW w \in Database, NEW d, NEW v, NEW c, NEW j, NEW job
    PROVE  /\ DeleteChunks(w, d, v).docs = w.docs
           /\ DeleteChunks(w, d, v).versions = w.versions
           /\ CreateChunks(w, c).docs = w.docs
           /\ CreateChunks(w, c).versions = w.versions
           /\ CreateJob(w, j, job).docs = w.docs
           /\ CreateJob(w, j, job).versions = w.versions
           /\ UpdateJob(w, j, job).docs = w.docs
           /\ UpdateJob(w, j, job).versions = w.versions
  BY DEF DeleteChunks, CreateChunks, CreateJob, UpdateJob, Database

\* Activating a version keeps the database well typed and its chunks.
LEMMA ActivateTyped ==
    ASSUME NEW w \in Database, NEW rec \in VersionRow
    PROVE  /\ ActivateVersion(w, rec) \in Database
           /\ ActivateVersion(w, rec).chunks = w.chunks
<1>1. \A r \in VersionRow : Activated(r, rec.doc, rec.ver) \in VersionRow
  BY DEF Activated, VersionRow, VersionStatus
<1>2. \A r \in DocRow : Mirrored(r, rec) \in DocRow
  BY DEF Mirrored, DocRow, VersionRow
<1>3. QED
  BY <1>1, <1>2 DEF ActivateVersion, Database

\* Every call turns a well-typed database into a well-typed one.
LEMMA CallsTyped ==
    ASSUME NEW w \in Database, NEW d \in DocId, NEW v \in Version,
           NEW t \in Tenant, NEW h \in Content, NEW a \in SUBSET Principal
    PROVE  /\ CreateDocument(w, d, t, h, a) \in Database
           /\ CreateVersion(w, d, v, h, a) \in Database
           /\ DeleteChunks(w, d, v) \in Database
           /\ \A c \in ChunkRow : CreateChunks(w, c) \in Database
           /\ \A rec \in VersionRow : ActivateVersion(w, rec) \in Database
<1>1. CreateDocument(w, d, t, h, a) \in Database
  <2>1. [id |-> d, tenant |-> t, hash |-> h, ver |-> 1, acl |-> a] \in DocRow
    BY DEF DocRow, Version
  <2>2. [doc |-> d, ver |-> 1, hash |-> h, acl |-> a, status |-> "pending"]
            \in VersionRow
    BY DEF VersionRow, Version, VersionStatus
  <2>3. QED
    BY <2>1, <2>2 DEF CreateDocument, Database
<1>2. CreateVersion(w, d, v, h, a) \in Database
  BY DEF CreateVersion, Database, VersionRow, VersionStatus
<1>3. DeleteChunks(w, d, v) \in Database
  BY DEF DeleteChunks, Database
<1>4. ASSUME NEW c \in ChunkRow PROVE CreateChunks(w, c) \in Database
  BY DEF CreateChunks, Database
<1>5. ASSUME NEW rec \in VersionRow PROVE ActivateVersion(w, rec) \in Database
  BY ActivateTyped
<1>6. QED
  BY <1>1, <1>2, <1>3, <1>4, <1>5

LEMMA JobCallsTyped ==
    ASSUME NEW w \in Database, NEW j \in Job, NEW job \in JobRecord
    PROVE  /\ CreateJob(w, j, job) \in Database
           /\ CreateJob(w, j, job).jobs = [w.jobs EXCEPT ![j] = job]
           /\ w.jobs[j] # Null => UpdateJob(w, j, job) \in Database
           /\ UpdateJob(w, j, job).jobs =
                 [w.jobs EXCEPT ![j] = [job EXCEPT !.doc = w.jobs[j].doc]]
<1>1. CreateJob(w, j, job) \in Database
      /\ CreateJob(w, j, job).jobs = [w.jobs EXCEPT ![j] = job]
  BY DEF CreateJob, Database
<1>2. ASSUME w.jobs[j] # Null PROVE [job EXCEPT !.doc = w.jobs[j].doc] \in JobRecord
  BY <1>2 DEF Database, JobRecord
<1>3. UpdateJob(w, j, job).jobs =
          [w.jobs EXCEPT ![j] = [job EXCEPT !.doc = w.jobs[j].doc]]
  BY DEF UpdateJob, Database
<1>4. ASSUME w.jobs[j] # Null PROVE UpdateJob(w, j, job) \in Database
  BY <1>2, <1>4 DEF UpdateJob, Database
<1>5. QED
  BY <1>1, <1>3, <1>4

\* Document, version and chunk calls leave the job rows as they are.
LEMMA JobsKept ==
    ASSUME NEW w \in Database, NEW d, NEW v, NEW t, NEW h, NEW a, NEW c, NEW rec
    PROVE  /\ CreateDocument(w, d, t, h, a).jobs = w.jobs
           /\ CreateVersion(w, d, v, h, a).jobs = w.jobs
           /\ ActivateVersion(w, rec).jobs = w.jobs
           /\ DeleteChunks(w, d, v).jobs = w.jobs
           /\ CreateChunks(w, c).jobs = w.jobs
  BY DEF CreateDocument, CreateVersion, ActivateVersion, DeleteChunks,
         CreateChunks, Database

-----------------------------------------------------------------------------
(* The ways process ends: one lemma for all of them.                       *)

LEMMA UploadTyped ==
    ASSUME TypeOK, NEW j \in Job, upload[j] # Null
    PROVE  /\ upload[j] \in Upload
           /\ upload[j].tenant \in Tenant
           /\ upload[j].hash \in Content
           /\ upload[j].acl \in SUBSET Principal
<1>1. upload[j] \in Upload
  BY IngestionAssumption DEF TypeOK
<1>2. QED
  BY <1>1 DEF Upload

\* Saving a well-typed job over a well-typed view leaves both databases
\* well typed.
LEMMA SaveTyped ==
    ASSUME TypeOK, NEW j \in Job, NEW job \in JobRecord, NEW w \in Database,
           usable => w.jobs[j] # Null, Save(j, job, w)
    PROVE  db' \in Database /\ disk' \in Database /\ usable' \in BOOLEAN
<1>1. CASE Commit(j, job, w)
  BY <1>1, JobCallsTyped DEF Commit, TypeOK
<1>2. CASE Rollback
  BY <1>2 DEF Rollback, TypeOK
<1>3. QED
  BY <1>1, <1>2 DEF Save

\* What the finally clause makes of the task tables.
LEMMA SettleTyped ==
    ASSUME TypeOK, NEW j \in Job, NEW job \in JobRecord, upload[j] # Null,
           Settle(j, job)
    PROVE  /\ upload' \in [Job -> Uploads \cup {Null}]
           /\ pc' \in [Job -> {"none", "queued", "embedding", "idle", "refused", "lost"}]
           /\ jobs' \in [Job -> JobRecord \cup {Null}]
           /\ sources' \subseteq Job
           /\ payloads' \subseteq Job
           /\ draft' \in [Job -> Draft \cup {Null}]
           /\ retries' \in Nat /\ crashes' \in Nat
           /\ \A k \in Job :
                 /\ pc'[k] # "none" => upload'[k] # Null
                 /\ pc'[k] \in {"queued", "embedding", "idle"} => jobs'[k] # Null
                 /\ pc'[k] = "embedding" => draft'[k] # Null
  BY ControlPlaneAssumption DEF TypeOK, Settle, requestVars

\* A task that ends with its row present keeps rows and memory in step.
LEMMA SettleSaveRows ==
    ASSUME TypeOK, RowsInStep, NEW j \in Job, NEW job \in JobRecord,
           NEW w \in Database, w.jobs = db.jobs, usable => w.jobs[j] # Null,
           Settle(j, job), Save(j, job, w)
    PROVE  RowsInStep'
<1>1. CASE Commit(j, job, w)
  <2>1. usable /\ db' = UpdateJob(w, j, job) /\ disk' = db'
    BY <1>1 DEF Commit
  <2>0. db'.jobs = [db.jobs EXCEPT ![j] = [job EXCEPT !.doc = db.jobs[j].doc]]
    <3>1. UpdateJob(w, j, job).jobs =
              [w.jobs EXCEPT ![j] = [job EXCEPT !.doc = w.jobs[j].doc]]
      BY DEF UpdateJob, Database
    <3>2. QED
      BY <2>1, <3>1
  <2> DEFINE row == [job EXCEPT !.doc = db.jobs[j].doc]
  <2>2. row # Null /\ row.status = job.status /\ row.stage = job.stage
        /\ row.attempts = job.attempts
    <3>1. row \in JobRecord
      BY <1>1 DEF Commit, TypeOK, Database, JobRecord
    <3>2. QED
      BY <3>1, ControlPlaneAssumption DEF JobRecord
  <2> HIDE DEF row
  <2>3. db.jobs \in [Job -> JobRecord \cup {Null}]
    BY DEF TypeOK, Database
  <2>4. ASSUME NEW k \in Job, k # j
        PROVE  /\ db'.jobs[k] = db.jobs[k]
               /\ pc'[k] = pc[k] /\ jobs'[k] = jobs[k]
    BY <2>0, <2>3, <2>4 DEF Settle, TypeOK
  <2>5. db'.jobs[j] = row
    BY <2>0, <2>3 DEF row
  <2>6. pc'[j] = "idle" /\ jobs'[j] = job
    BY DEF Settle, TypeOK
  <2>7. QED
    BY <2>1, <2>2, <2>4, <2>5, <2>6 DEF RowsInStep
<1>2. CASE Rollback
  BY <1>2 DEF Rollback, RowsInStep
<1>3. QED
  BY <1>1, <1>2 DEF Save

\* A job record after the except clause, or after the last advance.
LEMMA OutcomeTyped ==
    ASSUME TypeOK, NEW j \in Job, GetJob(j) # Null
    PROVE  /\ GetJob(j) \in JobRecord
           /\ \A stage \in Stage : Failed(j, stage) \in JobRecord
           /\ \A d \in DocId : Succeeded(j, d) \in JobRecord
<1>1. GetJob(j) \in JobRecord
  BY DEF GetJob, TypeOK, Database
<1>2. ASSUME NEW stage \in Stage PROVE Failed(j, stage) \in JobRecord
  <2> DEFINE n == GetJob(j).attempts + 1
  <2>1. n \in Nat
    BY <1>1 DEF JobRecord
  <2>2. Failed(j, stage) =
            [GetJob(j) EXCEPT !.status = "failed", !.stage = stage, !.attempts = n]
    BY DEF Failed
  <2> HIDE DEF n
  <2>3. QED
    BY <1>1, <2>1, <2>2 DEF JobRecord, Status
<1>3. ASSUME NEW d \in DocId PROVE Succeeded(j, d) \in JobRecord
  BY <1>1 DEF Succeeded, JobRecord, Stage, Status
<1>4. QED
  BY <1>1, <1>2, <1>3

\* The memory record and the chunks of a job whose draft is known.
LEMMA PersistedTyped ==
    ASSUME TypeOK, NEW j \in Job, pc[j] = "embedding"
    PROVE  /\ upload[j] \in Upload /\ upload[j].tenant \in Tenant
           /\ upload[j].hash \in Content /\ upload[j].acl \in SUBSET Principal
           /\ draft[j].id \in DocId /\ draft[j].ver \in Version
           /\ Recorded(j) \in MemDoc
           /\ \A d \in DocId :
                 /\ ChunkOf(j, d) \in ChunkRow
                 /\ [Recorded(j) EXCEPT !.id = d] \in MemDoc
                 /\ \A v \in Version : VersionOf(j, d, v) \in VersionRow
<1>1. upload[j] \in Upload /\ upload[j].tenant \in Tenant
      /\ upload[j].hash \in Content /\ upload[j].acl \in SUBSET Principal
  BY UploadTyped DEF TypeOK
<1>2. draft[j] \in Draft
  BY DEF TypeOK
<1>3. memdoc[upload[j].tenant] \in MemDoc \cup {Null}
  BY <1>1 DEF TypeOK
<1>4. Recorded(j) \in MemDoc
  BY <1>1, <1>2, <1>3 DEF Recorded, NextVersion, MemDoc, Draft, Version
<1>5. QED
  BY <1>1, <1>2, <1>4
     DEF Draft, MemDoc, ChunkOf, ChunkRow, VersionOf, VersionRow, VersionStatus

-----------------------------------------------------------------------------
(* Type correctness and the agreement of job rows with memory are proved   *)
(* together: that a row exists when process updates it is part of the      *)
(* latter, and only then is the updated row well typed.                    *)

Bookkeeping == TypeOK /\ RowsInStep

LEMMA EndKeepsBookkeeping ==
    ASSUME Bookkeeping, NEW j \in Job, NEW job \in JobRecord,
           NEW w \in Database, w.jobs = db.jobs, usable => w.jobs[j] # Null,
           upload[j] # Null, Settle(j, job), Save(j, job, w),
           memdoc' \in [Tenant -> MemDoc \cup {Null}],
           index' \subseteq ChunkRow, nextId' \in Nat
    PROVE  Bookkeeping'
<1>1. db' \in Database /\ disk' \in Database /\ usable' \in BOOLEAN
  BY SaveTyped DEF Bookkeeping
<1>2. TypeOK'
  BY <1>1, SettleTyped DEF Bookkeeping, TypeOK
<1>3. RowsInStep'
  BY SettleSaveRows DEF Bookkeeping
<1>4. QED
  BY <1>2, <1>3 DEF Bookkeeping

\* A rollback makes the session unusable, so no row is promised any more.
LEMMA RollbackKeepsBookkeeping ==
    ASSUME Bookkeeping, NEW j \in Job, NEW job \in JobRecord,
           upload[j] # Null, Settle(j, job), Rollback,
           memdoc' \in [Tenant -> MemDoc \cup {Null}],
           index' \subseteq ChunkRow, nextId' \in Nat
    PROVE  Bookkeeping'
<1>1. TypeOK'
  BY SettleTyped DEF Bookkeeping, TypeOK, Rollback
<1>2. RowsInStep'
  BY DEF Rollback, RowsInStep
<1>3. QED
  BY <1>1, <1>2 DEF Bookkeeping

\* A queued or suspended job has its record, and its row while the session
\* works.
LEMMA TaskHasRow ==
    ASSUME Bookkeeping, NEW j \in Job, pc[j] \in {"queued", "embedding"}
    PROVE  /\ upload[j] # Null /\ jobs[j] # Null /\ GetJob(j) = jobs[j]
           /\ usable => db.jobs[j] # Null
           /\ db \in Database
  BY DEF Bookkeeping, TypeOK, RowsInStep, GetJob

LEMMA IndexAndSettleKeepsBookkeeping ==
    ASSUME Bookkeeping, NEW j \in Job, pc[j] = "embedding", NEW d \in DocId,
           NEW w \in Database, w.jobs = db.jobs, nextId' \in Nat,
           IndexAndSettle(j, d, w)
    PROVE  Bookkeeping'
<1> DEFINE c == ChunkOf(j, d)
           x == CreateChunks(w, c)
<1>1. c \in ChunkRow /\ Recorded(j) \in MemDoc
      /\ [Recorded(j) EXCEPT !.id = d] \in MemDoc
      /\ upload[j].tenant \in Tenant
  BY PersistedTyped DEF Bookkeeping
<1>2. x \in Database /\ x.jobs = db.jobs
  BY <1>1 DEF CreateChunks, Database
<1>3. upload[j] # Null /\ GetJob(j) # Null /\ (usable => x.jobs[j] # Null)
  BY <1>2, TaskHasRow
<1>4. Succeeded(j, d) \in JobRecord /\ Failed(j, "indexing") \in JobRecord
  BY <1>3, OutcomeTyped DEF Bookkeeping, Stage
<1>5. index \subseteq ChunkRow
      /\ \A rec \in MemDoc :
            Remember(j, rec) => memdoc' \in [Tenant -> MemDoc \cup {Null}]
  BY <1>1 DEF Bookkeeping, TypeOK, Remember
<1> DEFINE written == IF IndexerWired THEN index \cup {c} ELSE index
<1>6. written \subseteq ChunkRow /\ WithoutReplaced(written, j, d) \subseteq ChunkRow
  BY <1>1, <1>5 DEF WithoutReplaced
<1>7. CASE /\ Remember(j, [Recorded(j) EXCEPT !.id = d])
           /\ index' = IF IndexerWired THEN WithoutReplaced(written, j, d) ELSE index
           /\ Settle(j, Succeeded(j, d))
           /\ Save(j, Succeeded(j, d), x)
  <2>1. index' \subseteq ChunkRow /\ memdoc' \in [Tenant -> MemDoc \cup {Null}]
    BY <1>1, <1>5, <1>6, <1>7
  <2> HIDE DEF x, written, c
  <2>2. QED
    BY <1>2, <1>3, <1>4, <1>7, <2>1, EndKeepsBookkeeping
<1>8. CASE /\ Remember(j, Recorded(j))
           /\ index' \in {index, written}
           /\ Settle(j, Failed(j, "indexing"))
           /\ Save(j, Failed(j, "indexing"), x)
  <2>1. index' \subseteq ChunkRow /\ memdoc' \in [Tenant -> MemDoc \cup {Null}]
    BY <1>1, <1>5, <1>6, <1>8
  <2> HIDE DEF x, written, c
  <2>2. QED
    BY <1>2, <1>3, <1>4, <1>8, <2>1, EndKeepsBookkeeping
<1>9. QED
  BY <1>7, <1>8 DEF IndexAndSettle

-----------------------------------------------------------------------------
(* One lemma per group of actions.                                         *)

LEMMA InitBookkeeping == Init => Bookkeeping
  BY ControlPlaneAssumption
     DEF Init, Bookkeeping, TypeOK, RowsInStep, EmptyDatabase, Database

LEMMA SubmitKeepsBookkeeping ==
    ASSUME Bookkeeping, NEW j \in Job, NEW u \in Uploads,
           Submit(j, u) \/ SubmitRefused(j, u)
    PROVE  Bookkeeping'
<1>1. NewJob \in JobRecord /\ NewJob # Null /\ u # Null
  BY ControlPlaneAssumption, IngestionAssumption
     DEF NewJob, JobRecord, Status, Stage
<1>2. CASE Submit(j, u)
  <2>1. db' \in Database /\ db'.jobs = [db.jobs EXCEPT ![j] = NewJob]
    BY <1>1, <1>2 DEF Submit, CreateJob, Database, Bookkeeping, TypeOK
  <2>2. TypeOK'
    BY <1>1, <1>2, <2>1 DEF Submit, Register, Bookkeeping, TypeOK
  <2>3. RowsInStep'
    <3>1. db.jobs \in [Job -> JobRecord \cup {Null}]
      BY DEF Bookkeeping, TypeOK, Database
    <3>2. usable /\ disk' = disk /\ pc' = [pc EXCEPT ![j] = "queued"]
          /\ jobs' = [jobs EXCEPT ![j] = NewJob]
      BY <1>2 DEF Submit, Register
    <3>3. QED
      BY <1>1, <2>1, <3>1, <3>2 DEF Bookkeeping, RowsInStep, TypeOK
  <2>4. QED
    BY <2>2, <2>3 DEF Bookkeeping
<1>3. CASE SubmitRefused(j, u)
  BY <1>1, <1>3
     DEF SubmitRefused, Register, Rollback, Bookkeeping, TypeOK, RowsInStep
<1>4. QED
  BY <1>2, <1>3

\* The ways to fail before anything is persisted.
LEMMA EarlyEndKeepsBookkeeping ==
    ASSUME Bookkeeping, NEW j \in Job,
           SourceMissing(j) \/ InputRejected(j) \/ LookupRaises(j) \/ EmbedRaises(j)
    PROVE  Bookkeeping'
<1>1. pc[j] \in {"queued", "embedding"}
  BY DEF SourceMissing, InputRejected, LookupRaises, EmbedRaises
<1>2. upload[j] # Null /\ GetJob(j) # Null /\ (usable => db.jobs[j] # Null)
      /\ db \in Database
  BY <1>1, TaskHasRow
<1>3. GetJob(j) \in JobRecord
      /\ \A stage \in Stage : Failed(j, stage) \in JobRecord
  BY <1>2, OutcomeTyped DEF Bookkeeping
<1>4. GetJob(j).stage \in Stage
      /\ {"parsing", "chunking", "embedding"} \subseteq Stage
  BY <1>3 DEF JobRecord, Stage
<1>5. UNCHANGED <<memdoc, index, nextId>>
  BY DEF SourceMissing, InputRejected, LookupRaises, EmbedRaises
<1>6. /\ memdoc' \in [Tenant -> MemDoc \cup {Null}]
      /\ index' \subseteq ChunkRow /\ nextId' \in Nat
  BY <1>5 DEF Bookkeeping, TypeOK
<1>7. PICK stage \in Stage :
          Settle(j, Failed(j, stage)) /\ (Save(j, Failed(j, stage), db) \/ Rollback)
  BY <1>4 DEF SourceMissing, InputRejected, LookupRaises, EmbedRaises
<1>8. QED
  BY <1>2, <1>3, <1>6, <1>7, EndKeepsBookkeeping, RollbackKeepsBookkeeping

LEMMA StartKeepsBookkeeping ==
    ASSUME Bookkeeping, NEW j \in Job, Start(j)
    PROVE  Bookkeeping'
<1>1. pc[j] = "queued" /\ upload[j] \in Upload /\ upload[j].tenant \in Tenant
  BY UploadTyped DEF Start, Bookkeeping, TypeOK
<1>2. memdoc[upload[j].tenant] \in MemDoc \cup {Null}
  BY <1>1 DEF Bookkeeping, TypeOK
<1>3. \A e \in Oldest(ActiveDocs(db, upload[j].tenant, upload[j].named)) :
          e \in DocRow
  BY DEF Oldest, ActiveDocs, Bookkeeping, TypeOK, Database
<1>4. \A e \in MemDoc \cup DocRow :
          [id |-> e.id, ver |-> NextVersion(e, upload[j].hash)] \in Draft
  BY DEF NextVersion, MemDoc, DocRow, Draft, Version
<1>5. [id |-> nextId, ver |-> 1] \in Draft
  BY DEF Draft, DocId, Version, Bookkeeping, TypeOK
<1>6. PICK e \in Draft :
          /\ pc' = [pc EXCEPT ![j] = "embedding"]
          /\ draft' = [draft EXCEPT ![j] = e]
          /\ sources' = sources \cup {j}
          /\ nextId' \in {nextId, nextId + 1}
  BY <1>2, <1>3, <1>4, <1>5 DEF Start
<1>7. UNCHANGED <<jobs, payloads, memdoc, storeVars, index, requestVars>>
  BY DEF Start
<1>8. TypeOK'
  BY <1>1, <1>6, <1>7, NullIsNoRecord
     DEF Bookkeeping, TypeOK, storeVars, requestVars
<1>9. RowsInStep'
  BY <1>1, <1>6, <1>7 DEF Bookkeeping, TypeOK, RowsInStep, storeVars
<1>10. QED
  BY <1>8, <1>9 DEF Bookkeeping

\* The database the three ways to persist leave, before the chunks.
Persisted(j, d, w) ==
    \/ /\ d = nextId
       /\ w = ActivateVersion(CreateDocument(db, nextId, upload[j].tenant,
                                             upload[j].hash, upload[j].acl),
                              VersionOf(j, nextId, 1))
    \/ /\ d = draft[j].id /\ ~VersionExists(db, d, draft[j].ver)
       /\ \E r \in Found(j) :
             w = DeleteChunks(ActivateVersion(
                                  CreateVersion(db, d, draft[j].ver,
                                                upload[j].hash, upload[j].acl),
                                  VersionOf(j, d, draft[j].ver)), d, r.ver)
    \/ /\ d = draft[j].id /\ w = db
       /\ \E r \in Found(j) : r.hash = upload[j].hash

\* They end alike, in IndexAndSettle.
LEMMA PersistSteps ==
    ASSUME Bookkeeping, NEW j \in Job,
           PersistNew(j) \/ PersistReplacement(j) \/ PersistSameContent(j)
    PROVE  /\ pc[j] = "embedding" /\ usable
           /\ \E d \in DocId, w \in Database :
                 w.jobs = db.jobs /\ Persisted(j, d, w) /\ IndexAndSettle(j, d, w)
<1> DEFINE u == upload[j]
           d == draft[j].id
           v == draft[j].ver
<1>1. pc[j] = "embedding" /\ usable
  BY DEF PersistNew, PersistReplacement, PersistSameContent
<1>2. /\ u.tenant \in Tenant /\ u.hash \in Content /\ u.acl \in SUBSET Principal
      /\ d \in DocId /\ v \in Version
      /\ \A e \in DocId : \A n \in Version : VersionOf(j, e, n) \in VersionRow
  BY <1>1, PersistedTyped DEF Bookkeeping
<1>3. nextId \in DocId /\ 1 \in Version /\ db \in Database
  BY DEF Bookkeeping, TypeOK, DocId, Version
<1>4. CASE PersistNew(j)
  <2> DEFINE w == CreateDocument(db, nextId, u.tenant, u.hash, u.acl)
             a == ActivateVersion(w, VersionOf(j, nextId, 1))
  <2>1. w \in Database /\ w.jobs = db.jobs
    BY <1>2, <1>3, CallsTyped, JobsKept
  <2>2. a \in Database /\ a.jobs = db.jobs
    BY <1>2, <1>3, <2>1, CallsTyped, JobsKept
  <2>3. IndexAndSettle(j, nextId, a) /\ Persisted(j, nextId, a)
    BY <1>4 DEF PersistNew, Persisted
  <2> HIDE DEF a
  <2>4. QED
    BY <1>1, <1>3, <2>2, <2>3
<1>5. CASE PersistReplacement(j)
  <2> DEFINE w == CreateVersion(db, d, v, u.hash, u.acl)
             a == ActivateVersion(w, VersionOf(j, d, v))
  <2>1. w \in Database /\ w.jobs = db.jobs
    BY <1>2, <1>3, CallsTyped, JobsKept
  <2>2. a \in Database /\ a.jobs = db.jobs
    BY <1>2, <2>1, CallsTyped, JobsKept
  <2>3. PICK r \in Found(j) : /\ ~VersionExists(db, d, v)
                              /\ IndexAndSettle(j, d, DeleteChunks(a, d, r.ver))
    BY <1>5 DEF PersistReplacement
  <2> DEFINE y == DeleteChunks(a, d, r.ver)
  <2>4. y \in Database /\ y.jobs = db.jobs
    BY <2>2 DEF DeleteChunks, Database
  <2>5. Persisted(j, d, y)
    BY <2>3 DEF Persisted
  <2> HIDE DEF y
  <2>6. QED
    BY <1>1, <1>2, <2>3, <2>4, <2>5 DEF y
<1>6. CASE PersistSameContent(j)
  BY <1>1, <1>2, <1>3, <1>6 DEF PersistSameContent, Persisted
<1>7. QED
  BY <1>4, <1>5, <1>6

LEMMA PersistKeepsBookkeeping ==
    ASSUME Bookkeeping, NEW j \in Job,
           \/ PersistNew(j) \/ PersistReplacement(j)
           \/ PersistSameContent(j) \/ PersistRaises(j)
    PROVE  Bookkeeping'
<1>1. CASE PersistNew(j) \/ PersistReplacement(j) \/ PersistSameContent(j)
  <2>1. nextId' \in Nat
    BY <1>1 DEF PersistNew, PersistReplacement, PersistSameContent,
                Bookkeeping, TypeOK
  <2>2. QED
    BY <1>1, <2>1, PersistSteps, IndexAndSettleKeepsBookkeeping
<1>2. CASE PersistRaises(j)
  <2>1. pc[j] = "embedding" /\ upload[j] # Null /\ GetJob(j) # Null
    BY <1>2, TaskHasRow DEF PersistRaises
  <2>2. Failed(j, "indexing") \in JobRecord
    BY <2>1, OutcomeTyped DEF Bookkeeping, Stage
  <2>3. Recorded(j) \in MemDoc /\ upload[j].tenant \in Tenant
    BY <2>1, PersistedTyped DEF Bookkeeping
  <2>4. /\ memdoc' \in [Tenant -> MemDoc \cup {Null}]
        /\ index' \subseteq ChunkRow /\ nextId' \in Nat
    BY <1>2, <2>3 DEF PersistRaises, Remember, Bookkeeping, TypeOK
  <2>5. QED
    BY <1>2, <2>1, <2>2, <2>4, RollbackKeepsBookkeeping DEF PersistRaises
<1>3. QED
  BY <1>1, <1>2

LEMMA CallersKeepBookkeeping ==
    ASSUME Bookkeeping, NEW j \in Job, Retry(j) \/ ResumeLost(j)
    PROVE  Bookkeeping'
<1>1. CASE Retry(j)
  BY <1>1 DEF Retry, storeVars, Bookkeeping, TypeOK, RowsInStep
<1>2. CASE ResumeLost(j)
  <2>1. upload[j] # Null /\ db \in Database /\ db.jobs[j] # Null
    BY <1>2 DEF ResumeLost, Bookkeeping, TypeOK
  <2>2. GetJob(j) # Null
    BY <2>1 DEF GetJob
  <2>3. db.jobs[j].stage \in Stage
    BY <2>1 DEF Database, JobRecord
  <2>4. Failed(j, db.jobs[j].stage) \in JobRecord
    BY <2>2, <2>3, OutcomeTyped DEF Bookkeeping
  <2>5. /\ memdoc' \in [Tenant -> MemDoc \cup {Null}]
        /\ index' \subseteq ChunkRow /\ nextId' \in Nat
    BY <1>2 DEF ResumeLost, Bookkeeping, TypeOK
  <2>6. QED
    BY <1>2, <2>1, <2>4, <2>5, EndKeepsBookkeeping DEF ResumeLost
<1>3. QED
  BY <1>1, <1>2

LEMMA RestartKeepsBookkeeping == Bookkeeping /\ Restart => Bookkeeping'
  BY DEF Restart, Bookkeeping, TypeOK, RowsInStep

LEMMA NextKeepsBookkeeping == Bookkeeping /\ [Next]_vars => Bookkeeping'
<1> SUFFICES ASSUME Bookkeeping, [Next]_vars PROVE Bookkeeping'
  OBVIOUS
<1>1. CASE UNCHANGED vars
  BY <1>1 DEF vars, requestVars, memoryVars, storeVars, Bookkeeping, TypeOK,
              RowsInStep
<1>2. ASSUME NEW j \in Job, NEW u \in Uploads, Submit(j, u) \/ SubmitRefused(j, u)
      PROVE  Bookkeeping'
  BY <1>2, SubmitKeepsBookkeeping
<1>3. ASSUME NEW j \in Job, ProcessStep(j) PROVE Bookkeeping'
  BY <1>3, EarlyEndKeepsBookkeeping, StartKeepsBookkeeping,
     PersistKeepsBookkeeping DEF ProcessStep
<1>4. ASSUME NEW j \in Job, Retry(j) \/ ResumeLost(j) PROVE Bookkeeping'
  BY <1>4, CallersKeepBookkeeping
<1>5. CASE Restart
  BY <1>5, RestartKeepsBookkeeping
<1>6. QED
  BY <1>1, <1>2, <1>3, <1>4, <1>5 DEF Next

\* Every variable of the ingestion service keeps its type, and every task
\* the request, job record and draft its next step reads.
THEOREM TypeCorrect == Spec => []TypeOK
<1>1. Spec => []Bookkeeping
  BY InitBookkeeping, NextKeepsBookkeeping, PTL DEF Spec
<1>2. Bookkeeping => TypeOK
  BY DEF Bookkeeping
<1>3. QED
  BY <1>1, <1>2, PTL

-----------------------------------------------------------------------------
(* Temporary files, and the rows of jobs committed as active.              *)

\* One task's end: what SourceMissing, InputRejected, LookupRaises,
\* EmbedRaises, the Persist actions and ResumeLost have in common.
Ends(j, job, w) ==
    /\ pc[j] \in {"queued", "embedding", "lost"}
    /\ pc[j] = "lost" => usable /\ db.jobs[j] # Null /\ db.jobs[j].status # "active"
    /\ w.jobs = db.jobs
    /\ Settle(j, job)
    /\ Save(j, job, w) \/ Rollback

LEMMA IndexAndSettleEnds ==
    ASSUME Bookkeeping, NEW j \in Job, pc[j] = "embedding", NEW d \in DocId,
           NEW w \in Database, w.jobs = db.jobs, IndexAndSettle(j, d, w)
    PROVE  \E job \in JobRecord, x \in Database : Ends(j, job, x)
<1> DEFINE x == CreateChunks(w, ChunkOf(j, d))
<1>1. ChunkOf(j, d) \in ChunkRow
  BY PersistedTyped DEF Bookkeeping
<1>2. x \in Database /\ x.jobs = db.jobs
  BY <1>1 DEF CreateChunks, Database
<1>3. Succeeded(j, d) \in JobRecord /\ Failed(j, "indexing") \in JobRecord
  BY TaskHasRow, OutcomeTyped DEF Bookkeeping, Stage
<1>4. \/ Settle(j, Succeeded(j, d)) /\ Save(j, Succeeded(j, d), x)
      \/ Settle(j, Failed(j, "indexing")) /\ Save(j, Failed(j, "indexing"), x)
  BY DEF IndexAndSettle
<1> HIDE DEF x
<1>5. QED
  BY <1>2, <1>3, <1>4 DEF Ends

LEMMA StepEnds ==
    ASSUME Bookkeeping, NEW j \in Job,
           \/ SourceMissing(j) \/ InputRejected(j) \/ LookupRaises(j)
           \/ EmbedRaises(j) \/ PersistNew(j) \/ PersistReplacement(j)
           \/ PersistSameContent(j) \/ PersistRaises(j) \/ ResumeLost(j)
    PROVE  \E job \in JobRecord, w \in Database : Ends(j, job, w)
<1>1. db \in Database
  BY DEF Bookkeeping, TypeOK
<1>2. CASE PersistNew(j) \/ PersistReplacement(j) \/ PersistSameContent(j)
  BY <1>2, PersistSteps, IndexAndSettleEnds
<1>3. CASE \/ SourceMissing(j) \/ InputRejected(j) \/ LookupRaises(j)
           \/ EmbedRaises(j) \/ PersistRaises(j)
  <2>1. pc[j] \in {"queued", "embedding"}
    BY <1>3 DEF SourceMissing, InputRejected, LookupRaises, EmbedRaises,
                PersistRaises
  <2>2. GetJob(j) \in JobRecord /\ \A stage \in Stage : Failed(j, stage) \in JobRecord
    BY <2>1, TaskHasRow, OutcomeTyped DEF Bookkeeping
  <2>3. GetJob(j).stage \in Stage
        /\ {"parsing", "chunking", "embedding", "indexing"} \subseteq Stage
    BY <2>2 DEF JobRecord, Stage
  <2>4. PICK stage \in Stage :
            Settle(j, Failed(j, stage)) /\ (Save(j, Failed(j, stage), db) \/ Rollback)
    BY <1>3, <2>3 DEF SourceMissing, InputRejected, LookupRaises, EmbedRaises,
                      PersistRaises
  <2>5. QED
    BY <1>1, <2>1, <2>2, <2>4 DEF Ends
<1>4. CASE ResumeLost(j)
  <2>1. pc[j] = "lost" /\ usable /\ db.jobs[j] # Null /\ db.jobs[j].status # "active"
    BY <1>4 DEF ResumeLost
  <2>2. GetJob(j) # Null /\ db.jobs[j].stage \in Stage
    BY <1>1, <2>1 DEF GetJob, Database, JobRecord
  <2>3. Failed(j, db.jobs[j].stage) \in JobRecord
    BY <2>2, OutcomeTyped DEF Bookkeeping
  <2>4. QED
    BY <1>1, <1>4, <2>1, <2>3 DEF Ends, ResumeLost
<1>5. QED
  BY <1>2, <1>3, <1>4

\* Everything a step of the service can be.
LEMMA StepKinds ==
    ASSUME Bookkeeping, [Next]_vars
    PROVE  \/ UNCHANGED vars
           \/ \E j \in Job, u \in Uploads : Submit(j, u) \/ SubmitRefused(j, u)
           \/ \E j \in Job : Start(j) \/ Retry(j)
           \/ \E j \in Job, job \in JobRecord, w \in Database : Ends(j, job, w)
           \/ Restart
  BY StepEnds DEF Next, ProcessStep

\* The temporary file of a job goes when the job ends, its payload only when
\* it ends active; so a job with a file has a payload.
Temporaries == TemporariesFollowJob /\ sources \subseteq payloads

LEMMA NextKeepsTemporaries ==
    ASSUME Bookkeeping, Temporaries, [Next]_vars
    PROVE  Temporaries'
<1> USE DEF Bookkeeping, TypeOK, Temporaries, TemporariesFollowJob
<1>1. CASE UNCHANGED vars
  BY <1>1 DEF vars, memoryVars
<1>2. ASSUME NEW j \in Job, NEW u \in Uploads, Submit(j, u) \/ SubmitRefused(j, u)
      PROVE  Temporaries'
  BY <1>2 DEF Submit, SubmitRefused, Register
<1>3. ASSUME NEW j \in Job, Start(j) PROVE Temporaries'
  <2>1. /\ j \in payloads
        /\ pc' = [pc EXCEPT ![j] = "embedding"]
        /\ sources' = sources \cup {j}
        /\ UNCHANGED <<jobs, payloads>>
    BY <1>3 DEF Start, HasSource
  <2>2. QED
    BY <2>1
<1>4. ASSUME NEW j \in Job, Retry(j) PROVE Temporaries'
  BY <1>4 DEF Retry
<1>5. ASSUME NEW j \in Job, NEW job \in JobRecord, NEW w, Ends(j, job, w)
      PROVE  Temporaries'
  BY <1>5 DEF Ends, Settle
<1>6. CASE Restart
  BY <1>6 DEF Restart
<1>7. QED
  BY <1>1, <1>2, <1>3, <1>4, <1>5, <1>6, StepKinds

\* A job that ended keeps no temporary file, whatever ended it, and one
\* waiting for the provider has lost neither file nor payload.
THEOREM TemporariesAlways == Spec => []TemporariesFollowJob
<1>1. Init => Temporaries
  BY DEF Init, Temporaries, TemporariesFollowJob
<1>2. Bookkeeping /\ Temporaries /\ [Next]_vars => Temporaries'
  BY NextKeepsTemporaries
<1>3. Temporaries => TemporariesFollowJob
  BY DEF Temporaries
<1>4. QED
  BY <1>1, <1>2, <1>3, InitBookkeeping, NextKeepsBookkeeping, PTL DEF Spec

\* A row the session has and the disk has not is that of a job never
\* committed; and a job that may still be updated is not active in its row.
RowsPending ==
    /\ \A j \in Job : db.jobs[j] = disk.jobs[j] \/ disk.jobs[j] = Null
    /\ \A j \in Job : pc[j] = "none" => db.jobs[j] = Null /\ disk.jobs[j] = Null
    /\ usable => \A j \in Job :
          pc[j] \in {"queued", "embedding"} => db.jobs[j].status # "active"

\* What saving does to the rows: job j's changes, or all are rolled back.
LEMMA SaveJobs ==
    ASSUME Bookkeeping, NEW j \in Job, NEW job \in JobRecord,
           NEW w \in Database, w.jobs = db.jobs, Save(j, job, w) \/ Rollback
    PROVE  \/ /\ usable /\ usable' /\ disk'.jobs = db'.jobs
              /\ db'.jobs = [db.jobs EXCEPT ![j] = [job EXCEPT !.doc = db.jobs[j].doc]]
           \/ disk' = disk /\ db' = disk /\ ~usable'
<1>1. CASE Commit(j, job, w)
  <2>1. UpdateJob(w, j, job).jobs =
            [db.jobs EXCEPT ![j] = [job EXCEPT !.doc = db.jobs[j].doc]]
    BY DEF UpdateJob, Database
  <2>2. QED
    BY <1>1, <2>1 DEF Commit
<1>2. CASE Rollback
  BY <1>2 DEF Rollback
<1>3. QED
  BY <1>1, <1>2 DEF Save

\* No step touches a row committed as active.
Final ==
    \A j \in Job : (disk.jobs[j] # Null /\ disk.jobs[j].status = "active")
                       => disk'.jobs[j] = disk.jobs[j]

LEMMA NextKeepsRowsPending ==
    ASSUME Bookkeeping, RowsPending, [Next]_vars
    PROVE  RowsPending' /\ Final
<1>1. /\ db.jobs \in [Job -> JobRecord \cup {Null}]
      /\ disk.jobs \in [Job -> JobRecord \cup {Null}]
      /\ pc \in [Job -> {"none", "queued", "embedding", "idle", "refused", "lost"}]
      /\ \A j \in Job : usable /\ pc[j] \in {"queued", "embedding"} => db.jobs[j] # Null
  BY DEF Bookkeeping, TypeOK, Database, RowsInStep
<1>2. CASE UNCHANGED vars
  BY <1>2 DEF vars, memoryVars, storeVars, RowsPending, Final
<1>3. ASSUME NEW j \in Job, NEW u \in Uploads, Submit(j, u)
      PROVE  RowsPending' /\ Final
  <2>1. /\ pc[j] = "none" /\ pc' = [pc EXCEPT ![j] = "queued"]
        /\ disk' = disk /\ db'.jobs = [db.jobs EXCEPT ![j] = NewJob]
    BY <1>3 DEF Submit, Register, CreateJob, Bookkeeping, TypeOK, Database
  <2>2. NewJob.status # "active"
    BY DEF NewJob
  <2>3. QED
    BY <1>1, <1>3, <2>1, <2>2 DEF RowsPending, Final, Submit
<1>4. ASSUME NEW j \in Job, NEW u \in Uploads, SubmitRefused(j, u)
      PROVE  RowsPending' /\ Final
  BY <1>1, <1>4 DEF SubmitRefused, Register, Rollback, RowsPending, Final
<1>5. ASSUME NEW j \in Job, Start(j) PROVE RowsPending' /\ Final
  <2>1. pc[j] = "queued" /\ pc' = [pc EXCEPT ![j] = "embedding"]
        /\ UNCHANGED storeVars
    BY <1>5 DEF Start
  <2>2. QED
    BY <1>1, <2>1 DEF storeVars, RowsPending, Final
<1>6. ASSUME NEW j \in Job, Retry(j) PROVE RowsPending' /\ Final
  <2>1. /\ pc[j] = "idle" /\ pc' = [pc EXCEPT ![j] = "queued"]
        /\ UNCHANGED storeVars
        /\ usable => db.jobs[j].status # "active"
    BY <1>6 DEF Retry, Bookkeeping, RowsInStep
  <2>2. QED
    BY <1>1, <2>1 DEF storeVars, RowsPending, Final
<1>7. ASSUME NEW j \in Job, NEW job \in JobRecord, NEW w \in Database,
             Ends(j, job, w)
      PROVE  RowsPending' /\ Final
  <2>1. /\ w.jobs = db.jobs /\ pc' = [pc EXCEPT ![j] = "idle"]
        /\ pc[j] # "none"
        /\ usable => db.jobs[j].status # "active"
    BY <1>7 DEF Ends, Settle, RowsPending
  <2>2. CASE /\ usable /\ usable' /\ disk'.jobs = db'.jobs
             /\ db'.jobs = [db.jobs EXCEPT ![j] = [job EXCEPT !.doc = db.jobs[j].doc]]
    <3>1. \A k \in Job : k # j => db'.jobs[k] = db.jobs[k]
      BY <1>1, <2>2
    <3>2. RowsPending'
      BY <1>1, <2>1, <2>2, <3>1 DEF RowsPending
    <3>3. \A k \in Job : disk.jobs[k] # Null => db.jobs[k] = disk.jobs[k]
      BY DEF RowsPending
    <3>4. Final
      BY <2>1, <2>2, <3>1, <3>3 DEF Final
    <3>5. QED
      BY <3>2, <3>4
  <2>3. CASE disk' = disk /\ db' = disk /\ ~usable'
    BY <1>1, <2>1, <2>3 DEF RowsPending, Final
  <2>4. QED
    BY <1>7, <2>1, <2>2, <2>3, SaveJobs DEF Ends
<1>8. CASE Restart
  BY <1>1, <1>8 DEF Restart, RowsPending, Final
<1>9. QED
  BY <1>2, <1>3, <1>4, <1>5, <1>6, <1>7, <1>8, StepKinds

\* A job committed as active keeps its row for good: no retry, rollback of
\* another job or restart changes it.
THEOREM CommittedIsFinal == Spec => CommittedActiveIsFinal
<1>1. Init => RowsPending
  BY DEF Init, RowsPending, EmptyDatabase
<1>2. Bookkeeping /\ RowsPending /\ [Next]_vars => RowsPending'
  BY NextKeepsRowsPending
<1>3. Bookkeeping /\ RowsPending /\ [Next]_vars
      => [\A j \in Job :
            (disk.jobs[j] # Null /\ disk.jobs[j].status = "active")
                => disk'.jobs[j] = disk.jobs[j]]_vars
  BY NextKeepsRowsPending DEF Final
<1>4. QED
  BY <1>1, <1>2, <1>3, InitBookkeeping, NextKeepsBookkeeping, PTL
     DEF Spec, CommittedActiveIsFinal

\* The records r know of every job that is active in the rows of w.
KnownIn(w, r) ==
    \A j \in Job : (r[j] # Null /\ w.jobs[j] # Null /\ w.jobs[j].status = "active")
                       => r[j].status = "active"

MemoryAhead ==
    /\ \A j \in Job : pc[j] \in {"queued", "embedding"} => jobs[j].status # "active"
    /\ KnownIn(db, jobs)
    /\ KnownIn(disk, jobs)

LEMMA NextKeepsMemoryAhead ==
    ASSUME Bookkeeping, RowsPending, MemoryAhead, [Next]_vars
    PROVE  MemoryAhead'
<1>1. /\ db.jobs \in [Job -> JobRecord \cup {Null}]
      /\ disk.jobs \in [Job -> JobRecord \cup {Null}]
      /\ jobs \in [Job -> JobRecord \cup {Null}]
      /\ pc \in [Job -> {"none", "queued", "embedding", "idle", "refused", "lost"}]
      /\ \A j \in Job : pc[j] \in {"queued", "embedding"} => jobs[j] # Null
  BY DEF Bookkeeping, TypeOK, Database
<1>2. CASE UNCHANGED vars
  BY <1>2 DEF vars, memoryVars, storeVars, MemoryAhead, KnownIn
<1>3. ASSUME NEW j \in Job, NEW u \in Uploads, Submit(j, u) \/ SubmitRefused(j, u)
      PROVE  MemoryAhead'
  <2>1. /\ pc[j] = "none" /\ \A k \in Job : k # j => pc'[k] = pc[k]
        /\ jobs' = [jobs EXCEPT ![j] = NewJob] /\ disk' = disk
        /\ \A k \in Job : k # j => db'.jobs[k] \in {db.jobs[k], disk.jobs[k]}
        /\ disk.jobs[j] = Null
    BY <1>1, <1>3 DEF Submit, SubmitRefused, Register, Rollback, CreateJob,
                      Bookkeeping, TypeOK, Database, RowsPending
  <2>2. NewJob.status # "active"
    BY DEF NewJob
  <2>3. db'.jobs[j] = NewJob \/ db'.jobs[j] = Null
    BY <1>1, <1>3, <2>1 DEF Submit, SubmitRefused, Rollback, CreateJob,
                            Bookkeeping, TypeOK, Database
  <2>4. jobs'[j] = NewJob /\ \A k \in Job : k # j => jobs'[k] = jobs[k]
    BY <1>1, <2>1
  <2>5. QED
    BY <2>1, <2>2, <2>3, <2>4 DEF MemoryAhead, KnownIn
<1>4. ASSUME NEW j \in Job, Start(j) \/ Retry(j) PROVE MemoryAhead'
  <2>1. /\ UNCHANGED <<jobs, db, disk>>
        /\ \A k \in Job : pc'[k] = pc[k] \/ k = j
        /\ pc[j] \in {"queued", "embedding"} \/ jobs[j].status = "failed"
    BY <1>1, <1>4 DEF Start, Retry, storeVars
  <2>2. QED
    BY <2>1 DEF MemoryAhead, KnownIn
<1>5. ASSUME NEW j \in Job, NEW job \in JobRecord, NEW w \in Database,
             Ends(j, job, w)
      PROVE  MemoryAhead'
  <2>1. /\ w.jobs = db.jobs /\ pc'[j] = "idle" /\ jobs'[j] = job
        /\ \A k \in Job : k # j => pc'[k] = pc[k] /\ jobs'[k] = jobs[k]
    BY <1>1, <1>5 DEF Ends, Settle
  <2>2. CASE /\ usable /\ usable' /\ disk'.jobs = db'.jobs
             /\ db'.jobs = [db.jobs EXCEPT ![j] = [job EXCEPT !.doc = db.jobs[j].doc]]
    <3>1. /\ \A k \in Job : k # j => db'.jobs[k] = db.jobs[k]
          /\ db'.jobs[j].status = job.status
      BY <1>1, <2>2 DEF JobRecord
    <3>2. QED
      BY <2>1, <2>2, <3>1 DEF MemoryAhead, KnownIn
  <2>3. CASE disk' = disk /\ db' = disk /\ ~usable'
    <3>1. disk.jobs[j] = Null \/ disk.jobs[j].status # "active"
      BY <1>1, <1>5 DEF Ends, MemoryAhead, KnownIn, RowsPending
    <3>2. QED
      BY <2>1, <2>3, <3>1 DEF MemoryAhead, KnownIn
  <2>4. QED
    BY <1>5, <2>1, <2>2, <2>3, SaveJobs DEF Ends
<1>6. CASE Restart
  <2>1. \A j \in Job : jobs'[j] = Null /\ pc'[j] \notin {"queued", "embedding"}
    BY <1>6 DEF Restart
  <2>2. QED
    BY <2>1 DEF MemoryAhead, KnownIn
<1>7. QED
  BY <1>2, <1>3, <1>4, <1>5, <1>6, StepKinds

\* While the session works, the durable job rows say what get_job answers
\* from memory, and afterwards no row is ahead of it, for any number of jobs,
\* faults, retries and restarts.
THEOREM RowsAgree == Spec => []RowsFollowMemory
<1>1. Init => RowsPending /\ MemoryAhead
  BY DEF Init, RowsPending, MemoryAhead, KnownIn, EmptyDatabase
<1>2. Bookkeeping /\ RowsPending /\ MemoryAhead /\ [Next]_vars
          => RowsPending' /\ MemoryAhead'
  BY NextKeepsRowsPending, NextKeepsMemoryAhead
<1>3. Bookkeeping /\ MemoryAhead => RowsFollowMemory
  BY DEF Bookkeeping, MemoryAhead, KnownIn, RowsFollowMemory
<1>4. QED
  BY <1>1, <1>2, <1>3, InitBookkeeping, NextKeepsBookkeeping, PTL DEF Spec

-----------------------------------------------------------------------------
(* What is committed.  The job rows aside, the session's view and the      *)
(* durable tables are the same between steps: every segment that writes    *)
(* documents, versions or chunks also ends with the commit or the rollback *)
(* of everything.  That is what makes the properties of the durable tables *)
(* inductive, together with their keys and with ids never drawn twice.     *)

Agree(x, y) == x.docs = y.docs /\ x.versions = y.versions /\ x.chunks = y.chunks

Searchable(w) ==
    \A r \in w.docs : \E c \in w.chunks : c.doc = r.id /\ c.hash = r.hash

Durable ==
    /\ Agree(db, disk)
    /\ Consistent(disk)
    /\ IdsBelow(disk, nextId)
    /\ Searchable(disk)

\* A save commits the tables of the database it is given, or nothing.
LEMMA SaveTables ==
    ASSUME Bookkeeping, Durable, NEW j \in Job, NEW job, NEW w \in Database,
           Save(j, job, w) \/ Rollback
    PROVE  Agree(db', disk') /\ (Agree(disk', w) \/ Agree(disk', disk))
<1>1. CASE Commit(j, job, w)
  <2>1. Agree(UpdateJob(w, j, job), w)
    BY DEF Agree, UpdateJob, Database
  <2>2. QED
    BY <1>1, <2>1 DEF Commit, Agree
<1>2. CASE Rollback
  BY <1>2 DEF Rollback, Agree
<1>3. QED
  BY <1>1, <1>2 DEF Save

\* Tables that agree are as good as each other.
LEMMA AgreeDurable ==
    ASSUME NEW x, NEW y, NEW n, Agree(x, y)
    PROVE  /\ Consistent(x) <=> Consistent(y)
           /\ Searchable(x) <=> Searchable(y)
           /\ IdsBelow(x, n) <=> IdsBelow(y, n)
  BY DEF Agree, Consistent, Typed, KeysUnique, Mirrors, Searchable, IdsBelow

\* What one step may do to the durable tables: nothing; add a document under
\* a new id with version 1 and its chunks; add a version to a document and
\* activate it, its chunks in place of the ones of the version left; or
\* write the missing chunks of a document.  n is the first id not drawn
\* before the step, m after it.
Created(w, x, n) ==
    \E t \in Tenant, h \in Content, a \in SUBSET Principal :
        LET rec == [doc |-> n, ver |-> 1, hash |-> h, acl |-> a,
                    status |-> "pending"]
            y   == ActivateVersion(CreateDocument(w, n, t, h, a), rec)
        IN  \E v \in Version :
                Agree(x, CreateChunks(y, [doc |-> n, ver |-> v, hash |-> h]))

Replaced(w, x) ==
    \E old \in w.docs, v \in Version, h \in Content, a \in SUBSET Principal :
        LET rec == [doc |-> old.id, ver |-> v, hash |-> h, acl |-> a,
                    status |-> "pending"]
            y   == ActivateVersion(CreateVersion(w, old.id, v, h, a), rec)
            z   == DeleteChunks(y, old.id, old.ver)
        IN  /\ ~VersionExists(w, old.id, v)
            /\ Agree(x, CreateChunks(z, [doc |-> old.id, ver |-> v, hash |-> h]))

Rewritten(w, x) == \E c \in ChunkRow : Agree(x, CreateChunks(w, c))

DurableStep(w, x, n, m) ==
    \/ Agree(x, w)
    \/ Created(w, x, n) /\ m = n + 1
    \/ Replaced(w, x)
    \/ Rewritten(w, x)

LEMMA CreatedKeeps ==
    ASSUME NEW w \in Database, NEW n \in DocId, NEW x, Consistent(w),
           Searchable(w), IdsBelow(w, n), Created(w, x, n)
    PROVE  Consistent(x) /\ Searchable(x) /\ IdsBelow(x, n + 1)
<1>1. PICK t \in Tenant, h \in Content, a \in SUBSET Principal, v \in Version :
          LET rec == [doc |-> n, ver |-> 1, hash |-> h, acl |-> a,
                      status |-> "pending"]
              y   == ActivateVersion(CreateDocument(w, n, t, h, a), rec)
          IN  Agree(x, CreateChunks(y, [doc |-> n, ver |-> v, hash |-> h]))
  BY DEF Created
<1> DEFINE rec == [doc |-> n, ver |-> 1, hash |-> h, acl |-> a, status |-> "pending"]
           c == CreateDocument(w, n, t, h, a)
           y == ActivateVersion(c, rec)
           k == [doc |-> n, ver |-> v, hash |-> h]
           z == CreateChunks(y, k)
<1>2. Agree(x, z)
  BY <1>1
<1>3. /\ Consistent(y)
      /\ y.docs = w.docs \cup {[id |-> n, tenant |-> t, hash |-> h,
                                ver |-> 1, acl |-> a]}
      /\ y.versions = w.versions \cup {[rec EXCEPT !.status = "active"]}
  BY CreateActivateConsistent
<1>4. y \in Database /\ y.chunks = w.chunks
  <2>1. rec \in VersionRow /\ 1 \in Version
    BY DEF VersionRow, VersionStatus, Version
  <2>2. c \in Database /\ c.chunks = w.chunks
    BY <2>1, CallsTyped DEF CreateDocument, Database
  <2> HIDE DEF c, rec
  <2>3. y \in Database /\ y.chunks = c.chunks
    BY <2>1, <2>2, ActivateTyped
  <2>4. QED
    BY <2>2, <2>3
<1>5. [rec EXCEPT !.status = "active"].doc = n
  OBVIOUS
<1>6. z.docs = y.docs /\ z.versions = y.versions /\ z.chunks = w.chunks \cup {k}
  BY <1>4 DEF CreateChunks, Database
<1>7. k.doc = n /\ k.hash = h
  OBVIOUS
<1> HIDE DEF rec, c, y, k, z
<1>8. Consistent(x)
  BY <1>2, <1>3, <1>6 DEF Agree, Consistent, Typed, KeysUnique, Mirrors
<1>9. Searchable(x)
  BY <1>2, <1>3, <1>6, <1>7 DEF Agree, Searchable
<1>10. IdsBelow(x, n + 1)
  BY <1>2, <1>3, <1>5, <1>6
     DEF Agree, IdsBelow, Consistent, Typed, DocRow, VersionRow, DocId
<1>11. QED
  BY <1>8, <1>9, <1>10

LEMMA ReplacedKeeps ==
    ASSUME NEW w \in Database, NEW n \in DocId, NEW x, Consistent(w),
           Searchable(w), IdsBelow(w, n), Replaced(w, x)
    PROVE  Consistent(x) /\ Searchable(x) /\ IdsBelow(x, n)
<1>1. PICK old \in w.docs, v \in Version, h \in Content, a \in SUBSET Principal :
          LET rec == [doc |-> old.id, ver |-> v, hash |-> h, acl |-> a,
                      status |-> "pending"]
              y   == ActivateVersion(CreateVersion(w, old.id, v, h, a), rec)
              z   == DeleteChunks(y, old.id, old.ver)
          IN  /\ ~VersionExists(w, old.id, v)
              /\ Agree(x, CreateChunks(z, [doc |-> old.id, ver |-> v, hash |-> h]))
  BY DEF Replaced
<1>0. PICK d \in DocId : d = old.id
  BY DEF Consistent, Typed, DocRow
<1> DEFINE rec == [doc |-> d, ver |-> v, hash |-> h, acl |-> a, status |-> "pending"]
           c == CreateVersion(w, d, v, h, a)
           y == ActivateVersion(c, rec)
           k == [doc |-> d, ver |-> v, hash |-> h]
           z == CreateChunks(DeleteChunks(y, d, old.ver), k)
           new == [old EXCEPT !.ver = v, !.hash = h, !.acl = a]
<1>2. Agree(x, z) /\ ~VersionExists(w, d, v)
  BY <1>0, <1>1
<1>3. d \in DocId /\ old.id = d /\ new.id = d /\ new.hash = h
  BY <1>0 DEF Consistent, Typed, DocRow
<1>4. /\ Consistent(y)
      /\ y.docs = (w.docs \ {old}) \cup {new}
      /\ y.versions = {Activated(r, d, v) : r \in w.versions} \cup
                      {[rec EXCEPT !.status = "active"]}
  <2>1. Consistent(y) /\ Superseded(w, y, old, rec)
    BY <1>2, <1>3, CreateVersionActivateConsistent
  <2>2. QED
    BY <2>1 DEF Superseded
<1>5. y \in Database /\ y.chunks = w.chunks
  <2>1. rec \in VersionRow
    BY <1>3 DEF VersionRow, VersionStatus
  <2>2. c \in Database /\ c.chunks = w.chunks
    BY <1>3 DEF CreateVersion, Database, VersionRow, VersionStatus
  <2> HIDE DEF c, rec
  <2>3. y \in Database /\ y.chunks = c.chunks
    BY <2>1, <2>2, ActivateTyped
  <2>4. QED
    BY <2>2, <2>3
<1>6. [rec EXCEPT !.status = "active"].doc = d
  OBVIOUS
<1>7. /\ z.docs = y.docs /\ z.versions = y.versions
      /\ z.chunks = {e \in w.chunks : ~(e.doc = d /\ e.ver = old.ver)} \cup {k}
  BY <1>5 DEF CreateChunks, DeleteChunks, Database
<1>8. k.doc = d /\ k.hash = h
  OBVIOUS
<1>9. \A r \in w.versions : Activated(r, d, v).doc = r.doc
  BY DEF Activated, Consistent, Typed, VersionRow
<1>10. \A r \in w.docs : r # old => r.id # d
  BY <1>0 DEF Consistent, KeysUnique
<1> HIDE DEF rec, c, y, k, z, new
<1>11. Consistent(x)
  BY <1>2, <1>4, <1>7 DEF Agree, Consistent, Typed, KeysUnique, Mirrors
<1>12. Searchable(x)
  BY <1>2, <1>3, <1>4, <1>7, <1>8, <1>10 DEF Agree, Searchable
<1>13. IdsBelow(x, n)
  <2>1. d < n /\ (\A r \in x.docs : r \in w.docs \/ r.id = d)
    BY <1>2, <1>3, <1>4, <1>7 DEF Agree, IdsBelow
  <2>2. \A r \in x.versions : r.doc = d \/ \E q \in w.versions : q.doc = r.doc
    <3>1. x.versions = {Activated(r, d, v) : r \in w.versions} \cup
                       {[rec EXCEPT !.status = "active"]}
      BY <1>2, <1>4, <1>7 DEF Agree
    <3>2. \A r \in x.versions : \/ r = [rec EXCEPT !.status = "active"]
                                \/ \E q \in w.versions : r = Activated(q, d, v)
      BY ONLY <3>1
    <3>3. ASSUME NEW q \in w.versions PROVE Activated(q, d, v).doc = q.doc
      BY <1>9, <3>3
    <3>4. QED
      BY ONLY <1>6, <3>2, <3>3
  <2>3. \A r \in x.docs : r.id < n
    BY <2>1 DEF IdsBelow
  <2>4. \A r \in x.versions : r.doc < n
    BY <2>1, <2>2 DEF IdsBelow
  <2>5. QED
    BY <2>3, <2>4 DEF IdsBelow
<1>14. QED
  BY <1>11, <1>12, <1>13

LEMMA DurableStepKeeps ==
    ASSUME NEW w \in Database, NEW n \in DocId, NEW x, Consistent(w),
           Searchable(w), IdsBelow(w, n),
           NEW m \in DocId, m >= n, DurableStep(w, x, n, m)
    PROVE  Consistent(x) /\ Searchable(x) /\ IdsBelow(x, m)
<1>1. CASE Agree(x, w)
  <2>1. Consistent(x) /\ Searchable(x) /\ IdsBelow(x, n)
    BY <1>1, AgreeDurable
  <2>2. QED
    BY <1>1, <2>1 DEF IdsBelow, Consistent, Typed, DocRow, VersionRow, DocId
<1>2. CASE Created(w, x, n) /\ m = n + 1
  BY <1>2, CreatedKeeps
<1>3. CASE Replaced(w, x)
  <2>1. Consistent(x) /\ Searchable(x) /\ IdsBelow(x, n)
    BY <1>3, ReplacedKeeps
  <2>2. QED
    BY <2>1 DEF IdsBelow, Consistent, Typed, DocRow, VersionRow, DocId
<1>4. CASE Rewritten(w, x)
  <2>1. PICK c \in ChunkRow : Agree(x, CreateChunks(w, c))
    BY <1>4 DEF Rewritten
  <2>2. x.docs = w.docs /\ x.versions = w.versions /\ w.chunks \subseteq x.chunks
    BY <2>1 DEF Agree, CreateChunks, Database
  <2>3. Consistent(x) /\ Searchable(x)
    BY <2>2 DEF Consistent, Typed, KeysUnique, Mirrors, Searchable
  <2>4. IdsBelow(x, m)
    BY <2>2 DEF IdsBelow, Consistent, Typed, DocRow, VersionRow, DocId
  <2>5. QED
    BY <2>3, <2>4
<1>5. QED
  BY <1>1, <1>2, <1>3, <1>4 DEF DurableStep

\* The second segment of process, ending in IndexAndSettle on the tables w,
\* commits w with the job's chunks or nothing.
LEMMA IndexAndSettleTables ==
    ASSUME Bookkeeping, Durable, NEW j \in Job, pc[j] = "embedding",
           NEW d \in DocId, NEW w \in Database, IndexAndSettle(j, d, w)
    PROVE  /\ Agree(db', disk')
           /\ \/ Agree(disk', CreateChunks(w, ChunkOf(j, d)))
              \/ Agree(disk', db)
<1> DEFINE x == CreateChunks(w, ChunkOf(j, d))
<1>1. ChunkOf(j, d) \in ChunkRow
  BY PersistedTyped DEF Bookkeeping
<1>2. x \in Database
  BY <1>1 DEF CreateChunks, Database
<1>3. \E job : Save(j, job, x)
  BY DEF IndexAndSettle
<1> HIDE DEF x
<1>4. Agree(db', disk') /\ (Agree(disk', x) \/ Agree(disk', disk))
  BY <1>2, <1>3, SaveTables
<1>5. QED
  BY <1>4 DEF x, Durable, Agree

LEMMA PersistDurableStep ==
    ASSUME Bookkeeping, Durable, NEW j \in Job,
           \/ PersistNew(j) \/ PersistReplacement(j)
           \/ PersistSameContent(j) \/ PersistRaises(j)
    PROVE  /\ Agree(db', disk') /\ DurableStep(db, disk', nextId, nextId')
           /\ nextId' \in DocId /\ nextId' >= nextId
<1> DEFINE u == upload[j]
           d == draft[j].id
           v == draft[j].ver
<1>1. pc[j] = "embedding"
  BY DEF PersistNew, PersistReplacement, PersistSameContent, PersistRaises
<1>2. /\ u.tenant \in Tenant /\ u.hash \in Content /\ u.acl \in SUBSET Principal
      /\ d \in DocId /\ v \in Version
      /\ \A e \in DocId : ChunkOf(j, e) \in ChunkRow
      /\ \A e \in DocId : \A n \in Version : VersionOf(j, e, n) \in VersionRow
  BY <1>1, PersistedTyped DEF Bookkeeping
<1>3. nextId \in DocId /\ nextId + 1 \in DocId /\ 1 \in Version /\ db \in Database
  BY DEF Bookkeeping, TypeOK, DocId, Version
<1>4. CASE PersistNew(j)
  <2> DEFINE w == CreateDocument(db, nextId, u.tenant, u.hash, u.acl)
             a == ActivateVersion(w, VersionOf(j, nextId, 1))
             k == ChunkOf(j, nextId)
  <2>1. a \in Database
    BY <1>2, <1>3, CallsTyped
  <2>2. IndexAndSettle(j, nextId, a) /\ nextId' = nextId + 1
    BY <1>4 DEF PersistNew
  <2>3. Agree(disk', CreateChunks(a, k)) => Created(db, disk', nextId)
    BY <1>2 DEF Created, VersionOf, ChunkOf
  <2> HIDE DEF a
  <2>4. /\ Agree(db', disk')
        /\ Agree(disk', CreateChunks(a, k)) \/ Agree(disk', db)
    BY <1>1, <1>3, <2>1, <2>2, IndexAndSettleTables
  <2>5. QED
    BY <1>3, <2>2, <2>3, <2>4 DEF DurableStep, DocId
<1>5. CASE PersistReplacement(j)
  <2> DEFINE w == CreateVersion(db, d, v, u.hash, u.acl)
             a == ActivateVersion(w, VersionOf(j, d, v))
  <2>1. a \in Database
    BY <1>2, <1>3, CallsTyped
  <2>2. PICK r \in Found(j) :
            ~VersionExists(db, d, v) /\ IndexAndSettle(j, d, DeleteChunks(a, d, r.ver))
    BY <1>5 DEF PersistReplacement
  <2>3. r \in db.docs /\ r.id = d
    BY <2>2 DEF Found, Visible
  <2> DEFINE y == DeleteChunks(a, d, r.ver)
  <2>4. y \in Database
    BY <2>1 DEF DeleteChunks, Database
  <2>5. Agree(disk', CreateChunks(y, ChunkOf(j, d))) => Replaced(db, disk')
    BY <1>2, <2>2, <2>3 DEF Replaced, VersionOf, ChunkOf
  <2> HIDE DEF y, a
  <2>6. /\ Agree(db', disk')
        /\ Agree(disk', CreateChunks(y, ChunkOf(j, d))) \/ Agree(disk', db)
    BY <1>1, <1>2, <2>2, <2>4, IndexAndSettleTables DEF y
  <2>7. nextId' = nextId
    BY <1>5 DEF PersistReplacement
  <2>8. QED
    BY <1>3, <2>5, <2>6, <2>7 DEF DurableStep, DocId
<1>6. CASE PersistSameContent(j)
  <2>1. IndexAndSettle(j, d, db) /\ nextId' = nextId
    BY <1>6 DEF PersistSameContent
  <2>2. /\ Agree(db', disk')
        /\ Agree(disk', CreateChunks(db, ChunkOf(j, d))) \/ Agree(disk', db)
    BY <1>1, <1>2, <1>3, <2>1, IndexAndSettleTables
  <2>3. QED
    BY <1>2, <1>3, <2>1, <2>2 DEF DurableStep, Rewritten, DocId
<1>7. CASE PersistRaises(j)
  BY <1>3, <1>7 DEF PersistRaises, Rollback, DurableStep, Durable, Agree, DocId
<1>8. QED
  BY <1>4, <1>5, <1>6, <1>7

\* Every other step leaves the durable tables alone.
LEMMA NextDurableStep ==
    ASSUME Bookkeeping, Durable, [Next]_vars
    PROVE  /\ Agree(db', disk') /\ DurableStep(db, disk', nextId, nextId')
           /\ nextId' \in DocId /\ nextId' >= nextId
<1>1. Agree(db, disk) /\ Agree(disk, db)
  BY DEF Durable, Agree
<1>2. nextId \in DocId /\ nextId + 1 \in DocId /\ nextId + 1 >= nextId
      /\ nextId >= nextId /\ db \in Database
  BY DEF Bookkeeping, TypeOK, DocId
<1>3. CASE UNCHANGED vars
  BY <1>1, <1>2, <1>3 DEF vars, storeVars, DurableStep
<1>4. ASSUME NEW j \in Job, NEW u \in Uploads, Submit(j, u) \/ SubmitRefused(j, u)
      PROVE  /\ Agree(db', disk') /\ DurableStep(db, disk', nextId, nextId')
             /\ nextId' \in DocId /\ nextId' >= nextId
  <2>1. nextId' = nextId /\ disk' = disk
    BY <1>4 DEF Submit, SubmitRefused, Register, Rollback
  <2>2. CASE Submit(j, u)
    <3>1. Agree(db', disk')
      BY <1>1, <1>2, <2>1, <2>2 DEF Submit, CreateJob, Agree, Database
    <3>2. QED
      BY <1>1, <1>2, <2>1, <3>1 DEF DurableStep
  <2>3. CASE SubmitRefused(j, u)
    BY <1>1, <1>2, <2>1, <2>3 DEF SubmitRefused, Rollback, DurableStep, Agree
  <2>4. QED
    BY <1>4, <2>2, <2>3
<1>5. ASSUME NEW j \in Job,
             \/ SourceMissing(j) \/ InputRejected(j) \/ LookupRaises(j)
             \/ EmbedRaises(j) \/ ResumeLost(j)
      PROVE  /\ Agree(db', disk') /\ DurableStep(db, disk', nextId, nextId')
             /\ nextId' \in DocId /\ nextId' >= nextId
  <2>1. nextId' = nextId /\ ((\E job : Save(j, job, db)) \/ Rollback)
    BY <1>5 DEF SourceMissing, InputRejected, LookupRaises, EmbedRaises, ResumeLost
  <2>2. Agree(db', disk') /\ (Agree(disk', db) \/ Agree(disk', disk))
    BY <1>2, <2>1, SaveTables
  <2>3. Agree(disk', db)
    BY <1>1, <2>2 DEF Agree
  <2>4. QED
    BY <1>2, <2>1, <2>2, <2>3 DEF DurableStep
<1>6. ASSUME NEW j \in Job, Start(j) \/ Retry(j)
      PROVE  /\ Agree(db', disk') /\ DurableStep(db, disk', nextId, nextId')
             /\ nextId' \in DocId /\ nextId' >= nextId
  <2>1. UNCHANGED storeVars /\ nextId' \in {nextId, nextId + 1}
    BY <1>6 DEF Start, Retry
  <2>2. QED
    BY <1>1, <1>2, <2>1 DEF storeVars, DurableStep
<1>7. CASE Restart
  BY <1>1, <1>2, <1>7 DEF Restart, DurableStep, Agree
<1>8. QED
  BY <1>3, <1>4, <1>5, <1>6, <1>7, PersistDurableStep DEF Next, ProcessStep

LEMMA NextKeepsDurable == Bookkeeping /\ Durable /\ [Next]_vars => Durable'
<1> SUFFICES ASSUME Bookkeeping, Durable, [Next]_vars PROVE Durable'
  OBVIOUS
<1>1. /\ Agree(db', disk') /\ DurableStep(db, disk', nextId, nextId')
      /\ nextId' \in DocId /\ nextId' >= nextId
  BY NextDurableStep
<1>2. /\ db \in Database /\ nextId \in DocId
      /\ Consistent(db) /\ Searchable(db) /\ IdsBelow(db, nextId)
  BY AgreeDurable DEF Durable, Bookkeeping, TypeOK, DocId
<1>3. Consistent(disk') /\ Searchable(disk') /\ IdsBelow(disk', nextId')
  BY <1>1, <1>2, DurableStepKeeps
<1>4. QED
  BY <1>1, <1>3 DEF Durable, Consistent, Typed, KeysUnique, Mirrors,
                    Searchable, IdsBelow

LEMMA InitDurable == Init => Durable
  BY DEF Init, Durable, EmptyDatabase, Agree, Consistent, Typed, KeysUnique,
         Mirrors, IdsBelow, Searchable

LEMMA DurableAlways == Spec => [](Bookkeeping /\ Durable)
  BY InitBookkeeping, NextKeepsBookkeeping, InitDurable, NextKeepsDurable, PTL
     DEF Spec

\* A committed document has exactly one active version, the one its own row
\* shows, whatever interleaving, fault or restart came before.
THEOREM MirrorsAlways == Spec => []DocumentMirrorsActiveVersion
<1>1. Bookkeeping /\ Durable => DocumentMirrorsActiveVersion
  <2> SUFFICES ASSUME Durable, NEW r \in disk.docs
               PROVE  Active(disk, r.id) =
                        {[doc |-> r.id, ver |-> r.ver, hash |-> r.hash,
                          acl |-> r.acl, status |-> "active"]}
    BY DEF DocumentMirrorsActiveVersion
  <2> DEFINE m == [doc |-> r.id, ver |-> r.ver, hash |-> r.hash, acl |-> r.acl,
                   status |-> "active"]
  <2>1. m \in disk.versions
    BY DEF Durable, Consistent, Mirrors
  <2>2. m.doc = r.id /\ m.ver = r.ver /\ m.status = "active"
    OBVIOUS
  <2> HIDE DEF m
  <2>3. ASSUME NEW v \in disk.versions, v.doc = r.id, v.status = "active"
        PROVE  v = m
    BY <2>1, <2>2, <2>3 DEF Durable, Consistent, Mirrors, KeysUnique
  <2>4. Active(disk, r.id) = {m}
    BY <2>1, <2>2, <2>3 DEF Active
  <2>5. QED
    BY <2>4 DEF m
<1>2. QED
  BY <1>1, DurableAlways, PTL

\* A committed document always has chunks of the content it shows: replacing
\* never deletes what it is about to write.
THEOREM SearchableAlways == Spec => []EveryDocumentSearchable
<1>1. Bookkeeping /\ Durable => EveryDocumentSearchable
  BY DEF Durable, Searchable, EveryDocumentSearchable
<1>2. QED
  BY <1>1, DurableAlways, PTL

-----------------------------------------------------------------------------
(* What job records and memory say of the committed tables.                *)

\* The tables w hold content h as a version of document d that was, or is,
\* the active one; and they show h as the content of t's document d.
PublishedAs(w, d, h) ==
    \E v \in w.versions : v.doc = d /\ v.hash = h /\ v.status # "pending"

Shows(w, t, d, h) ==
    \E r \in w.docs : r.id = d /\ r.tenant = t /\ r.hash = h

\* Persisting publishes the upload's content as its tenant's document, keeps
\* what was published, and what is shown of other tenants' documents.
PersistsWell(j, d, w) ==
    /\ PublishedAs(w, d, upload[j].hash)
    /\ Shows(w, upload[j].tenant, d, upload[j].hash)
    /\ \A e, h : PublishedAs(db, e, h) => PublishedAs(w, e, h)
    /\ \A t, e, h : t # upload[j].tenant /\ Shows(db, t, e, h) => Shows(w, t, e, h)

LEMMA PersistNewPublishes ==
    ASSUME Bookkeeping, Durable, NEW j \in Job, pc[j] = "embedding", NEW w,
           w = ActivateVersion(CreateDocument(db, nextId, upload[j].tenant,
                                              upload[j].hash, upload[j].acl),
                               VersionOf(j, nextId, 1))
    PROVE  PersistsWell(j, nextId, w)
<1> DEFINE u == upload[j]
           rec == [doc |-> nextId, ver |-> 1, hash |-> u.hash, acl |-> u.acl,
                   status |-> "pending"]
           row == [id |-> nextId, tenant |-> u.tenant, hash |-> u.hash,
                   ver |-> 1, acl |-> u.acl]
           act == [rec EXCEPT !.status = "active"]
<1>1. u.tenant \in Tenant /\ u.hash \in Content /\ u.acl \in SUBSET Principal
  BY PersistedTyped DEF Bookkeeping
<1>2. /\ db \in Database /\ nextId \in DocId
      /\ Consistent(db) /\ IdsBelow(db, nextId)
  BY AgreeDurable DEF Durable, Bookkeeping, TypeOK, DocId
<1>3. VersionOf(j, nextId, 1) = rec
  BY DEF VersionOf
<1>4. w.docs = db.docs \cup {row} /\ w.versions = db.versions \cup {act}
  <2> HIDE DEF rec
  <2>1. w = ActivateVersion(CreateDocument(db, nextId, u.tenant, u.hash, u.acl), rec)
    BY <1>3
  <2>2. rec = [doc |-> nextId, ver |-> 1, hash |-> u.hash, acl |-> u.acl,
               status |-> "pending"]
    BY DEF rec
  <2>3. QED
    BY <1>1, <1>2, <2>1, <2>2, CreateActivateConsistent
<1>5. /\ row.id = nextId /\ row.tenant = u.tenant /\ row.hash = u.hash
      /\ act.doc = nextId /\ act.hash = u.hash /\ act.status # "pending"
  OBVIOUS
<1> HIDE DEF row, act, rec
<1>6. QED
  BY <1>4, <1>5 DEF PersistsWell, PublishedAs, Shows

LEMMA PersistReplacementPublishes ==
    ASSUME Bookkeeping, Durable, NEW j \in Job, pc[j] = "embedding",
           ~VersionExists(db, draft[j].id, draft[j].ver),
           NEW r \in Found(j), NEW w,
           w = DeleteChunks(ActivateVersion(
                   CreateVersion(db, draft[j].id, draft[j].ver,
                                 upload[j].hash, upload[j].acl),
                   VersionOf(j, draft[j].id, draft[j].ver)), draft[j].id, r.ver)
    PROVE  PersistsWell(j, draft[j].id, w)
<1> DEFINE u == upload[j]
           d == draft[j].id
           v == draft[j].ver
           rec == [doc |-> d, ver |-> v, hash |-> u.hash, acl |-> u.acl,
                   status |-> "pending"]
           new == [r EXCEPT !.ver = v, !.hash = u.hash, !.acl = u.acl]
           act == [rec EXCEPT !.status = "active"]
           y == ActivateVersion(CreateVersion(db, d, v, u.hash, u.acl), rec)
<1>1. /\ u.tenant \in Tenant /\ u.hash \in Content /\ u.acl \in SUBSET Principal
      /\ d \in DocId /\ v \in Version
  BY PersistedTyped DEF Bookkeeping
<1>2. db \in Database /\ Consistent(db)
  BY AgreeDurable DEF Durable, Bookkeeping, TypeOK, DocId
<1>3. r \in db.docs /\ r.id = d /\ r.tenant = u.tenant
  BY DEF Found, Visible
<1>4. w = DeleteChunks(y, d, r.ver)
  BY DEF VersionOf
<1>5. Superseded(db, y, r, rec)
  BY <1>1, <1>2, <1>3, CreateVersionActivateConsistent
<1>6. w.docs = y.docs /\ w.versions = y.versions
  BY <1>2, <1>4 DEF DeleteChunks, ActivateVersion, CreateVersion, Database
<1>7. /\ w.docs = (db.docs \ {r}) \cup {new}
      /\ w.versions = {Activated(x, d, v) : x \in db.versions} \cup {act}
  <2>1. rec.doc = d /\ rec.ver = v /\ rec.hash = u.hash /\ rec.acl = u.acl
    OBVIOUS
  <2> HIDE DEF rec, y
  <2>2. QED
    BY <1>5, <1>6, <2>1 DEF Superseded
<1>8. /\ new.id = d /\ new.tenant = u.tenant /\ new.hash = u.hash
      /\ act.doc = d /\ act.hash = u.hash /\ act.status # "pending"
  BY <1>2, <1>3 DEF Consistent, Typed, DocRow
<1>9. \A x \in db.versions :
          /\ Activated(x, d, v).doc = x.doc /\ Activated(x, d, v).hash = x.hash
          /\ x.status # "pending" => Activated(x, d, v).status # "pending"
  BY <1>2 DEF Activated, Consistent, Typed, VersionRow
<1> HIDE DEF rec, new, act, y, u, d, v
<1>10. QED
  <2>1. PublishedAs(w, d, u.hash) /\ Shows(w, u.tenant, d, u.hash)
    BY <1>7, <1>8 DEF PublishedAs, Shows
  <2>2. \A e, h : PublishedAs(db, e, h) => PublishedAs(w, e, h)
    BY <1>7, <1>9 DEF PublishedAs
  <2>3. \A t, e, h : t # u.tenant /\ Shows(db, t, e, h) => Shows(w, t, e, h)
    BY <1>3, <1>7 DEF Shows
  <2>4. QED
    BY <2>1, <2>2, <2>3 DEF PersistsWell, u, d

LEMMA PersistedPublishes ==
    ASSUME Bookkeeping, Durable, NEW j \in Job, pc[j] = "embedding",
           NEW d \in DocId, NEW w \in Database, Persisted(j, d, w)
    PROVE  PersistsWell(j, d, w)
<1>1. CASE d = draft[j].id /\ w = db /\ \E r \in Found(j) : r.hash = upload[j].hash
  <2>1. PICK r \in db.docs : /\ r.id = d /\ r.tenant = upload[j].tenant
                             /\ r.hash = upload[j].hash
    BY <1>1 DEF Found, Visible
  <2>2. Mirrors(db)
    BY DEF Durable, Agree, Consistent, Mirrors
  <2>3. PublishedAs(w, d, upload[j].hash)
    <3>1. PICK v \in db.versions :
              v = [doc |-> r.id, ver |-> r.ver, hash |-> r.hash, acl |-> r.acl,
                   status |-> "active"]
      BY <2>2 DEF Mirrors
    <3>2. v.doc = d /\ v.hash = upload[j].hash /\ v.status # "pending"
      BY <2>1, <3>1
    <3>3. QED
      BY <1>1, <3>2 DEF PublishedAs
  <2>4. QED
    BY <1>1, <2>1, <2>3 DEF PersistsWell, Shows
<1>2. QED
  BY <1>1, PersistNewPublishes, PersistReplacementPublishes DEF Persisted

\* Both promises are the session's: they hold while it works.
Named ==
    /\ \A j \in Job : (pc[j] = "idle" /\ jobs[j].status = "active") =>
           PublishedAs(disk, jobs[j].doc, upload[j].hash)
    /\ ~IndexerWired => \A t \in Tenant :
           memdoc[t] # Null => Shows(disk, t, memdoc[t].id, memdoc[t].hash)

\* The second segment, committed: the record says active and names the
\* document, or the indexer raised and the record says failed.
LEMMA PersistKeepsNamed ==
    ASSUME Bookkeeping, Durable, Named, usable', NEW j \in Job,
           pc[j] = "embedding", NEW d \in DocId, NEW w \in Database,
           w.jobs = db.jobs, Persisted(j, d, w), IndexAndSettle(j, d, w)
    PROVE  Named'
<1> DEFINE x == CreateChunks(w, ChunkOf(j, d))
           t == upload[j].tenant
           h == upload[j].hash
           rec == [Recorded(j) EXCEPT !.id = d]
<1>1. /\ x.docs = w.docs /\ x.versions = w.versions /\ t \in Tenant
      /\ Recorded(j) \in MemDoc
  BY PersistedTyped DEF CreateChunks, Database, Bookkeeping
<1>2. PersistsWell(j, d, w)
  BY PersistedPublishes
<1>3. disk.docs = db.docs /\ disk.versions = db.versions
  BY DEF Durable, Agree
<1>4. /\ upload' = upload
      /\ pc \in [Job -> {"none", "queued", "embedding", "idle", "refused", "lost"}]
      /\ jobs \in [Job -> JobRecord \cup {Null}]
      /\ memdoc \in [Tenant -> MemDoc \cup {Null}]
      /\ pc' = [pc EXCEPT ![j] = "idle"]
  BY DEF Bookkeeping, TypeOK, IndexAndSettle, Settle, requestVars
<1>5. PICK job \in {Succeeded(j, d), Failed(j, "indexing")} :
          /\ Save(j, job, x) /\ jobs' = [jobs EXCEPT ![j] = job]
          /\ job = Succeeded(j, d) => memdoc' = [memdoc EXCEPT ![t] = rec]
          /\ job # Succeeded(j, d) => job = Failed(j, "indexing") /\ IndexerWired
  <2>1. Failed(j, "indexing") # Succeeded(j, d)
    <3>1. GetJob(j) \in JobRecord
      BY TaskHasRow, OutcomeTyped DEF Bookkeeping
    <3>2. Failed(j, "indexing").status = "failed" /\ Succeeded(j, d).status = "active"
      BY <3>1 DEF Failed, Succeeded, JobRecord
    <3>3. QED
      BY <3>2
  <2>2. QED
    BY <2>1 DEF IndexAndSettle, Settle, Remember
<1>6. disk'.docs = w.docs /\ disk'.versions = w.versions
  <2>1. disk' = UpdateJob(x, j, job)
    BY <1>5 DEF Save, Commit, Rollback
  <2>2. x \in Database
    BY PersistedTyped DEF CreateChunks, Database, Bookkeeping
  <2> HIDE DEF x
  <2>3. QED
    BY <1>1, <2>1, <2>2 DEF UpdateJob, Database
<1>7. GetJob(j) \in JobRecord
  BY TaskHasRow, OutcomeTyped DEF Bookkeeping
<1>8. ASSUME NEW k \in Job, pc'[k] = "idle", jobs'[k].status = "active"
      PROVE  PublishedAs(disk', jobs'[k].doc, upload'[k].hash)
  <2>1. CASE k = j
    <3>1. jobs'[j] = job
      BY <1>4, <1>5
    <3>2. job = Succeeded(j, d)
      BY <1>5, <1>7, <1>8, <2>1, <3>1 DEF Failed, JobRecord
    <3>3. job.doc = d
      BY <1>7, <3>2 DEF Succeeded, JobRecord
    <3>4. QED
      BY <1>2, <1>4, <1>6, <2>1, <3>1, <3>3 DEF PersistsWell, PublishedAs
  <2>2. CASE k # j
    <3>1. pc[k] = "idle" /\ jobs'[k] = jobs[k]
      BY <1>4, <1>5, <1>8, <2>2
    <3>2. PublishedAs(disk, jobs[k].doc, upload[k].hash)
      BY <1>8, <3>1 DEF Named
    <3>3. PublishedAs(w, jobs[k].doc, upload[k].hash)
      BY <1>2, <1>3, <3>2 DEF PersistsWell, PublishedAs
    <3>4. QED
      BY <1>4, <1>6, <3>1, <3>3 DEF PublishedAs
  <2>3. QED
    BY <2>1, <2>2
<1>9. ASSUME ~IndexerWired, NEW s \in Tenant, memdoc'[s] # Null
      PROVE  Shows(disk', s, memdoc'[s].id, memdoc'[s].hash)
  <2>1. memdoc' = [memdoc EXCEPT ![t] = rec]
    BY <1>5, <1>9
  <2>2. rec.id = d /\ rec.hash = h
    BY <1>1 DEF Recorded, MemDoc
  <2> HIDE DEF rec
  <2>3. CASE s = t
    <3>1. memdoc'[s] = rec
      BY <1>4, <2>1, <2>3
    <3>2. QED
      BY <1>2, <1>6, <2>2, <2>3, <3>1 DEF PersistsWell, Shows
  <2>4. CASE s # t
    <3>1. memdoc'[s] = memdoc[s]
      BY <1>4, <2>1, <2>4
    <3>2. Shows(disk, s, memdoc[s].id, memdoc[s].hash)
      BY <1>9, <3>1 DEF Named
    <3>3. Shows(w, s, memdoc[s].id, memdoc[s].hash)
      BY <1>2, <1>3, <2>4, <3>2 DEF PersistsWell, Shows
    <3>4. QED
      BY <1>6, <3>1, <3>3 DEF Shows
  <2>5. QED
    BY <2>3, <2>4
<1>10. QED
  BY <1>8, <1>9 DEF Named

\* A job that ends failed, its row committed alone.
LEMMA FailureKeepsNamed ==
    ASSUME Bookkeeping, Durable, Named, usable', NEW j \in Job,
           \/ SourceMissing(j) \/ InputRejected(j) \/ EmbedRaises(j)
           \/ LookupRaises(j) \/ ResumeLost(j)
    PROVE  Named'
<1>1. PICK stage :
          Settle(j, Failed(j, stage)) /\ Save(j, Failed(j, stage), db)
  BY DEF SourceMissing, InputRejected, EmbedRaises, LookupRaises, ResumeLost,
         Rollback
<1>2. GetJob(j) \in JobRecord
  <2>1. CASE ResumeLost(j)
    BY <2>1, OutcomeTyped DEF ResumeLost, GetJob, Bookkeeping
  <2>2. CASE ~ResumeLost(j)
    <3>1. pc[j] \in {"queued", "embedding"}
      BY <2>2 DEF SourceMissing, InputRejected, EmbedRaises, LookupRaises
    <3>2. QED
      BY <3>1, TaskHasRow, OutcomeTyped DEF Bookkeeping
  <2>3. QED
    BY <2>1, <2>2
<1>3. Failed(j, stage).status = "failed"
  BY <1>2 DEF Failed, JobRecord
<1>4. disk'.docs = disk.docs /\ disk'.versions = disk.versions
  <2>1. disk' = UpdateJob(db, j, Failed(j, stage))
    BY <1>1 DEF Save, Commit, Rollback
  <2>2. db \in Database
    BY DEF Bookkeeping, TypeOK
  <2>3. QED
    BY <2>1, <2>2 DEF UpdateJob, Database, Durable, Agree
<1>5. UNCHANGED <<upload, memdoc>>
  BY <1>1 DEF SourceMissing, InputRejected, EmbedRaises, LookupRaises,
              ResumeLost, Settle, requestVars
<1>6. \A k \in Job : (pc'[k] = "idle" /\ jobs'[k].status = "active")
                        => pc[k] = "idle" /\ jobs'[k] = jobs[k]
  BY <1>1, <1>3 DEF Settle, Bookkeeping, TypeOK
<1>7. QED
  BY <1>4, <1>5, <1>6 DEF Named, PublishedAs, Shows

LEMMA NextKeepsNamed ==
    ASSUME Bookkeeping, Durable, usable => Named, [Next]_vars
    PROVE  (usable => Named)'
<1> SUFFICES ASSUME usable' PROVE Named'
  OBVIOUS
<1>1. CASE UNCHANGED vars
  BY <1>1 DEF vars, requestVars, memoryVars, storeVars, Named, PublishedAs, Shows
<1>2. CASE Restart
  BY <1>2 DEF Restart, Named, Bookkeeping, TypeOK
<1>3. CASE ~Restart /\ [Next]_vars /\ ~(UNCHANGED vars)
  <2>1. usable /\ Named
    BY <1>3, StepKinds DEF Submit, SubmitRefused, Start, Retry, storeVars,
                           Ends, Save, Commit, Rollback
  <2>2. ASSUME NEW j \in Job, NEW u \in Uploads, Submit(j, u) PROVE Named'
    <3>1. /\ disk' = disk /\ memdoc' = memdoc /\ pc' = [pc EXCEPT ![j] = "queued"]
          /\ jobs' = [jobs EXCEPT ![j] = NewJob]
          /\ upload' = [upload EXCEPT ![j] = u]
      BY <2>2 DEF Submit, Register
    <3>2. \A k \in Job : pc'[k] = "idle" =>
              pc[k] = "idle" /\ jobs'[k] = jobs[k] /\ upload'[k] = upload[k]
      BY <3>1 DEF Bookkeeping, TypeOK
    <3>3. QED
      BY <2>1, <3>1, <3>2 DEF Named, PublishedAs, Shows
  <2>3. ASSUME NEW j \in Job, Start(j) \/ Retry(j) PROVE Named'
    <3>1. /\ disk' = disk /\ memdoc' = memdoc /\ jobs' = jobs /\ upload' = upload
          /\ \A k \in Job : pc'[k] = "idle" => pc[k] = "idle"
      BY <2>3 DEF Start, Retry, storeVars, requestVars, Bookkeeping, TypeOK
    <3>2. QED
      BY <2>1, <3>1 DEF Named, PublishedAs, Shows
  <2>4. ASSUME NEW j \in Job,
               PersistNew(j) \/ PersistReplacement(j) \/ PersistSameContent(j)
        PROVE  Named'
    BY <2>1, <2>4, PersistSteps, PersistKeepsNamed
  <2>5. ASSUME NEW j \in Job,
               \/ SourceMissing(j) \/ InputRejected(j) \/ EmbedRaises(j)
               \/ LookupRaises(j) \/ ResumeLost(j)
        PROVE  Named'
    BY <2>1, <2>5, FailureKeepsNamed
  <2>6. ASSUME NEW j \in Job PROVE ~PersistRaises(j)
    BY DEF PersistRaises, Rollback
  <2>7. ASSUME NEW j \in Job, NEW u \in Uploads PROVE ~SubmitRefused(j, u)
    BY DEF SubmitRefused, Rollback
  <2>8. QED
    BY <1>3, <2>2, <2>3, <2>4, <2>5, <2>6, <2>7 DEF Next, ProcessStep
<1>4. QED
  BY <1>1, <1>2, <1>3

LEMMA NamedAlways == Spec => [](usable => Named)
<1>1. Init => (usable => Named)
  BY DEF Init, Named
<1>2. Bookkeeping /\ Durable /\ (usable => Named) /\ [Next]_vars => (usable => Named)'
  BY NextKeepsNamed
<1>3. QED
  BY <1>1, <1>2, DurableAlways, PTL DEF Spec

\* A job reported active has its content committed under the document it
\* names, whatever other uploads, faults and restarts did around it.
THEOREM ActiveJobsAlways == Spec => []ActiveJobsPublished
<1>1. (usable => Named) => ActiveJobsPublished
  BY DEF Named, ActiveJobsPublished, PublishedAs
<1>2. QED
  BY <1>1, NamedAlways, PTL

\* Only a working session commits.
LEMMA CommitsUsable ==
    ASSUME Bookkeeping, [Next]_vars, disk' # disk
    PROVE  usable
  BY StepKinds DEF Submit, SubmitRefused, Start, Retry, Restart, vars, storeVars,
                   Ends, Save, Commit, Rollback

\* What the next upload is compared with is a document the tenant has
\* committed, with the content it has; what a failed write left in memory
\* decides about nothing that is committed.
THEOREM MemoryAlways == Spec => MemoryNamesPublished
<1>1. ASSUME Bookkeeping, Durable, usable => Named, [Next]_vars
      PROVE  [(usable' => MemoryRight') /\ (disk' # disk => MemoryRight)]_vars
  <2>1. Named => MemoryRight
    BY DEF Named, MemoryRight, Shows
  <2>2. Named' => MemoryRight'
    BY DEF Named, MemoryRight, Shows
  <2>3. QED
    BY <1>1, <2>1, <2>2, NextKeepsNamed, CommitsUsable
<1>2. QED
  BY <1>1, DurableAlways, NamedAlways, PTL DEF Spec, MemoryNamesPublished

-----------------------------------------------------------------------------
(* The durable tables implement VersionHistory.                            *)

\* The triples a table publishes.
LEMMA PublishedOf ==
    ASSUME NEW w, Consistent(w)
    PROVE  /\ \A r \in w.docs :
                 /\ [doc |-> r.id, ver |-> r.ver, hash |-> r.hash] \in Abstract!Published
                 /\ [doc |-> r.id, ver |-> r.ver, hash |-> r.hash] \in CurrentOf(w)
           /\ \A v \in w.versions :
                 [doc |-> v.doc, ver |-> v.ver, hash |-> v.hash] \in Abstract!Published
  BY DEF Consistent, Typed, DocRow, VersionRow, DocId, Version,
         Abstract!Published, CurrentOf

LEMMA AgreePublish ==
    ASSUME NEW x, NEW y, Agree(x, y)
    PROVE  VersionsOf(x) = VersionsOf(y) /\ CurrentOf(x) = CurrentOf(y)
  BY DEF Agree, VersionsOf, CurrentOf

\* Creating a document publishes version 1 of a document never seen.
LEMMA CreatedPublishes ==
    ASSUME NEW w \in Database, NEW n \in DocId, NEW x, Consistent(w),
           IdsBelow(w, n), Created(w, x, n)
    PROVE  \E p \in Abstract!Published :
               /\ p.doc = n /\ p.ver = 1
               /\ \A q \in VersionsOf(w) : q.doc # n
               /\ VersionsOf(x) = VersionsOf(w) \cup {p}
               /\ CurrentOf(x) = CurrentOf(w) \cup {p}
<1>1. PICK t \in Tenant, h \in Content, a \in SUBSET Principal, v \in Version :
          LET rec == [doc |-> n, ver |-> 1, hash |-> h, acl |-> a,
                      status |-> "pending"]
              y   == ActivateVersion(CreateDocument(w, n, t, h, a), rec)
          IN  Agree(x, CreateChunks(y, [doc |-> n, ver |-> v, hash |-> h]))
  BY DEF Created
<1> DEFINE rec == [doc |-> n, ver |-> 1, hash |-> h, acl |-> a, status |-> "pending"]
           c == CreateDocument(w, n, t, h, a)
           y == ActivateVersion(c, rec)
           k == [doc |-> n, ver |-> v, hash |-> h]
           p == [doc |-> n, ver |-> 1, hash |-> h]
           row == [id |-> n, tenant |-> t, hash |-> h, ver |-> 1, acl |-> a]
           act == [rec EXCEPT !.status = "active"]
<1>2. y.docs = w.docs \cup {row} /\ y.versions = w.versions \cup {act}
  BY CreateActivateConsistent
<1>3. row.id = n /\ row.ver = 1 /\ row.hash = h
      /\ act.doc = n /\ act.ver = 1 /\ act.hash = h
  OBVIOUS
<1>4. CreateChunks(y, k).docs = y.docs /\ CreateChunks(y, k).versions = y.versions
  BY DEF CreateChunks, ActivateVersion, CreateDocument, Database
<1>5. x.docs = w.docs \cup {row} /\ x.versions = w.versions \cup {act}
  BY <1>1, <1>2, <1>4 DEF Agree
<1> HIDE DEF row, act
<1>6. VersionsOf(x) = VersionsOf(w) \cup {p} /\ CurrentOf(x) = CurrentOf(w) \cup {p}
  BY <1>3, <1>5 DEF VersionsOf, CurrentOf
<1>7. p \in Abstract!Published /\ p.doc = n /\ p.ver = 1
  BY DEF Abstract!Published, DocId
<1>8. \A q \in VersionsOf(w) : q.doc # n
  BY DEF VersionsOf, IdsBelow, Consistent, Typed, VersionRow, DocId
<1>9. QED
  BY <1>6, <1>7, <1>8

\* Replacing moves a document from its current version to a number it never
\* had, and changes no version already published.
LEMMA ReplacedSupersedes ==
    ASSUME NEW w \in Database, NEW x, Consistent(w), Replaced(w, x)
    PROVE  \E q \in CurrentOf(w), p \in Abstract!Published :
               /\ q.doc = p.doc
               /\ \A r \in VersionsOf(w) : r.doc = p.doc => r.ver # p.ver
               /\ VersionsOf(x) = VersionsOf(w) \cup {p}
               /\ CurrentOf(x) = (CurrentOf(w) \ {q}) \cup {p}
<1>1. PICK old \in w.docs, v \in Version, h \in Content, a \in SUBSET Principal :
          LET rec == [doc |-> old.id, ver |-> v, hash |-> h, acl |-> a,
                      status |-> "pending"]
              y   == ActivateVersion(CreateVersion(w, old.id, v, h, a), rec)
              z   == DeleteChunks(y, old.id, old.ver)
          IN  /\ ~VersionExists(w, old.id, v)
              /\ Agree(x, CreateChunks(z, [doc |-> old.id, ver |-> v, hash |-> h]))
  BY DEF Replaced
<1>0. PICK d \in DocId : d = old.id
  BY DEF Consistent, Typed, DocRow
<1> DEFINE rec == [doc |-> d, ver |-> v, hash |-> h, acl |-> a, status |-> "pending"]
           y == ActivateVersion(CreateVersion(w, d, v, h, a), rec)
           k == [doc |-> d, ver |-> v, hash |-> h]
           z == CreateChunks(DeleteChunks(y, d, old.ver), k)
           new == [old EXCEPT !.ver = v, !.hash = h, !.acl = a]
           act == [rec EXCEPT !.status = "active"]
           q == [doc |-> old.id, ver |-> old.ver, hash |-> old.hash]
           p == [doc |-> d, ver |-> v, hash |-> h]
<1>2. Agree(x, z) /\ ~VersionExists(w, d, v)
  BY <1>0, <1>1
<1>3. old \in DocRow
  BY DEF Consistent, Typed
<1>4. new.id = d /\ new.ver = v /\ new.hash = h
      /\ act.doc = d /\ act.ver = v /\ act.hash = h
  BY <1>0, <1>3 DEF DocRow
<1>5. Superseded(w, y, old, rec)
  BY <1>0, <1>2, CreateVersionActivateConsistent
<1>6. /\ y.docs = (w.docs \ {old}) \cup {new}
      /\ y.versions = {Activated(r, d, v) : r \in w.versions} \cup {act}
  BY <1>5 DEF Superseded
<1>7. z.docs = y.docs /\ z.versions = y.versions
  BY DEF CreateChunks, DeleteChunks, ActivateVersion, CreateVersion, Database
<1>8. /\ x.docs = (w.docs \ {old}) \cup {new}
      /\ x.versions = {Activated(r, d, v) : r \in w.versions} \cup {act}
  BY <1>2, <1>6, <1>7 DEF Agree
<1>9. \A r \in w.versions :
          /\ Activated(r, d, v).doc = r.doc
          /\ Activated(r, d, v).ver = r.ver
          /\ Activated(r, d, v).hash = r.hash
  BY DEF Activated, Consistent, Typed, VersionRow
<1>10. \A r \in w.docs : r # old => r.id # d
  BY <1>0 DEF Consistent, KeysUnique
<1> HIDE DEF new, act, y, z, rec
<1>11. VersionsOf(x) = VersionsOf(w) \cup {p}
  BY <1>4, <1>8, <1>9 DEF VersionsOf
<1>12. CurrentOf(x) = (CurrentOf(w) \ {q}) \cup {p}
  BY <1>0, <1>4, <1>8, <1>10 DEF CurrentOf
<1>13. q \in CurrentOf(w) /\ p \in Abstract!Published /\ q.doc = p.doc
  BY <1>0 DEF CurrentOf, Abstract!Published, DocId, Version
<1>14. \A r \in VersionsOf(w) : r.doc = p.doc => r.ver # p.ver
  BY <1>2 DEF VersionsOf, VersionExists
<1> HIDE DEF q, p
<1>15. QED
  BY <1>11, <1>12, <1>13, <1>14

LEMMA StepMapped ==
    ASSUME Bookkeeping, Durable, [Next]_vars
    PROVE  \/ Abstract!Next
           \/ UNCHANGED <<VersionsOf(disk), CurrentOf(disk)>>
<1>1. /\ DurableStep(db, disk', nextId, nextId')
      /\ db \in Database /\ nextId \in DocId
      /\ Consistent(db) /\ IdsBelow(db, nextId)
  BY NextDurableStep, AgreeDurable DEF Durable, Bookkeeping, TypeOK, DocId
<1>2. VersionsOf(disk) = VersionsOf(db) /\ CurrentOf(disk) = CurrentOf(db)
  BY AgreePublish DEF Durable
<1>3. CASE Agree(disk', db)
  BY <1>2, <1>3, AgreePublish DEF VersionsOf, CurrentOf
<1>4. CASE Created(db, disk', nextId)
  <2>1. PICK p \in Abstract!Published :
            /\ p.doc = nextId /\ p.ver = 1
            /\ \A q \in VersionsOf(db) : q.doc # nextId
            /\ VersionsOf(disk') = VersionsOf(db) \cup {p}
            /\ CurrentOf(disk') = CurrentOf(db) \cup {p}
    BY <1>1, <1>4, CreatedPublishes
  <2>3. /\ VersionsOf(disk)' = VersionsOf(disk) \cup {p}
        /\ CurrentOf(disk)' = CurrentOf(disk) \cup {p}
        /\ \A q \in VersionsOf(disk) : q.doc # nextId
    BY <1>2, <2>1 DEF VersionsOf, CurrentOf
  <2>4. Abstract!Publish(p) /\ p \in VersionsOf(disk)'
    BY <2>1, <2>3 DEF Abstract!Publish
  <2>5. QED
    BY <2>4 DEF Abstract!Next
<1>5. CASE Replaced(db, disk')
  <2>1. PICK q \in CurrentOf(db), p \in Abstract!Published :
            /\ q.doc = p.doc
            /\ \A r \in VersionsOf(db) : r.doc = p.doc => r.ver # p.ver
            /\ VersionsOf(disk') = VersionsOf(db) \cup {p}
            /\ CurrentOf(disk') = (CurrentOf(db) \ {q}) \cup {p}
    BY <1>1, <1>5, ReplacedSupersedes
  <2>2. /\ VersionsOf(disk)' = VersionsOf(disk) \cup {p}
        /\ CurrentOf(disk)' = (CurrentOf(disk) \ {q}) \cup {p}
    BY <1>2, <2>1 DEF VersionsOf, CurrentOf
  <2>3. Abstract!Supersede(q, p) /\ p \in VersionsOf(disk)' /\ q \in CurrentOf(disk)
    BY <1>2, <2>1, <2>2 DEF Abstract!Supersede
  <2>4. QED
    BY <2>3 DEF Abstract!Next
<1>6. CASE Rewritten(db, disk')
  <2>1. disk'.docs = db.docs /\ disk'.versions = db.versions
    BY <1>1, <1>6 DEF Rewritten, Agree, CreateChunks, Database
  <2>2. QED
    BY <1>2, <2>1 DEF VersionsOf, CurrentOf
<1>7. QED
  BY <1>1, <1>3, <1>4, <1>5, <1>6 DEF DurableStep

\* The committed documents behave as VersionHistory says: they appear at
\* version 1, move only to version numbers they never had, and what was
\* published under a number stays.
THEOREM Implementation == Spec => ImplementsVersionHistory
<1>1. Init => Abstract!Init
  BY DEF Init, Abstract!Init, EmptyDatabase, VersionsOf, CurrentOf
<1>2. Bookkeeping /\ Durable /\ [Next]_vars
      => [Abstract!Next]_<<VersionsOf(disk), CurrentOf(disk)>>
  BY StepMapped
<1>3. QED
  BY <1>1, <1>2, DurableAlways, PTL DEF Spec, ImplementsVersionHistory, Abstract!Spec
=============================================================================
