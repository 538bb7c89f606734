-------------------------- MODULE SearchIndexProofs --------------------------
(***************************************************************************)
(* Theorems about SearchIndex, for any tenants, scopes and clients, any    *)
(* number of chunks, uploads and restarts, and any failures.               *)
(***************************************************************************)
EXTENDS SearchIndex, FiniteSetTheorems, TLAPS

-----------------------------------------------------------------------------
(* The invariant.                                                          *)

Typed ==
    /\ client \in Client
    /\ rows \subseteq ActiveDocument /\ usable \in BOOLEAN
    /\ memory \in [Tenant -> Remembered \cup {Null}]
    /\ drafts \subseteq Draft
    /\ job \in Upload \cup {Null}
    /\ index \subseteq Entry /\ IsFiniteSet(index)
    /\ known \in [versions : SUBSET (Nat \X Nat), documents : SUBSET Nat,
                  entries : SUBSET Entry]
    /\ nextId \in Nat /\ uploads \in Nat

\* The documents there are, in the open transaction or committed.
Documents == rows \cup (IF job = Null THEN {} ELSE job.rows)

\* Of the ids below n, doc is one, and what documents have it are t's.
Owns(t, doc, documents, n) == doc < n /\ \A r \in documents : r.doc = doc => r.tenant = t

\* Fresh ids are fresh, and a document in the database, in memory, of a draft
\* or under way is its tenant's.
Numbered ==
    /\ \A r \in Documents : Owns(r.tenant, r.doc, Documents, nextId)
    /\ \A t \in Tenant : memory[t] # Null => Owns(t, memory[t].doc, Documents, nextId)
    /\ \A d \in drafts : Owns(d.tenant, d.doc, Documents, nextId)
    /\ job # Null => Owns(job.tenant, job.doc, Documents, nextId)

\* A draft that found its document in memory has its next version.
Drafted ==
    \A d \in drafts : d.seen # Null => d.doc = d.seen.doc /\ d.version = d.seen.version + 1

InStep(steps) == job # Null /\ job.step \in steps

\* The upload past its embed call: its row, which shows the entries it writes,
\* is the only one it changes; not overtaken, it has memory's version number,
\* the one after that of the version it replaces.
UnderWay ==
    job # Null =>
        /\ usable /\ memory[job.tenant] # Null
        /\ \E r \in job.rows : /\ r.doc = job.doc /\ r.tenant = job.tenant
                               /\ EntriesOf(r) = NewEntries
                               /\ job.rows = {o \in rows : o.doc # job.doc} \cup {r}
        /\ job.step = "delete" => job.replaced # Null /\ job.doc \in known.documents
        /\ job.doc \notin overtaken =>
              /\ memory[job.tenant].version = job.version
              /\ job.replaced # Null => job.version = job.replaced + 1

\* What this process wrote of documents no upload was overtaken at, and no
\* failure left behind.
Fresh == {e \in index \ exposed : e.document_id \notin overtaken}

\* e is of the version that the upload replaces, and is to be deleted.
Old(e) == job.replaced # Null /\ e.version = job.replaced

\* The writer knows each fresh entry.  It is of an active document, or of the
\* one under way: then of the version replaced or of the new one.
Attributed ==
    \A e \in Fresh :
        /\ e \in known.entries
        /\ IF job # Null /\ e.document_id = job.doc
           THEN \/ job.step \in {"upsert", "delete"} /\ Old(e)
                \/ job.step \in {"delete", "commit"} /\ e \in NewEntries
           ELSE \E r \in rows : e \in EntriesOf(r)

\* A tenant with fresh entries is in memory; those of the document there are of
\* the version there, unless an upload of the tenant is under way.
Current ==
    \A e \in Fresh :
        /\ memory[e.tenant] # Null
        /\ usable /\ (job # Null => job.tenant # e.tenant)
              /\ e.document_id = memory[e.tenant].doc
           => e.version = memory[e.tenant].version

\* No entry of r is missing that was not lost to a failure.
Indexed(r) == EntriesOf(r) \ lost \subseteq index

\* Documents no upload is at are indexed, and the new one once it was sent.
Present ==
    /\ \A r \in rows : /\ r.doc \notin overtaken
                       /\ job # Null => r.doc # job.doc
                       => Indexed(r)
    /\ InStep({"delete", "commit"}) /\ job.doc \notin overtaken =>
          NewEntries \ lost \subseteq index

IInv == Typed /\ Numbered /\ Drafted /\ UnderWay /\ Attributed /\ Current /\ Present

-----------------------------------------------------------------------------
(* Records and sets of entries.                                            *)

\* The chunks of a document are finitely many entries.
LEMMA EntriesTyped ==
    ASSUME NEW t \in Tenant, NEW doc \in Nat, NEW version \in Nat, NEW content \in Nat
    PROVE  /\ Entries(t, doc, version, content) \in SUBSET Entry
           /\ IsFiniteSet(Entries(t, doc, version, content))
           /\ \A e \in Entries(t, doc, version, content) :
                 e.tenant = t /\ e.document_id = doc /\ e.version = version
<1>1. ChunkCount \in Nat
  BY SearchIndexAssumption
<1> DEFINE E == Entries(t, doc, version, content)
           f == [i \in 1..ChunkCount |->
                    [tenant |-> t, document_id |-> doc, version |-> version,
                     content |-> content, chunk |-> i]]
<1>2. \A e \in E : e.chunk \in 1..ChunkCount /\ e = f[e.chunk]
  BY DEF Entries
<1>3. \A i \in 1..ChunkCount : f[i] \in E
  BY DEF Entries
<1>4. IsFiniteSet(E)
  <2>1. f \in Surjection(1..ChunkCount, E)
    <3>1. f \in [1..ChunkCount -> E]
      BY <1>3
    <3> HIDE DEF f, E
    <3>2. QED
      BY <1>2, <3>1 DEF Surjection
  <2>2. IsFiniteSet(1..ChunkCount)
    BY <1>1, FS_Interval
  <2> HIDE DEF f, E
  <2>3. QED
    BY <2>1, <2>2, FS_Surjection
<1>5. QED
  BY <1>1, <1>4 DEF Entries, Entry

LEMMA JobTyped ==
    ASSUME Typed, job # Null
    PROVE  /\ job \in Upload
           /\ NewEntries \in SUBSET Entry /\ IsFiniteSet(NewEntries)
           /\ \A e \in NewEntries : /\ e.tenant = job.tenant /\ e.document_id = job.doc
                                    /\ e.version = job.version
<1>1. job \in Upload
  BY DEF Typed
<1>2. job.tenant \in Tenant /\ job.doc \in Nat /\ job.version \in Nat /\ job.content \in Nat
  BY <1>1 DEF Upload
<1>3. QED
  BY <1>1, <1>2, EntriesTyped DEF NewEntries

LEMMA RowEntriesTyped ==
    ASSUME NEW r \in ActiveDocument
    PROVE  /\ EntriesOf(r) \in SUBSET Entry
           /\ \A e \in EntriesOf(r) : e.tenant = r.tenant /\ e.document_id = r.doc
<1>1. r.tenant \in Tenant /\ r.doc \in Nat /\ r.written \in Nat /\ r.content \in Nat
  BY DEF ActiveDocument
<1>2. QED
  BY <1>1, EntriesTyped DEF EntriesOf

LEMMA DraftTyped ==
    ASSUME Typed, NEW d \in drafts
    PROVE  /\ d.tenant \in Tenant /\ d.doc \in Nat /\ d.version \in Nat /\ d.content \in Nat
           /\ d.seen \in Remembered \cup {Null}
BY DEF Typed, Draft

LEMMA MemoryTyped ==
    ASSUME Typed, NEW t \in Tenant, memory[t] # Null
    PROVE  /\ memory[t] \in Remembered
           /\ memory[t].doc \in Nat /\ memory[t].version \in Nat
BY DEF Typed, Remembered

LEMMA DocumentsTyped ==
    ASSUME Typed
    PROVE  /\ Documents \subseteq ActiveDocument
           /\ \A r \in Documents : r.tenant \in Tenant /\ r.doc \in Nat /\ r.version \in Nat
<1>1. CASE job = Null
  BY <1>1 DEF Typed, Documents, ActiveDocument
<1>2. CASE job # Null
  <2>1. job.rows \subseteq ActiveDocument
    BY <1>2 DEF Typed, Upload
  <2>2. Documents \subseteq ActiveDocument
    BY <1>2, <2>1 DEF Typed, Documents
  <2>3. QED
    BY <2>2 DEF ActiveDocument
<1>3. QED
  BY <1>1, <1>2

\* Ownership stays with fewer documents and with more ids drawn.
LEMMA OwnsStill ==
    ASSUME NEW t, NEW doc \in Nat, NEW documents, NEW n \in Nat, NEW m \in Nat, n <= m,
           NEW fewer \in SUBSET documents, Owns(t, doc, documents, n)
    PROVE  Owns(t, doc, fewer, m)
BY DEF Owns

LEMMA IndexStaysTyped ==
    ASSUME Typed, job # Null, NEW E, NEW some, some \in SUBSET NewEntries
    PROVE  (index \cup some) \ E \subseteq Entry /\ IsFiniteSet((index \cup some) \ E)
<1>1. IsFiniteSet(some) /\ some \subseteq Entry
  BY JobTyped, FS_Subset
<1>2. IsFiniteSet(index \cup some)
  BY <1>1, FS_Union DEF Typed
<1>3. IsFiniteSet((index \cup some) \ E)
  BY <1>2, FS_Difference
<1>4. QED
  BY <1>1, <1>3 DEF Typed

-----------------------------------------------------------------------------
(* The steps.                                                              *)

LEMMA InitKeeps == Init => IInv
<1> SUFFICES ASSUME Init PROVE IInv
  OBVIOUS
<1>1. IsFiniteSet(index)
  BY FS_EmptySet DEF Init
<1>2. Typed
  BY <1>1, SearchIndexAssumption DEF Init, Typed, Forgotten
<1>3. Numbered /\ Drafted /\ UnderWay /\ Attributed /\ Current /\ Present
  BY DEF Init, Numbered, Documents, Drafted, UnderWay, InStep, Attributed, Fresh, Current, Present
<1>4. QED
  BY <1>2, <1>3 DEF IInv

\* What Start decides, whichever of its three ways it takes.
LEMMA StartDrafts ==
    ASSUME IInv, NEW t \in Tenant, Start(t)
    PROVE  \E doc \in Nat, version \in Nat :
              /\ Suspend(t, doc, version)
              /\ nextId' \in Nat /\ nextId <= nextId'
              /\ Owns(t, doc, rows, nextId')
              /\ memory[t] # Null => doc = memory[t].doc /\ version = memory[t].version + 1
<1>1. job = Null /\ Documents = rows /\ nextId \in Nat /\ Typed /\ Numbered
  BY DEF Start, IInv, Typed, Documents
<1>2. CASE /\ memory[t] # Null
           /\ Suspend(t, memory[t].doc, memory[t].version + 1)
           /\ UNCHANGED nextId
  <2> DEFINE doc == memory[t].doc
             version == memory[t].version + 1
  <2>1. doc \in Nat /\ version \in Nat
    BY <1>1, <1>2, MemoryTyped
  <2>2. Owns(t, doc, rows, nextId)
    BY <1>1, <1>2 DEF Numbered
  <2>3. Suspend(t, doc, version) /\ nextId' = nextId
    BY <1>2
  <2>4. memory[t] # Null => doc = memory[t].doc /\ version = memory[t].version + 1
    OBVIOUS
  <2> HIDE DEF doc, version
  <2>5. QED
    BY <1>1, <2>1, <2>2, <2>3, <2>4
<1>3. CASE /\ memory[t] = Null
           /\ \E r \in Rows(t) : /\ \A o \in Rows(t) : r.doc <= o.doc
                                /\ Suspend(t, r.doc, r.version + 1)
           /\ UNCHANGED nextId
  <2>1. PICK r \in rows : r.tenant = t /\ Suspend(t, r.doc, r.version + 1)
    BY <1>3 DEF Rows
  <2> DEFINE doc == r.doc
             version == r.version + 1
  <2>2. r.doc \in Nat /\ r.version \in Nat
    BY <1>1, DocumentsTyped
  <2>3. doc \in Nat /\ version \in Nat
    BY <2>2
  <2>4. Owns(t, doc, rows, nextId)
    BY <1>1, <2>1 DEF Numbered
  <2>5. Suspend(t, doc, version) /\ nextId' = nextId
    BY <1>3, <2>1
  <2> HIDE DEF doc, version
  <2>6. QED
    BY <1>1, <1>3, <2>3, <2>4, <2>5
<1>4. CASE memory[t] = Null /\ Suspend(t, nextId, 1) /\ nextId' = nextId + 1
  <2>1. \A r \in rows : r.doc \in Nat /\ r.doc < nextId
    BY <1>1, DocumentsTyped DEF Numbered, Owns
  <2>2. Owns(t, nextId, rows, nextId')
    BY <1>1, <1>4, <2>1 DEF Owns
  <2>3. QED
    BY <1>1, <1>4, <2>2
<1>5. QED
  BY <1>2, <1>3, <1>4 DEF Start

LEMMA StartKeeps ==
    ASSUME IInv, NEW t \in Tenant, Start(t)
    PROVE  IInv'
<1>1. PICK doc \in Nat, version \in Nat :
              /\ Suspend(t, doc, version)
              /\ nextId' \in Nat /\ nextId <= nextId'
              /\ Owns(t, doc, rows, nextId')
              /\ memory[t] # Null => doc = memory[t].doc /\ version = memory[t].version + 1
  BY StartDrafts
<1>2. /\ job = Null /\ Documents = rows /\ Documents' = rows
      /\ UNCHANGED <<client, rows, usable, memory, job, index, known, exposed, lost, overtaken>>
      /\ uploads' = uploads + 1 /\ uploads \in Nat /\ nextId \in Nat
      /\ Typed /\ Numbered /\ Drafted
  BY <1>1 DEF Start, Suspend, database, history, IInv, Typed, Documents
<1> DEFINE new == [tenant |-> t, doc |-> doc, version |-> version, content |-> uploads + 1,
                   seen |-> memory[t]]
<1>3. /\ drafts' = drafts \cup {new} /\ new \in Draft
      /\ new.tenant = t /\ new.doc = doc /\ new.version = version /\ new.seen = memory[t]
  BY <1>1, <1>2 DEF Suspend, Draft, Typed
<1> HIDE DEF new
<1>4. Typed'
  BY <1>1, <1>2, <1>3 DEF Typed
<1>5. Numbered'
  <2>1. ASSUME NEW r \in rows PROVE Owns(r.tenant, r.doc, rows, nextId')
    BY <1>1, <1>2, DocumentsTyped, OwnsStill DEF Numbered
  <2>2. ASSUME NEW u \in Tenant, memory[u] # Null PROVE Owns(u, memory[u].doc, rows, nextId')
    BY <1>1, <1>2, <2>2, MemoryTyped, OwnsStill DEF Numbered
  <2>3. ASSUME NEW d \in drafts PROVE Owns(d.tenant, d.doc, rows, nextId')
    BY <1>1, <1>2, DraftTyped, OwnsStill DEF Numbered
  <2>4. \A d \in drafts' : Owns(d.tenant, d.doc, rows, nextId')
    BY <1>1, <1>3, <2>3
  <2>5. QED
    BY <1>2, <2>1, <2>2, <2>4 DEF Numbered
<1>6. Drafted'
  BY <1>1, <1>2, <1>3 DEF Drafted
<1>7. UnderWay' /\ Attributed' /\ Current' /\ Present'
  BY <1>2 DEF IInv, UnderWay, Attributed, Current, Present, Indexed, InStep, Fresh, EntriesOf
<1>8. QED
  BY <1>4, <1>5, <1>6, <1>7 DEF IInv

LEMMA EmbedRaisesKeeps ==
    ASSUME IInv, NEW d \in drafts, EmbedRaises(d)
    PROVE  IInv'
<1>1. /\ job = Null /\ usable /\ drafts' \subseteq drafts /\ usable' \in BOOLEAN
      /\ UNCHANGED <<client, rows, memory, job, nextId, uploads, index, known,
                     exposed, lost, overtaken>>
  BY DEF EmbedRaises, Poisoned, history, IInv, Typed
<1>2. Typed'
  BY <1>1 DEF IInv, Typed
<1>3. Numbered' /\ Drafted'
  BY <1>1 DEF IInv, Numbered, Drafted, Documents
<1>4. UnderWay' /\ Attributed' /\ Current' /\ Present'
  BY <1>1 DEF IInv, UnderWay, Attributed, Current, Present, Indexed, InStep, Fresh, EntriesOf
<1>5. QED
  BY <1>2, <1>3, <1>4 DEF IInv

\* The record Remember leaves is of the draft's tenant and names its document,
\* or goes on from the one that was there.
LEMMA Remembering ==
    ASSUME IInv, NEW d \in drafts, Remember(d)
    PROVE  /\ memory' \in [Tenant -> Remembered \cup {Null}]
           /\ memory'[d.tenant] # Null
           /\ \A u \in Tenant : u # d.tenant => memory'[u] = memory[u]
           /\ memory[d.tenant] = Null =>
                 memory'[d.tenant].doc = d.doc /\ memory'[d.tenant].version = d.version
           /\ memory[d.tenant] # Null =>
                 /\ memory'[d.tenant].doc = memory[d.tenant].doc
                 /\ memory'[d.tenant].version = memory[d.tenant].version + 1
<1> DEFINE t == d.tenant
           e == memory[t]
           record == IF e = Null THEN [doc |-> d.doc, version |-> d.version]
                     ELSE [doc |-> e.doc, version |-> e.version + 1]
<1>1. t \in Tenant /\ d.doc \in Nat /\ d.version \in Nat
  BY DraftTyped DEF IInv
<1>2. e # Null => e.doc \in Nat /\ e.version \in Nat
  BY <1>1, MemoryTyped DEF IInv
<1>3. record \in Remembered
  BY <1>1, <1>2 DEF Remembered
<1>4. record # Null
  BY <1>3, NullIsNoRecord
<1>5. memory \in [Tenant -> Remembered \cup {Null}] /\ memory' = [memory EXCEPT ![t] = record]
  BY DEF Remember, IInv, Typed
<1>6. /\ e = Null => record.doc = d.doc /\ record.version = d.version
      /\ e # Null => record.doc = e.doc /\ record.version = e.version + 1
  OBVIOUS
<1> HIDE DEF record
<1>7. memory'[t] = record /\ \A u \in Tenant : u # t => memory'[u] = memory[u]
  BY <1>1, <1>5
<1>8. QED
  BY <1>1, <1>3, <1>4, <1>5, <1>6, <1>7

LEMMA PersistRaisesKeeps ==
    ASSUME IInv, NEW d \in drafts, PersistRaises(d)
    PROVE  IInv'
<1>1. /\ job = Null /\ usable' = FALSE /\ drafts' \subseteq drafts /\ Remember(d)
      /\ UNCHANGED <<client, rows, job, nextId, uploads, index, known,
                     exposed, lost, overtaken>>
  BY DEF PersistRaises, Poisoned, history
<1>2. /\ memory' \in [Tenant -> Remembered \cup {Null}] /\ d.tenant \in Tenant
      /\ memory'[d.tenant] # Null
      /\ \A u \in Tenant : u # d.tenant => memory'[u] = memory[u]
      /\ memory[d.tenant] = Null => memory'[d.tenant].doc = d.doc
      /\ memory[d.tenant] # Null => memory'[d.tenant].doc = memory[d.tenant].doc
  BY <1>1, Remembering, DraftTyped DEF IInv
<1>3. Typed'
  BY <1>1, <1>2 DEF IInv, Typed
<1>4. Numbered'
  <2>1. Documents' = Documents /\ Numbered
    BY <1>1 DEF IInv, Documents
  <2>2. ASSUME NEW u \in Tenant, memory'[u] # Null
        PROVE  Owns(u, memory'[u].doc, Documents, nextId)
    BY <1>2, <2>1, <2>2 DEF Numbered
  <2>3. QED
    BY <1>1, <2>1, <2>2 DEF Numbered
<1>5. Drafted' /\ UnderWay' /\ Attributed' /\ Present'
  BY <1>1 DEF IInv, Drafted, UnderWay, Attributed, Present, Indexed, InStep, Fresh, EntriesOf
<1>6. Current'
  <2>1. ASSUME NEW e \in Fresh PROVE memory'[e.tenant] # Null
    <3>1. e.tenant \in Tenant /\ memory[e.tenant] # Null
      BY DEF IInv, Typed, Fresh, Entry, Current
    <3>2. QED
      BY <1>2, <3>1
  <2>2. QED
    BY <1>1, <2>1 DEF Current, Fresh
<1>7. QED
  BY <1>3, <1>4, <1>5, <1>6 DEF IInv

\* What Persist decides: the document it writes is the draft's, or a new one.
LEMMA PersistDecides ==
    ASSUME IInv, NEW d \in drafts, Persist(d)
    PROVE  \E r \in ActiveDocument :
              /\ Write(d, r)
              /\ r.tenant = d.tenant /\ r.written = d.version /\ r.content = d.content
              /\ nextId' \in Nat /\ nextId <= nextId' /\ r.doc < nextId'
              /\ \A s \in rows : s.doc = r.doc => s.tenant = d.tenant /\ r.doc = d.doc
              /\ \A u \in Tenant : memory[u] # Null /\ memory[u].doc = r.doc => u = d.tenant
              /\ \A x \in drafts : x.doc = r.doc => x.tenant = d.tenant
<1>1. /\ job = Null /\ Documents = rows /\ nextId \in Nat /\ Typed /\ Numbered
      /\ d.tenant \in Tenant /\ d.doc \in Nat /\ d.version \in Nat /\ d.content \in Nat
  BY DraftTyped DEF Persist, IInv, Typed, Documents
<1>2. ASSUME NEW doc \in Nat, NEW version \in Nat, NEW taken \in SUBSET Nat
      PROVE  /\ Row(d, doc, version, taken) \in ActiveDocument
             /\ Row(d, doc, version, taken).doc = doc
             /\ Row(d, doc, version, taken).tenant = d.tenant
             /\ Row(d, doc, version, taken).written = d.version
             /\ Row(d, doc, version, taken).content = d.content
  BY <1>1, <1>2 DEF Row, ActiveDocument
<1>3. CASE Found(d) = {} /\ Write(d, Row(d, nextId, 1, {})) /\ nextId' = nextId + 1
  <2> DEFINE r == Row(d, nextId, 1, {})
  <2>1. r \in ActiveDocument /\ r.doc = nextId /\ Write(d, r)
        /\ r.tenant = d.tenant /\ r.written = d.version /\ r.content = d.content
    BY <1>1, <1>2, <1>3
  <2> HIDE DEF r
  <2>2. \A s \in rows : s.doc # nextId
    BY <1>1, DocumentsTyped DEF Numbered, Owns
  <2>3. ASSUME NEW u \in Tenant, memory[u] # Null PROVE memory[u].doc # nextId
    BY <1>1, <2>3, MemoryTyped DEF Numbered, Owns
  <2>4. ASSUME NEW x \in drafts PROVE x.doc # nextId
    BY <1>1, DraftTyped DEF Numbered, Owns
  <2>5. nextId' \in Nat /\ nextId <= nextId' /\ nextId < nextId'
    BY <1>1, <1>3
  <2>6. QED
    BY <2>1, <2>2, <2>3, <2>4, <2>5
<1>4. CASE /\ \E r \in Found(d) : /\ d.version \notin r.taken
                                  /\ Write(d, Row(d, d.doc, d.version, r.taken))
           /\ nextId' = nextId
  <2>1. PICK o \in rows : o.doc = d.doc /\ Write(d, Row(d, d.doc, d.version, o.taken))
    BY <1>4 DEF Found
  <2>2. o.taken \in SUBSET Nat /\ o \in Documents
    BY <1>1, DocumentsTyped DEF ActiveDocument
  <2> DEFINE r == Row(d, d.doc, d.version, o.taken)
  <2>3. r \in ActiveDocument /\ r.doc = d.doc /\ Write(d, r)
        /\ r.tenant = d.tenant /\ r.written = d.version /\ r.content = d.content
    BY <1>1, <1>2, <2>1, <2>2
  <2> HIDE DEF r
  <2>4. d.doc < nextId /\ \A s \in rows : s.doc = d.doc => s.tenant = d.tenant
    BY <1>1 DEF Numbered, Owns
  <2>5. o.tenant = d.tenant
    BY <2>1, <2>4
  <2>6. ASSUME NEW u \in Tenant, memory[u] # Null, memory[u].doc = d.doc PROVE u = d.tenant
    BY <1>1, <2>1, <2>5, <2>6 DEF Numbered, Owns
  <2>7. ASSUME NEW x \in drafts, x.doc = d.doc PROVE x.tenant = d.tenant
    BY <1>1, <2>1, <2>5, <2>7 DEF Numbered, Owns
  <2>8. nextId' \in Nat /\ nextId <= nextId' /\ d.doc < nextId'
    BY <1>1, <1>4, <2>4
  <2>9. QED
    BY <2>3, <2>4, <2>6, <2>7, <2>8
<1>5. QED
  BY <1>3, <1>4 DEF Persist

LEMMA PersistKeeps ==
    ASSUME IInv, NEW d \in drafts, Persist(d)
    PROVE  IInv'
<1>1. PICK r \in ActiveDocument :
              /\ Write(d, r)
              /\ r.tenant = d.tenant /\ r.written = d.version /\ r.content = d.content
              /\ nextId' \in Nat /\ nextId <= nextId' /\ r.doc < nextId'
              /\ \A s \in rows : s.doc = r.doc => s.tenant = d.tenant /\ r.doc = d.doc
              /\ \A u \in Tenant : memory[u] # Null /\ memory[u].doc = r.doc => u = d.tenant
              /\ \A x \in drafts : x.doc = r.doc => x.tenant = d.tenant
  BY PersistDecides
<1>2. /\ job = Null /\ usable /\ drafts' \subseteq drafts /\ Remember(d)
      /\ UNCHANGED <<client, rows, usable, index, known, uploads, exposed, lost>>
      /\ Documents = rows /\ nextId \in Nat /\ rows \in SUBSET ActiveDocument
      /\ Typed /\ Numbered /\ Drafted
  BY DEF Persist, database, IInv, Typed, Documents
<1>3. /\ d.tenant \in Tenant /\ d.doc \in Nat /\ d.version \in Nat /\ d.content \in Nat
      /\ d.seen # Null => d.doc = d.seen.doc /\ d.version = d.seen.version + 1
      /\ r.doc \in Nat
  BY <1>2, DraftTyped DEF Drafted, ActiveDocument
<1> DEFINE e == memory[d.tenant]
           replaced == IF e = Null THEN Null ELSE e.version
           kept == {o \in rows : o.doc # r.doc}
<1>4. /\ job' = [tenant |-> d.tenant, doc |-> r.doc, version |-> d.version,
                 content |-> d.content, replaced |-> replaced,
                 rows |-> kept \cup {r}, step |-> "upsert"]
      /\ overtaken' = overtaken \cup IF e = d.seen THEN {} ELSE {r.doc}
  BY <1>1 DEF Write
<1>5. /\ memory' \in [Tenant -> Remembered \cup {Null}] /\ memory'[d.tenant] # Null
      /\ \A u \in Tenant : u # d.tenant => memory'[u] = memory[u]
      /\ e = Null => memory'[d.tenant].doc = d.doc /\ memory'[d.tenant].version = d.version
      /\ e # Null => /\ memory'[d.tenant].doc = e.doc
                     /\ memory'[d.tenant].version = e.version + 1
  BY <1>2, Remembering
<1>6. replaced \in Nat \cup {Null} /\ (e # Null => replaced = e.version /\ replaced \in Nat)
  BY <1>2, <1>3, MemoryTyped
<1>7. /\ job'.tenant = d.tenant /\ job'.doc = r.doc /\ job'.version = d.version
      /\ job'.content = d.content /\ job'.replaced = replaced
      /\ job'.rows = kept \cup {r} /\ job'.step = "upsert"
  BY <1>4
<1>8. job' \in Upload /\ job' # Null
  <2>1. job' \in Upload
    BY <1>2, <1>3, <1>4, <1>6 DEF Upload
  <2>2. QED
    BY <2>1, NullIsNoRecord
<1>9. /\ overtaken \subseteq overtaken'
      /\ r.doc \notin overtaken' => e = d.seen
  BY <1>4
<1> HIDE DEF replaced, kept
<1>10. Documents' = rows \cup {r} /\ \A s : EntriesOf(s)' = EntriesOf(s)
  BY <1>2, <1>7, <1>8 DEF Documents, kept, EntriesOf
<1>11. Typed'
  BY <1>1, <1>2, <1>5, <1>8 DEF Typed
<1>12. Numbered'
  <2>1. ASSUME NEW t, NEW doc \in Nat, Owns(t, doc, rows, nextId), doc = r.doc => t = d.tenant
        PROVE  Owns(t, doc, rows \cup {r}, nextId')
    BY <1>1, <1>2, <2>1 DEF Owns
  <2>2. ASSUME NEW s \in rows PROVE Owns(s.tenant, s.doc, rows \cup {r}, nextId')
    BY <1>1, <1>2, <2>1, DocumentsTyped DEF Numbered
  <2>3. Owns(d.tenant, r.doc, rows \cup {r}, nextId')
    BY <1>1 DEF Owns
  <2>4. ASSUME NEW u \in Tenant, memory'[u] # Null
        PROVE  Owns(u, memory'[u].doc, rows \cup {r}, nextId')
    <3>1. ASSUME memory[u] # Null PROVE Owns(u, memory[u].doc, rows \cup {r}, nextId')
      BY <1>1, <1>2, <2>1, <3>1, MemoryTyped DEF Numbered
    <3>2. Owns(d.tenant, d.doc, rows \cup {r}, nextId')
      BY <1>1, <1>2, <1>3, <2>1 DEF Numbered
    <3>3. QED
      BY <1>5, <2>4, <3>1, <3>2
  <2>5. ASSUME NEW x \in drafts PROVE Owns(x.tenant, x.doc, rows \cup {r}, nextId')
    BY <1>1, <1>2, <2>1, DraftTyped DEF Numbered
  <2>6. \A s \in rows \cup {r} : Owns(s.tenant, s.doc, rows \cup {r}, nextId')
    BY <1>1, <2>2, <2>3
  <2>7. QED
    BY <1>2, <1>7, <1>10, <2>3, <2>4, <2>5, <2>6 DEF Numbered
<1>13. Drafted'
  BY <1>2 DEF Drafted
<1>14. UnderWay'
  <2>1. EntriesOf(r)' = NewEntries'
    BY <1>1, <1>7 DEF EntriesOf, NewEntries
  <2>2. r \in job'.rows /\ job'.rows = {o \in rows' : o.doc # job'.doc} \cup {r}
    BY <1>2, <1>7 DEF kept
  <2>3. ASSUME r.doc \notin overtaken'
        PROVE  /\ memory'[d.tenant].version = d.version
               /\ replaced # Null => d.version = replaced + 1
    BY <1>3, <1>5, <1>6, <1>9, <2>3 DEF replaced
  <2>4. QED
    BY <1>1, <1>2, <1>5, <1>7, <2>1, <2>2, <2>3 DEF UnderWay
<1>15. \A x \in Fresh' : x \in Fresh /\ x.document_id \notin overtaken'
  BY <1>2, <1>9 DEF Fresh
<1>16. Attributed'
  <2>1. ASSUME NEW x \in Fresh'
        PROVE  /\ x \in known'.entries
               /\ IF x.document_id = r.doc
                  THEN Old(x)'
                  ELSE \E s \in rows' : x \in EntriesOf(s)'
    <3>1. x \in Fresh /\ x \in known.entries
      BY <1>15 DEF IInv, Attributed
    <3>2. PICK s \in rows : x \in EntriesOf(s)
      BY <1>2, <3>1 DEF IInv, Attributed
    <3>3. x.document_id = s.doc /\ x.tenant = s.tenant
      BY <1>2, <3>2, RowEntriesTyped
    <3>4. CASE x.document_id = r.doc
      <4>1. s.tenant = d.tenant /\ r.doc = d.doc /\ e = d.seen
        BY <1>1, <1>9, <1>15, <3>3, <3>4
      <4>2. /\ e # Null
            /\ usable /\ (job # Null => job.tenant # x.tenant) /\ x.document_id = e.doc
               => x.version = e.version
        BY <3>1, <3>3, <4>1 DEF IInv, Current
      <4>3. x.version = e.version
        BY <1>2, <1>3, <3>4, <4>1, <4>2
      <4>4. x.version = replaced /\ replaced # Null
        BY <1>6, <4>2, <4>3, NullIsNoRecord
      <4>5. QED
        BY <1>2, <1>7, <3>1, <3>4, <4>4 DEF Old
    <3>5. CASE x.document_id # r.doc
      BY <1>2, <1>10, <3>1, <3>2, <3>5
    <3>6. QED
      BY <3>4, <3>5
  <2>2. QED
    BY <1>7, <1>8, <2>1 DEF Attributed
<1>17. Current'
  <2>1. ASSUME NEW x \in Fresh'
        PROVE  /\ memory'[x.tenant] # Null
               /\ /\ usable' /\ (job' # Null => job'.tenant # x.tenant)
                  /\ x.document_id = memory'[x.tenant].doc
                  => x.version = memory'[x.tenant].version
    <3>1. x \in Fresh /\ x.tenant \in Tenant
      BY <1>2, <1>15 DEF Fresh, Typed, Entry
    <3>2. CASE x.tenant = d.tenant
      BY <1>5, <1>7, <1>8, <3>2
    <3>3. CASE x.tenant # d.tenant
      BY <1>2, <1>5, <3>1, <3>3 DEF IInv, Current
    <3>4. QED
      BY <3>2, <3>3
  <2>2. QED
    BY <2>1 DEF Current
<1>18. Present'
  BY <1>2, <1>7, <1>9, <1>10 DEF IInv, Present, Indexed, InStep
<1>19. QED
  BY <1>11, <1>12, <1>13, <1>14, <1>16, <1>17, <1>18 DEF IInv

LEMMA UpsertKeeps ==
    ASSUME IInv, Upsert
    PROVE  IInv'
<1>1. PICK failed \in SUBSET NewEntries :
          index' = index \cup (NewEntries \ failed) /\ lost' = lost \cup failed
  BY DEF Upsert
<1>2. /\ job # Null /\ job.step = "upsert" /\ job \in Upload
      /\ UNCHANGED <<client, rows, usable, memory, drafts, nextId, uploads, exposed, overtaken>>
      /\ known' = Learned
      /\ job' = [job EXCEPT !.step = IF job.replaced = Null THEN "commit" ELSE "delete"]
  BY JobTyped DEF Upsert, database, IInv
<1>3. /\ job.tenant \in Tenant /\ job.doc \in Nat /\ job.version \in Nat
  BY <1>2 DEF Upload
<1>4. /\ job'.tenant = job.tenant /\ job'.doc = job.doc /\ job'.version = job.version
      /\ job'.content = job.content /\ job'.replaced = job.replaced /\ job'.rows = job.rows
      /\ job'.step = IF job.replaced = Null THEN "commit" ELSE "delete"
  BY <1>2 DEF Upload
<1>5. job' \in Upload /\ job' # Null
  <2>1. job' \in Upload
    BY <1>2 DEF Upload
  <2>2. QED
    BY <2>1, NullIsNoRecord
<1>6. /\ NewEntries' = NewEntries /\ \A r : EntriesOf(r)' = EntriesOf(r)
      /\ Documents' = Documents
  BY <1>2, <1>4, <1>5 DEF NewEntries, EntriesOf, Documents
<1>7. /\ NewEntries \subseteq Entry
      /\ \A e \in NewEntries : e.tenant = job.tenant /\ e.document_id = job.doc
  BY <1>2, JobTyped DEF IInv
<1>8. Typed'
  <2>1. index' \subseteq Entry /\ IsFiniteSet(index')
    <3>1. index' = (index \cup (NewEntries \ failed)) \ {}
      BY <1>1
    <3>2. QED
      BY <1>2, <3>1, IndexStaysTyped DEF IInv
  <2>2. known' \in [versions : SUBSET (Nat \X Nat), documents : SUBSET Nat,
                    entries : SUBSET Entry]
    BY <1>2, <1>3, <1>7 DEF IInv, Typed, Learned
  <2>3. QED
    BY <1>2, <1>5, <2>1, <2>2 DEF IInv, Typed
<1>9. Numbered' /\ Drafted'
  BY <1>2, <1>4, <1>5, <1>6 DEF IInv, Numbered, Drafted
<1>10. UnderWay'
  <2>1. job.doc \in known'.documents
    BY <1>2 DEF Learned
  <2>2. QED
    BY <1>2, <1>4, <1>5, <1>6, <2>1 DEF IInv, UnderWay
<1>11. /\ known.entries \subseteq known'.entries /\ NewEntries \subseteq known'.entries
       /\ \A e \in Fresh' : e \in NewEntries \/ e \in Fresh
  BY <1>1, <1>2 DEF Learned, Fresh
<1>12. Attributed'
  <2>1. ASSUME NEW e \in Fresh'
        PROVE  /\ e \in known'.entries
               /\ IF e.document_id = job.doc
                  THEN \/ job'.step = "delete" /\ Old(e)'
                       \/ job'.step \in {"delete", "commit"} /\ e \in NewEntries'
                  ELSE \E r \in rows' : e \in EntriesOf(r)'
    <3>1. CASE e \in NewEntries
      BY <1>4, <1>6, <1>7, <1>11, <3>1
    <3>2. CASE e \in Fresh
      BY <1>2, <1>4, <1>6, <1>11, <3>2 DEF IInv, Attributed, Old
    <3>3. QED
      BY <1>11, <3>1, <3>2
  <2>2. QED
    BY <1>4, <1>5, <2>1 DEF Attributed
<1>13. Current'
  <2>1. \A e \in NewEntries : memory'[e.tenant] # Null /\ job'.tenant = e.tenant
    BY <1>2, <1>4, <1>7 DEF IInv, UnderWay
  <2>2. QED
    BY <1>2, <1>4, <1>5, <1>11, <2>1 DEF IInv, Current
<1>14. Present'
  <2>1. \A r : Indexed(r) => Indexed(r)'
    BY <1>1, <1>6 DEF Indexed
  <2>2. NewEntries' \ lost' \subseteq index'
    BY <1>1, <1>6
  <2>3. QED
    BY <1>2, <1>4, <1>5, <2>1, <2>2 DEF IInv, Present, InStep
<1>15. QED
  BY <1>8, <1>9, <1>10, <1>12, <1>13, <1>14 DEF IInv

\* What is deleted is of the upload's document alone and, if it was not
\* overtaken, not of its new version; of what was to go nothing stays.
LEMMA DeletionExact ==
    ASSUME IInv, InStep({"delete"})
    PROVE  /\ \A e \in Deleted(job.doc, job.replaced) : e.document_id = job.doc
           /\ job.doc \notin overtaken => NewEntries \cap Deleted(job.doc, job.replaced) = {}
           /\ \A e \in Fresh : e.document_id = job.doc /\ Old(e) =>
                 e \in Deleted(job.doc, job.replaced)
           /\ \A r \in ActiveDocument : r.doc # job.doc =>
                 EntriesOf(r) \cap Deleted(job.doc, job.replaced) = {}
<1>1. /\ job # Null /\ job.replaced # Null /\ job.doc \in known.documents
      /\ job \in Upload /\ job.replaced \in Nat
      /\ job.doc \notin overtaken => job.version = job.replaced + 1
  BY JobTyped DEF InStep, IInv, UnderWay, Upload
<1>2. \A e \in Deleted(job.doc, job.replaced) : e.document_id = job.doc /\ e.version = job.replaced
  BY DEF Deleted
<1>3. \A e \in NewEntries : e.version = job.version
  BY <1>1, JobTyped DEF IInv
<1>4. job.doc \notin overtaken => job.version # job.replaced
  BY <1>1
<1>5. ASSUME NEW e \in Fresh, e.document_id = job.doc, Old(e)
      PROVE  e \in Deleted(job.doc, job.replaced)
  <2>1. e \in index /\ e \in known.entries
    BY DEF IInv, Attributed, Fresh
  <2>2. e.version = job.replaced
    BY <1>5 DEF Old
  <2>3. QED
    BY <1>1, <1>5, <2>1, <2>2 DEF Deleted, KnowsTenant
<1>6. QED
  BY <1>2, <1>3, <1>4, <1>5, RowEntriesTyped

LEMMA DeleteReplacedKeeps ==
    ASSUME IInv, DeleteReplaced
    PROVE  IInv'
<1>1. /\ job # Null /\ job.step = "delete" /\ job \in Upload /\ InStep({"delete"})
      /\ UNCHANGED <<client, rows, usable, memory, drafts, known, nextId, uploads,
                     exposed, lost, overtaken>>
      /\ index' = index \ Deleted(job.doc, job.replaced)
      /\ job' = [job EXCEPT !.step = "commit"]
  BY JobTyped DEF DeleteReplaced, database, history, IInv, InStep
<1>2. /\ job'.tenant = job.tenant /\ job'.doc = job.doc /\ job'.version = job.version
      /\ job'.content = job.content /\ job'.replaced = job.replaced /\ job'.rows = job.rows
      /\ job'.step = "commit"
  BY <1>1 DEF Upload
<1>3. job' \in Upload /\ job' # Null
  <2>1. job' \in Upload
    BY <1>1 DEF Upload
  <2>2. QED
    BY <2>1, NullIsNoRecord
<1>4. /\ NewEntries' = NewEntries /\ \A r : EntriesOf(r)' = EntriesOf(r)
      /\ Documents' = Documents
  BY <1>1, <1>2, <1>3 DEF NewEntries, EntriesOf, Documents
<1>5. Typed'
  <2>1. index' \subseteq Entry /\ IsFiniteSet(index')
    BY <1>1, FS_Difference DEF IInv, Typed
  <2>2. QED
    BY <1>1, <1>3, <2>1 DEF IInv, Typed
<1>6. Numbered' /\ Drafted'
  BY <1>1, <1>2, <1>3, <1>4 DEF IInv, Numbered, Drafted
<1>7. UnderWay'
  BY <1>1, <1>2, <1>3, <1>4 DEF IInv, UnderWay
<1>8. \A e \in Fresh' : e \in Fresh /\ e \notin Deleted(job.doc, job.replaced)
  BY <1>1 DEF Fresh
<1>9. Attributed'
  <2>1. ASSUME NEW e \in Fresh'
        PROVE  /\ e \in known'.entries
               /\ IF e.document_id = job.doc
                  THEN e \in NewEntries'
                  ELSE \E r \in rows' : e \in EntriesOf(r)'
    <3>1. e \in Fresh /\ (e.document_id = job.doc => ~Old(e))
      BY <1>1, <1>8, DeletionExact
    <3>2. QED
      BY <1>1, <1>4, <3>1 DEF IInv, Attributed
  <2>2. QED
    BY <1>2, <1>3, <2>1 DEF Attributed
<1>10. Current'
  BY <1>1, <1>2, <1>3, <1>8 DEF IInv, Current
<1>11. Present'
  <2>1. ASSUME NEW r \in rows, r.doc # job.doc, Indexed(r)
        PROVE  Indexed(r)'
    <3>1. r \in ActiveDocument
      BY DEF IInv, Typed
    <3>2. EntriesOf(r) \cap Deleted(job.doc, job.replaced) = {}
      BY <1>1, <2>1, <3>1, DeletionExact
    <3>3. QED
      BY <1>1, <1>4, <2>1, <3>2 DEF Indexed
  <2>2. job.doc \notin overtaken => NewEntries' \ lost' \subseteq index'
    BY <1>1, <1>4, DeletionExact DEF IInv, Present, InStep
  <2>3. QED
    BY <1>1, <1>2, <1>3, <2>1, <2>2 DEF IInv, Present, InStep
<1>12. QED
  BY <1>5, <1>6, <1>7, <1>9, <1>10, <1>11 DEF IInv

\* The rows the upload commits: the others, and one with its entries.
LEMMA JobRows ==
    ASSUME IInv, job # Null
    PROVE  /\ job.rows \subseteq ActiveDocument /\ job.rows \subseteq Documents
           /\ rows \subseteq Documents
           /\ \A r \in job.rows : r.doc # job.doc => r \in rows
           /\ \A r \in job.rows : r.doc = job.doc => EntriesOf(r) = NewEntries
           /\ \A r \in rows : r.doc # job.doc => r \in job.rows
           /\ \E r \in job.rows : EntriesOf(r) = NewEntries
<1>1. PICK r \in job.rows : /\ r.doc = job.doc /\ EntriesOf(r) = NewEntries
                            /\ job.rows = {o \in rows : o.doc # job.doc} \cup {r}
  BY DEF IInv, UnderWay
<1>2. job.rows \subseteq Documents /\ rows \subseteq Documents
  BY DEF Documents
<1>3. QED
  BY <1>1, <1>2, DocumentsTyped DEF IInv

LEMMA FinishKeeps ==
    ASSUME IInv, Finish
    PROVE  IInv'
<1>1. /\ job # Null /\ job.step = "commit" /\ job \in Upload
      /\ UNCHANGED <<client, index, known, nextId, uploads, overtaken>>
      /\ job' = Null /\ drafts' \subseteq drafts
      /\ memory' = [memory EXCEPT ![job.tenant].doc = job.doc]
      /\ memory \in [Tenant -> Remembered \cup {Null}]
      /\ \/ rows' = job.rows /\ usable' = usable /\ exposed' = exposed /\ lost' = lost
         \/ /\ rows' = rows /\ usable' = FALSE
            /\ exposed' = exposed \cup index /\ lost' = lost \cup InDoubt
  BY JobTyped DEF Finish, Commit, CommitRaises, Poisoned, IInv, Typed
<1>2. /\ job.tenant \in Tenant /\ job.doc \in Nat /\ job.version \in Nat
  BY <1>1 DEF Upload
<1>3. /\ memory[job.tenant] # Null /\ memory[job.tenant] \in Remembered
      /\ job.doc \notin overtaken => memory[job.tenant].version = job.version
  BY <1>1, <1>2 DEF IInv, UnderWay
<1>4. /\ memory'[job.tenant] # Null /\ memory'[job.tenant].doc = job.doc
      /\ memory'[job.tenant].version = memory[job.tenant].version
      /\ \A u \in Tenant : u # job.tenant => memory'[u] = memory[u]
      /\ memory' \in [Tenant -> Remembered \cup {Null}]
  <2> DEFINE record == [memory[job.tenant] EXCEPT !.doc = job.doc]
  <2>1. /\ record \in Remembered /\ record.doc = job.doc
        /\ record.version = memory[job.tenant].version
    BY <1>2, <1>3 DEF Remembered
  <2>2. record # Null
    BY <2>1, NullIsNoRecord
  <2>3. memory' = [memory EXCEPT ![job.tenant] = record]
    BY <1>1
  <2> HIDE DEF record
  <2>4. memory'[job.tenant] = record /\ \A u \in Tenant : u # job.tenant => memory'[u] = memory[u]
    BY <1>1, <1>2, <2>3
  <2>5. memory' \in [Tenant -> Remembered \cup {Null}]
    BY <1>1, <2>1, <2>3
  <2>6. QED
    BY <2>1, <2>2, <2>4, <2>5
<1>5. /\ \A r : EntriesOf(r)' = EntriesOf(r)
      /\ Documents' \subseteq Documents /\ rows' \subseteq ActiveDocument
  BY <1>1, JobRows DEF EntriesOf, Documents, IInv, Typed
<1>6. Typed'
  BY <1>1, <1>4, <1>5 DEF IInv, Typed
<1>7. Numbered'
  <2>1. ASSUME NEW t, NEW doc, Owns(t, doc, Documents, nextId)
        PROVE  Owns(t, doc, Documents', nextId)
    BY <1>5, <2>1 DEF Owns
  <2>2. ASSUME NEW u \in Tenant, memory'[u] # Null
        PROVE  Owns(u, memory'[u].doc, Documents, nextId)
    BY <1>1, <1>4, <2>2 DEF IInv, Numbered
  <2>3. QED
    BY <1>1, <1>5, <2>1, <2>2 DEF IInv, Numbered
<1>8. Drafted' /\ UnderWay'
  BY <1>1 DEF IInv, Drafted, UnderWay
<1>9. CASE rows' = job.rows /\ usable' = usable /\ exposed' = exposed /\ lost' = lost
  <2>1. Fresh' = Fresh
    BY <1>1, <1>9 DEF Fresh
  <2>2. ASSUME NEW e \in Fresh
        PROVE  /\ e.tenant \in Tenant /\ e.document_id \notin overtaken
               /\ e.document_id = job.doc => e \in NewEntries
               /\ e.document_id # job.doc => \E r \in rows : e \in EntriesOf(r) /\ r.doc # job.doc
    <3>1. e.tenant \in Tenant /\ e.document_id \notin overtaken
      BY DEF IInv, Typed, Fresh, Entry
    <3>2. e.document_id = job.doc => e \in NewEntries
      BY <1>1 DEF IInv, Attributed
    <3>3. ASSUME e.document_id # job.doc
          PROVE  \E r \in rows : e \in EntriesOf(r) /\ r.doc # job.doc
      <4>1. PICK r \in rows : e \in EntriesOf(r)
        BY <3>3 DEF IInv, Attributed
      <4>2. QED
        BY <3>3, <4>1, RowEntriesTyped DEF IInv, Typed
    <3>4. QED
      BY <3>1, <3>2, <3>3
  <2>3. Attributed'
    <3>1. ASSUME NEW e \in Fresh PROVE e \in known'.entries /\ \E r \in rows' : e \in EntriesOf(r)'
      BY <1>1, <1>5, <1>9, <2>2, JobRows DEF IInv, Attributed
    <3>2. QED
      BY <1>1, <2>1, <3>1 DEF Attributed
  <2>4. Current'
    <3>1. ASSUME NEW e \in Fresh
          PROVE  /\ memory'[e.tenant] # Null
                 /\ usable /\ e.document_id = memory'[e.tenant].doc
                    => e.version = memory'[e.tenant].version
      <4>1. CASE e.tenant = job.tenant
        <5>1. e \in NewEntries => e.version = job.version /\ e.document_id = job.doc
          BY <1>1, JobTyped DEF IInv
        <5>2. QED
          BY <1>3, <1>4, <2>2, <4>1, <5>1
      <4>2. CASE e.tenant # job.tenant
        BY <1>4, <2>2, <4>2 DEF IInv, Current
      <4>3. QED
        BY <4>1, <4>2
    <3>2. QED
      BY <1>9, <2>1, <3>1 DEF Current
  <2>5. Present'
    <3>1. \A r \in job.rows : r.doc \notin overtaken => Indexed(r)
      <4>1. \A r \in job.rows : r.doc # job.doc /\ r.doc \notin overtaken => Indexed(r)
        BY <1>1, JobRows DEF IInv, Present
      <4>2. job.doc \notin overtaken => NewEntries \ lost \subseteq index
        BY <1>1 DEF IInv, Present, InStep
      <4>3. \A r \in job.rows : r.doc = job.doc => EntriesOf(r) = NewEntries
        BY <1>1, JobRows
      <4>4. QED
        BY <4>1, <4>2, <4>3 DEF Indexed
    <3>2. QED
      BY <1>1, <1>5, <1>9, <3>1 DEF Present, InStep, Indexed
  <2>6. QED
    BY <1>6, <1>7, <1>8, <2>3, <2>4, <2>5 DEF IInv
<1>10. CASE /\ rows' = rows /\ usable' = FALSE
            /\ exposed' = exposed \cup index /\ lost' = lost \cup InDoubt
  <2>1. Attributed' /\ Current'
    BY <1>1, <1>10 DEF Attributed, Current, Fresh
  <2>2. Present'
    <3>1. \A r \in rows : r.doc = job.doc => EntriesOf(r) \subseteq InDoubt
      BY <1>1 DEF InDoubt
    <3>2. QED
      BY <1>1, <1>5, <1>10, <3>1 DEF IInv, Present, InStep, Indexed
  <2>3. QED
    BY <1>6, <1>7, <1>8, <2>1, <2>2 DEF IInv
<1>11. QED
  BY <1>1, <1>9, <1>10

LEMMA WriterRaisesKeeps ==
    ASSUME IInv, WriterRaises
    PROVE  IInv'
<1>1. /\ job # Null /\ job \in Upload /\ InStep({"upsert", "delete"})
      /\ UNCHANGED <<client, memory, nextId, uploads, overtaken>> /\ drafts' \subseteq drafts
      /\ usable' \in BOOLEAN /\ rows' \in {rows, job.rows} /\ job' = Null
      /\ exposed' = exposed \cup index'
      /\ lost' = lost \cup InDoubt \cup IF job.step = "upsert" THEN NewEntries ELSE {}
  BY JobTyped DEF WriterRaises, Commit, CommitRaises, Poisoned, IInv, Typed, InStep
<1>2. /\ job.tenant \in Tenant /\ job.doc \in Nat /\ job.version \in Nat
      /\ NewEntries \subseteq Entry
  BY <1>1, JobTyped DEF Upload, IInv
<1>3. /\ \A r : EntriesOf(r)' = EntriesOf(r)
      /\ Documents' \subseteq Documents /\ rows' \subseteq ActiveDocument
  BY <1>1, JobRows DEF EntriesOf, Documents, IInv, Typed
<1>4. /\ index' \subseteq Entry /\ IsFiniteSet(index')
      /\ known' \in [versions : SUBSET (Nat \X Nat), documents : SUBSET Nat,
                     entries : SUBSET Entry]
  <2>1. CASE UNCHANGED <<index, known>>
    BY <2>1 DEF IInv, Typed
  <2>2. CASE known' = Learned /\ \E some \in SUBSET NewEntries : index' = index \cup some
    <3>1. PICK some \in SUBSET NewEntries : index' = (index \cup some) \ {}
      BY <2>2
    <3>2. index' \subseteq Entry /\ IsFiniteSet(index')
      BY <1>1, <3>1, IndexStaysTyped DEF IInv
    <3>3. Learned \in [versions : SUBSET (Nat \X Nat), documents : SUBSET Nat,
                       entries : SUBSET Entry]
      BY <1>2 DEF IInv, Typed, Learned
    <3>4. QED
      BY <2>2, <3>2, <3>3
  <2>3. CASE /\ known' = known
             /\ \E some \in SUBSET Deleted(job.doc, job.replaced) : index' = index \ some
    <3>1. PICK some \in SUBSET Deleted(job.doc, job.replaced) : index' = index \ some
      BY <2>3
    <3>2. index \subseteq Entry /\ IsFiniteSet(index)
      BY DEF IInv, Typed
    <3>3. IsFiniteSet(index')
      BY <3>1, <3>2, FS_Difference
    <3>4. QED
      BY <2>3, <3>1, <3>2, <3>3 DEF IInv, Typed
  <2>4. QED
    BY <2>1, <2>2, <2>3 DEF WriterRaises
<1>5. Typed'
  BY <1>1, <1>3, <1>4 DEF IInv, Typed
<1>6. Numbered'
  <2>1. ASSUME NEW t, NEW doc, Owns(t, doc, Documents, nextId)
        PROVE  Owns(t, doc, Documents', nextId)
    BY <1>3, <2>1 DEF Owns
  <2>2. QED
    BY <1>1, <1>3, <2>1 DEF IInv, Numbered
<1>7. Drafted' /\ UnderWay' /\ Attributed' /\ Current'
  BY <1>1 DEF IInv, Drafted, UnderWay, Attributed, Current, Fresh
<1>8. Present'
  <2>1. /\ lost \subseteq lost'
        /\ \A r \in rows : r.doc = job.doc => EntriesOf(r) \subseteq lost'
        /\ job.step = "upsert" => NewEntries \subseteq lost' /\ index \subseteq index'
    BY <1>1 DEF InDoubt, WriterRaises
  <2>2. ASSUME NEW r \in ActiveDocument, r.doc # job.doc, Indexed(r)
        PROVE  EntriesOf(r) \ lost' \subseteq index'
    <3>1. CASE job.step = "upsert"
      BY <2>1, <2>2, <3>1 DEF Indexed
    <3>2. CASE job.step = "delete"
      <4>1. PICK some \in SUBSET Deleted(job.doc, job.replaced) : index' = index \ some
        BY <3>2 DEF WriterRaises
      <4>2. EntriesOf(r) \cap some = {}
        BY <1>1, <2>2, <3>2, DeletionExact DEF InStep
      <4>3. QED
        BY <2>1, <2>2, <4>1, <4>2 DEF Indexed
    <3>3. QED
      BY <1>1, <3>1, <3>2 DEF InStep
  <2>3. ASSUME job.doc \notin overtaken
        PROVE  NewEntries \ lost' \subseteq index'
    <3>1. CASE job.step = "upsert"
      BY <2>1, <3>1
    <3>2. CASE job.step = "delete"
      <4>1. PICK some \in SUBSET Deleted(job.doc, job.replaced) : index' = index \ some
        BY <3>2 DEF WriterRaises
      <4>2. NewEntries \cap some = {} /\ NewEntries \ lost \subseteq index
        BY <1>1, <2>3, <3>2, DeletionExact DEF InStep, IInv, Present
      <4>3. QED
        BY <2>1, <4>1, <4>2
    <3>3. QED
      BY <1>1, <3>1, <3>2 DEF InStep
  <2>4. ASSUME NEW r \in rows', r.doc \notin overtaken
        PROVE  EntriesOf(r) \ lost' \subseteq index'
    <3>1. CASE r.doc # job.doc
      <4>1. r \in rows /\ r \in ActiveDocument
        BY <1>1, <1>3, <3>1, JobRows
      <4>2. Indexed(r)
        BY <2>4, <3>1, <4>1 DEF IInv, Present
      <4>3. QED
        BY <2>2, <3>1, <4>1, <4>2
    <3>2. CASE r.doc = job.doc
      BY <1>1, <2>1, <2>3, <2>4, <3>2, JobRows
    <3>3. QED
      BY <3>1, <3>2
  <2>5. QED
    BY <1>1, <1>3, <2>4 DEF Present, InStep, Indexed
<1>9. QED
  BY <1>5, <1>6, <1>7, <1>8 DEF IInv

LEMMA RestartKeeps ==
    ASSUME IInv, Restart
    PROVE  IInv'
<1>1. /\ UNCHANGED <<client, rows, index, nextId, uploads, overtaken>>
      /\ memory' = [t \in Tenant |-> Null] /\ drafts' = {} /\ job' = Null
      /\ known' = Forgotten /\ usable' = TRUE
      /\ exposed' = exposed \cup index /\ lost' = lost \cup InDoubt
  BY DEF Restart
<1>2. Typed'
  BY <1>1 DEF IInv, Typed, Forgotten
<1>3. Numbered'
  <2>1. Documents' = rows /\ rows \subseteq Documents
    BY <1>1 DEF Documents
  <2>2. \A r \in rows : Owns(r.tenant, r.doc, rows, nextId)
    BY <2>1 DEF IInv, Numbered, Owns
  <2>3. QED
    BY <1>1, <2>1, <2>2 DEF Numbered
<1>4. Drafted' /\ UnderWay' /\ Attributed' /\ Current'
  BY <1>1 DEF Drafted, UnderWay, Attributed, Current, Fresh
<1>5. Present'
  <2>1. ASSUME NEW r \in rows, r.doc \notin overtaken
        PROVE  EntriesOf(r) \ lost' \subseteq index
    <3>1. CASE job = Null \/ r.doc # job.doc
      BY <1>1, <2>1, <3>1 DEF IInv, Present, Indexed
    <3>2. CASE job # Null /\ r.doc = job.doc
      BY <1>1, <3>2 DEF InDoubt
    <3>3. QED
      BY <3>1, <3>2
  <2>2. QED
    BY <1>1, <2>1 DEF Present, InStep, Indexed, EntriesOf
<1>6. QED
  BY <1>2, <1>3, <1>4, <1>5 DEF IInv

LEMMA NextKeeps ==
    ASSUME IInv, [Next]_vars
    PROVE  IInv'
<1>1. CASE UNCHANGED vars
  <2>1. UNCHANGED <<client, rows, usable, memory, drafts, job, index, known, nextId, uploads,
                    exposed, lost, overtaken>>
    BY <1>1 DEF vars, database, service, history
  <2>2. QED
    BY <2>1 DEF IInv, Typed, Numbered, Documents, Drafted, UnderWay, InStep, Attributed, Fresh,
                Old, Current, Present, Indexed, EntriesOf, NewEntries
<1>2. QED
  BY <1>1, StartKeeps, EmbedRaisesKeeps, PersistKeeps, PersistRaisesKeeps, UpsertKeeps,
     DeleteReplacedKeeps, FinishKeeps, WriterRaisesKeeps, RestartKeeps DEF Next

-----------------------------------------------------------------------------
(* Searches.                                                               *)

\* A caller with exactly the scope of its tenant's chunks loses no hit to the
\* filter of the retriever.
LEMMA HitsAreUsable ==
    ASSUME NEW q, NEW hits \in SUBSET Matches(q), q.acl = Scope[q.tenant],
           q.documents = Null \/ q.documents # {}
    PROVE  Usable(q, hits) = hits
BY DEF Matches, Usable

\* A search returns all that matches, or as many as it was asked for.
LEMMA HitsOfEnough ==
    ASSUME NEW q, NEW limit \in Nat, IsFiniteSet(Matches(q)), NEW hits \in Hits(q, limit)
    PROVE  /\ hits \in SUBSET Matches(q)
           /\ hits = Matches(q) \/ Cardinality(hits) = limit
<1> DEFINE M == Matches(q)
           c == Cardinality(M)
           S == {limit, c}
<1>1. c \in Nat
  BY FS_CardinalityType
<1>2. Min(S) \in S
  <2>1. \E x \in S : \A y \in S : x <= y
    <3>1. limit <= c \/ c <= limit
      BY <1>1
    <3>2. QED
      BY <1>1, <3>1
  <2> HIDE DEF S
  <2>2. QED
    BY <2>1 DEF Min
<1>3. hits \in SUBSET M /\ Cardinality(hits) = Min(S)
  BY DEF Hits, kSubset
<1> HIDE DEF M, S
<1>4. Cardinality(hits) = c => hits = M
  BY <1>3, FS_Subset DEF M
<1>5. QED
  BY <1>2, <1>3, <1>4 DEF S, M

-----------------------------------------------------------------------------

\* The invariant holds of any interleaving of uploads, failures and restarts
\* (service.py 126-347, opensearch.py 78-131).
THEOREM Invariance == Spec => []IInv
<1>1. QED
  BY InitKeeps, NextKeeps, PTL DEF Spec

\* Whenever a search can run, the index holds nothing but chunks of active
\* documents, what a restart or a failure left there, and documents of overtaken
\* uploads, whatever fails and when (opensearch.py 114-131, service.py 244-345).
THEOREM LeftoversKnown == Spec => []LeftoversExposed
<1>1. IInv => LeftoversExposed
  BY DEF IInv, Attributed, Fresh, LeftoversExposed
<1>2. QED
  BY <1>1, Invariance, PTL

\* The reader with the scope of a document that no overtaken upload wrote finds
\* each of its chunks that no failure cost, or as many chunks as were asked for,
\* for any limit (opensearch.py 168-198, hybrid.py 113-119).
THEOREM ActiveAlwaysFound == Spec => []ActiveFound
<1>1. IInv => ActiveFound
  <2> SUFFICES ASSUME IInv, job = Null, NEW r \in rows, r.doc \notin overtaken,
                      NEW documents \in {Null, {r.doc}}
               PROVE  LET q == [tenant |-> r.tenant, acl |-> Scope[r.tenant],
                                documents |-> documents]
                      IN  \A limit \in Limit : \A hits \in Hits(q, limit) :
                              \/ EntriesOf(r) \ lost \subseteq Usable(q, hits)
                              \/ Cardinality(Usable(q, hits)) = limit
    BY DEF ActiveFound
  <2> DEFINE q == [tenant |-> r.tenant, acl |-> Scope[r.tenant], documents |-> documents]
  <2>1. IsFiniteSet(Matches(q))
    <3>1. Matches(q) \in SUBSET index
      BY DEF Matches
    <3>2. QED
      BY <3>1, FS_Subset DEF IInv, Typed
  <2>2. EntriesOf(r) \ lost \subseteq Matches(q)
    <3>1. EntriesOf(r) \ lost \subseteq index
      BY DEF IInv, Present, Indexed
    <3>2. r \in ActiveDocument
      BY DEF IInv, Typed
    <3>3. QED
      BY <3>1, <3>2, RowEntriesTyped DEF Matches
  <2>3. q.tenant = r.tenant /\ q.acl = Scope[q.tenant]
    OBVIOUS
  <2>4. q.documents = Null \/ q.documents # {}
    OBVIOUS
  <2> HIDE DEF q
  <2>5. ASSUME NEW limit \in Limit, NEW hits \in Hits(q, limit)
        PROVE  \/ EntriesOf(r) \ lost \subseteq Usable(q, hits)
               \/ Cardinality(Usable(q, hits)) = limit
    <3>1. limit \in Nat
      BY SearchIndexAssumption
    <3>2. /\ hits \in SUBSET Matches(q)
          /\ hits = Matches(q) \/ Cardinality(hits) = limit
      BY <2>1, <2>5, <3>1, HitsOfEnough
    <3>3. Usable(q, hits) = hits
      BY <2>3, <2>4, <3>2, HitsAreUsable
    <3>4. QED
      BY <2>2, <3>2, <3>3
  <2>6. QED
    BY <2>5 DEF q
<1>2. QED
  BY <1>1, Invariance, PTL
=============================================================================
