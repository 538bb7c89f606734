----------------------------- MODULE BM25Index ------------------------------
(***************************************************************************)
(* The per-tenant BM25 index that BM25Stage (src/adaptive/retrieval/       *)
(* bm25_stage.py) builds on demand and the API drops after an ingestion.   *)
(* The stage locks for callers on several threads, so every block under    *)
(* one of its locks, every query and every unlocked dictionary write is a  *)
(* step of its own.  The chunks of a tenant are abstracted to the number   *)
(* of writes committed for it (0: the tenant has none).                    *)
(***************************************************************************)
EXTENDS Naturals

CONSTANTS
    Thread,    \* callers of BM25Stage.search
    Tenant,
    Lock,      \* identities of tenant locks
    MaxWrites, \* bound: ingestions committed for a tenant
    Null

\* Every reachable lock is in an entry or in the hands of a thread.
ASSUME BM25Assumption ==
    /\ MaxWrites \in Nat
    /\ Null \notin Thread /\ Null \notin Lock /\ Null \notin Nat
    /\ Null \notin [index : Nat, lock : Lock]

\* (bm25_index, chunks, lock), the index built from `index` writes; 0: None.
Entry == [index : Nat, lock : Lock]

VARIABLES
    committed, \* writes to the tenant's chunks that are durable
    notices,   \* writes whose done callback has not run yet
    entries,   \* BM25Stage._indices
    holder,    \* which thread holds a tenant lock
    pc,        \* where each search is
    tenant,    \* local: tenant_id
    lock,      \* local: tenant_lock
    chunks,    \* local: the chunks loaded
    raced      \* history: tenants invalidated while a build was under way

vars == <<committed, notices, entries, holder, pc, tenant, lock, chunks, raced>>

TypeOK ==
    /\ committed \in [Tenant -> 0..MaxWrites]
    /\ notices \in [Tenant -> Nat]
    /\ entries \in [Tenant -> Entry \cup {Null}]
    /\ holder \in [Lock -> Thread \cup {Null}]
    /\ pc \in [Thread -> {"idle", "waiting", "locked", "loading", "loaded"}]
    /\ tenant \in [Thread -> Tenant]
    /\ lock \in [Thread -> Lock \cup {Null}]
    /\ chunks \in [Thread -> 0..MaxWrites]
    /\ raced \subseteq Tenant
    /\ \A th \in Thread : lock[th] = Null <=> pc[th] = "idle"

Init ==
    /\ committed \in [Tenant -> 0..MaxWrites]
    /\ notices = [t \in Tenant |-> 0]
    /\ entries = [t \in Tenant |-> Null]
    /\ holder = [l \in Lock |-> Null]
    /\ pc = [th \in Thread |-> "idle"]
    /\ tenant \in [Thread -> Tenant]
    /\ lock = [th \in Thread |-> Null]
    /\ chunks = [th \in Thread |-> 0]
    /\ raced = {}

Cached(t) == entries[t] # Null /\ entries[t].index # 0

-----------------------------------------------------------------------------
(* search.                                                                 *)

\* A lock object nobody can reach any more is as good as a new one.
Fresh == {l \in Lock : (\A th \in Thread : lock[th] # l)
                       /\ \A t \in Tenant : entries[t] # Null => entries[t].lock # l}

NewLock == CHOOSE l \in Fresh : TRUE

Return(th) ==
    /\ pc' = [pc EXCEPT ![th] = "idle"]
    /\ lock' = [lock EXCEPT ![th] = Null]
    /\ chunks' = [chunks EXCEPT ![th] = 0]

\* First block under _lock: answer from the cache, ...
Hit(th, t) ==
    /\ pc[th] = "idle"
    /\ Cached(t)
    /\ tenant' = [tenant EXCEPT ![th] = t]
    /\ UNCHANGED <<committed, notices, entries, holder, pc, lock, chunks, raced>>

\* ... or take the lock of the placeholder, made if need be.
Miss(th, t) ==
    /\ pc[th] = "idle"
    /\ ~Cached(t)
    /\ tenant' = [tenant EXCEPT ![th] = t]
    /\ pc' = [pc EXCEPT ![th] = "waiting"]
    /\ IF entries[t] = Null
       THEN /\ Fresh # {}
            /\ entries' = [entries EXCEPT ![t] = [index |-> 0, lock |-> NewLock]]
            /\ lock' = [lock EXCEPT ![th] = NewLock]
       ELSE /\ lock' = [lock EXCEPT ![th] = entries[t].lock]
            /\ UNCHANGED entries
    /\ UNCHANGED <<committed, notices, holder, chunks, raced>>

Acquire(th) ==
    /\ pc[th] = "waiting"
    /\ holder[lock[th]] = Null
    /\ holder' = [holder EXCEPT ![lock[th]] = th]
    /\ pc' = [pc EXCEPT ![th] = "locked"]
    /\ UNCHANGED <<committed, notices, entries, tenant, lock, chunks, raced>>

\* Mutant: the early return keeps the lock.
KeepLock(th) == UNCHANGED holder

Release(th) == holder' = [holder EXCEPT ![lock[th]] = Null]

\* Second look under _lock.
DoubleCheck(th) ==
    /\ pc[th] = "locked"
    /\ IF Cached(tenant[th])
       THEN Return(th) /\ Release(th)
       ELSE /\ pc' = [pc EXCEPT ![th] = "loading"]
            /\ UNCHANGED <<lock, chunks, holder>>
    /\ UNCHANGED <<committed, notices, entries, tenant, raced>>

Load(th) ==
    /\ pc[th] = "loading"
    /\ chunks' = [chunks EXCEPT ![th] = committed[tenant[th]]]
    /\ pc' = [pc EXCEPT ![th] = "loaded"]
    /\ UNCHANGED <<committed, notices, entries, holder, tenant, lock, raced>>

\* The query raises; the placeholder stays.
LoadRaises(th) ==
    /\ pc[th] = "loading"
    /\ Return(th) /\ Release(th)
    /\ UNCHANGED <<committed, notices, entries, tenant, raced>>

\* No chunks: whatever entry the tenant has by now is removed.
DropEntry(th) ==
    /\ pc[th] = "loaded"
    /\ chunks[th] = 0
    /\ entries' = [entries EXCEPT ![tenant[th]] = Null]
    /\ Return(th) /\ Release(th)
    /\ UNCHANGED <<committed, notices, tenant, raced>>

\* Mutant: the entry stored has lost the tenant's lock.
BuiltWithoutLock(th) == [index |-> chunks[th], lock |-> Null]

Built(th) == [index |-> chunks[th], lock |-> lock[th]]

\* Line 97: stored without _lock and without a look at what happened since.
StoreIndex(th) ==
    /\ pc[th] = "loaded"
    /\ chunks[th] # 0
    /\ entries' = [entries EXCEPT ![tenant[th]] = Built(th)]
    /\ Return(th) /\ Release(th)
    /\ UNCHANGED <<committed, notices, tenant, raced>>

-----------------------------------------------------------------------------
(* Ingestion, as the API wires it.                                         *)

\* process commits; its done callback is yet to run.
Write(t) ==
    /\ committed[t] < MaxWrites
    /\ committed' = [committed EXCEPT ![t] = @ + 1]
    /\ notices' = [notices EXCEPT ![t] = @ + 1]
    /\ UNCHANGED <<entries, holder, pc, tenant, lock, chunks, raced>>

Building(t) == \E th \in Thread : tenant[th] = t /\ pc[th] = "loaded"

\* Mutant: a placeholder only is dropped, an index built is kept.
DropPlaceholder(t) ==
    entries' = [entries EXCEPT ![t] = IF Cached(t) THEN @ ELSE Null]

Drop(t) == entries' = [entries EXCEPT ![t] = Null]

\* invalidate(tenant_id), under _lock.
Invalidate(t) ==
    /\ notices[t] > 0
    /\ notices' = [notices EXCEPT ![t] = @ - 1]
    /\ Drop(t)
    /\ raced' = IF Building(t) THEN raced \cup {t} ELSE raced
    /\ UNCHANGED <<committed, holder, pc, tenant, lock, chunks>>

\* invalidate(None): the whole dictionary.
InvalidateAll ==
    /\ entries' = [t \in Tenant |-> Null]
    /\ raced' = raced \cup {t \in Tenant : Building(t)}
    /\ UNCHANGED <<committed, notices, holder, pc, tenant, lock, chunks>>

-----------------------------------------------------------------------------
Search(th) ==
    \/ \E t \in Tenant : Hit(th, t) \/ Miss(th, t)
    \/ Acquire(th) \/ DoubleCheck(th) \/ Load(th) \/ LoadRaises(th)
    \/ DropEntry(th) \/ StoreIndex(th)

Next ==
    \/ \E th \in Thread : Search(th)
    \/ \E t \in Tenant : Write(t) \/ Invalidate(t)
    \/ InvalidateAll

Spec == Init /\ [][Next]_vars

\* A search once started goes on, a free lock is got by whoever waits for it
\* (strong fairness: others may take it in between), callbacks run.
Fairness ==
    /\ \A th \in Thread :
          /\ SF_vars(Acquire(th))
          /\ WF_vars(DoubleCheck(th) \/ Load(th) \/ LoadRaises(th)
                     \/ DropEntry(th) \/ StoreIndex(th))
    /\ \A t \in Tenant : WF_vars(Invalidate(t))

FairSpec == Spec /\ Fairness

-----------------------------------------------------------------------------
(* Properties.                                                             *)

\* A cached index misses a committed write only while the write's callback is
\* still to come, or because an invalidation fell between the load and the
\* store of a build.  On the API's one event loop a build is atomic, so only
\* the first can happen there.
StaleOnlyByRace ==
    \A t \in Tenant :
        (Cached(t) /\ entries[t].index # committed[t]) => notices[t] > 0 \/ t \in raced

\* A tenant lock is held by the thread that will release it and no other, even
\* when invalidation has replaced the lock in the dictionary.
LocksMatch ==
    \A l \in Lock, th \in Thread :
        holder[l] = th <=> lock[th] = l /\ pc[th] \in {"locked", "loading", "loaded"}

\* No search waits for ever.
SearchReturns == \A th \in Thread : pc[th] = "waiting" ~> pc[th] = "idle"
=============================================================================
