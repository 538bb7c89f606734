-------------------------- MODULE BM25IndexProofs ---------------------------
(***************************************************************************)
(* Proofs about BM25Index: for any number of threads, tenants and locks,   *)
(* who holds a tenant lock, and when a cached index may be stale.          *)
(***************************************************************************)
EXTENDS BM25Index, TLAPS

\* What a build has loaded is up to date, or its being stale is accounted for
\* already: a callback is to come or an invalidation has passed it by.
LoadedAccountedFor ==
    \A th \in Thread :
        (pc[th] = "loaded" /\ chunks[th] # committed[tenant[th]])
            => notices[tenant[th]] > 0 \/ tenant[th] \in raced

\* A dropped or replaced entry never loses track of a lock in use.
Inv == TypeOK /\ LocksMatch /\ StaleOnlyByRace /\ LoadedAccountedFor

LEMMA InitInv == Init => Inv
  BY BM25Assumption
  DEF Init, Inv, TypeOK, LocksMatch, StaleOnlyByRace, LoadedAccountedFor, Cached

LEMMA NewLockIsFresh == Fresh # {} => NewLock \in Fresh
  BY DEF NewLock

-----------------------------------------------------------------------------
(* Steps of a search.                                                      *)

LEMMA HitMissInv ==
  ASSUME Inv, NEW th \in Thread, NEW t \in Tenant, Hit(th, t) \/ Miss(th, t)
  PROVE  Inv'
<1> USE DEF Inv, Hit, Miss
<1>1. TypeOK'
  <2>1. CASE Hit(th, t)  BY <2>1 DEF TypeOK
  <2>2. CASE Miss(th, t)
    BY <2>2, BM25Assumption, NewLockIsFresh DEF TypeOK, Entry, Fresh
  <2> QED  BY <2>1, <2>2
<1>2. LocksMatch'
  BY BM25Assumption DEF LocksMatch, TypeOK
<1>3. StaleOnlyByRace'
  BY DEF StaleOnlyByRace, Cached, TypeOK
<1>4. LoadedAccountedFor'
  BY DEF LoadedAccountedFor, TypeOK
<1> QED  BY <1>1, <1>2, <1>3, <1>4

LEMMA AcquireInv ==
  ASSUME Inv, NEW th \in Thread, Acquire(th)
  PROVE  Inv'
<1> USE DEF Inv, Acquire
<1>1. TypeOK'  BY DEF TypeOK
<1>2. LocksMatch'  BY BM25Assumption DEF LocksMatch, TypeOK
<1>3. StaleOnlyByRace'  BY DEF StaleOnlyByRace, Cached
<1>4. LoadedAccountedFor'  BY DEF LoadedAccountedFor, TypeOK
<1> QED  BY <1>1, <1>2, <1>3, <1>4

\* The ways a search leaves the block under the tenant lock.
Leaves(th) ==
    /\ pc[th] \in {"locked", "loading", "loaded"}
    /\ Return(th) /\ Release(th)
    /\ UNCHANGED <<committed, notices, tenant, raced>>

LEMMA LeavesInv ==
  ASSUME Inv, NEW th \in Thread, Leaves(th)
  PROVE  /\ TypeOK /\ entries' \in [Tenant -> Entry \cup {Null}] => TypeOK'
         /\ LocksMatch'
         /\ LoadedAccountedFor'
<1> USE DEF Inv, Leaves, Return, Release
<1>1. TypeOK /\ entries' \in [Tenant -> Entry \cup {Null}] => TypeOK'
  BY BM25Assumption DEF TypeOK
<1>2. LocksMatch'  BY BM25Assumption DEF LocksMatch, TypeOK
<1>3. LoadedAccountedFor'  BY DEF LoadedAccountedFor, TypeOK
<1> QED  BY <1>1, <1>2, <1>3

LEMMA DoubleCheckInv ==
  ASSUME Inv, NEW th \in Thread, DoubleCheck(th)
  PROVE  Inv'
<1>1. CASE Cached(tenant[th])
  <2>1. Leaves(th) /\ UNCHANGED entries  BY <1>1 DEF DoubleCheck, Leaves
  <2>2. StaleOnlyByRace'  BY <2>1 DEF Inv, Leaves, StaleOnlyByRace, Cached
  <2> QED  BY <2>1, <2>2, LeavesInv DEF Inv, TypeOK
<1>2. CASE ~Cached(tenant[th])
  <2> USE <1>2 DEF Inv, DoubleCheck
  <2>1. TypeOK'  BY DEF TypeOK
  <2>2. LocksMatch'  BY DEF LocksMatch, TypeOK
  <2>3. StaleOnlyByRace'  BY DEF StaleOnlyByRace, Cached
  <2>4. LoadedAccountedFor'  BY DEF LoadedAccountedFor, TypeOK
  <2> QED  BY <2>1, <2>2, <2>3, <2>4
<1> QED  BY <1>1, <1>2

LEMMA LoadInv ==
  ASSUME Inv, NEW th \in Thread, Load(th)
  PROVE  Inv'
<1> USE DEF Inv, Load
<1>1. TypeOK'  BY DEF TypeOK
<1>2. LocksMatch'  BY DEF LocksMatch, TypeOK
<1>3. StaleOnlyByRace'  BY DEF StaleOnlyByRace, Cached
<1>4. LoadedAccountedFor'  BY DEF LoadedAccountedFor, TypeOK
<1> QED  BY <1>1, <1>2, <1>3, <1>4

\* What is stored is what LoadedAccountedFor speaks of.
LEMMA EndOfBuildInv ==
  ASSUME Inv, NEW th \in Thread, LoadRaises(th) \/ DropEntry(th) \/ StoreIndex(th)
  PROVE  Inv'
<1>1. Leaves(th)  BY DEF LoadRaises, DropEntry, StoreIndex, Leaves
<1>2. CASE LoadRaises(th)
  <2>1. UNCHANGED <<entries, committed, notices, raced>>  BY <1>2 DEF LoadRaises
  <2>2. StaleOnlyByRace'  BY <2>1 DEF Inv, StaleOnlyByRace, Cached
  <2> QED  BY <2>1, <2>2, <1>1, LeavesInv DEF Inv, TypeOK
<1>3. CASE DropEntry(th)
  <2>1. entries' \in [Tenant -> Entry \cup {Null}]  BY <1>3 DEF DropEntry, Inv, TypeOK
  <2>2. StaleOnlyByRace'
    BY <1>3 DEF DropEntry, Inv, TypeOK, StaleOnlyByRace, Cached
  <2> QED  BY <2>1, <2>2, <1>1, LeavesInv DEF Inv
<1>4. CASE StoreIndex(th)
  <2>1. Built(th) \in Entry
    BY <1>4, BM25Assumption DEF StoreIndex, Built, Inv, TypeOK, Entry
  <2>2. entries' \in [Tenant -> Entry \cup {Null}]
    BY <1>4, <2>1 DEF StoreIndex, Inv, TypeOK
  <2>3. ASSUME NEW t \in Tenant, Cached(t)', entries'[t].index # committed'[t]
        PROVE  notices'[t] > 0 \/ t \in raced'
    <3>1. CASE t = tenant[th]
      BY <3>1, <2>3, <1>4
      DEF StoreIndex, Built, Inv, TypeOK, LoadedAccountedFor
    <3>2. CASE t # tenant[th]
      BY <3>2, <2>3, <1>4 DEF StoreIndex, Inv, TypeOK, StaleOnlyByRace, Cached
    <3> QED  BY <3>1, <3>2
  <2>4. StaleOnlyByRace'  BY <2>3 DEF StaleOnlyByRace
  <2> QED  BY <2>2, <2>4, <1>1, LeavesInv DEF Inv
<1> QED  BY <1>2, <1>3, <1>4

-----------------------------------------------------------------------------
(* Steps of an ingestion.                                                  *)

LEMMA IngestionInv ==
  ASSUME Inv, NEW t \in Tenant, Write(t) \/ Invalidate(t)
  PROVE  Inv'
<1> USE BM25Assumption DEF Inv
<1>1. CASE Write(t)
  <2> USE <1>1 DEF Write
  <2>1. TypeOK'  BY DEF TypeOK
  <2>2. LocksMatch'  BY DEF LocksMatch
  <2>3. StaleOnlyByRace'  BY DEF StaleOnlyByRace, Cached, TypeOK
  <2>4. LoadedAccountedFor'  BY DEF LoadedAccountedFor, TypeOK
  <2> QED  BY <2>1, <2>2, <2>3, <2>4
<1>2. CASE Invalidate(t)
  <2> USE <1>2 DEF Invalidate, Drop
  <2>1. TypeOK'  BY DEF TypeOK
  <2>2. LocksMatch'  BY DEF LocksMatch
  <2>3. StaleOnlyByRace'  BY DEF StaleOnlyByRace, Cached, TypeOK
  <2>4. LoadedAccountedFor'  BY DEF LoadedAccountedFor, TypeOK, Building
  <2> QED  BY <2>1, <2>2, <2>3, <2>4
<1> QED  BY <1>1, <1>2

LEMMA InvalidateAllInv ==
  ASSUME Inv, InvalidateAll
  PROVE  Inv'
<1> USE DEF Inv, InvalidateAll
<1>1. TypeOK'  BY DEF TypeOK
<1>2. LocksMatch'  BY DEF LocksMatch
<1>3. StaleOnlyByRace'  BY DEF StaleOnlyByRace, Cached
<1>4. LoadedAccountedFor'  BY DEF LoadedAccountedFor, TypeOK, Building
<1> QED  BY <1>1, <1>2, <1>3, <1>4

LEMMA NextInv == Inv /\ [Next]_vars => Inv'
<1> SUFFICES ASSUME Inv, [Next]_vars PROVE Inv'
  OBVIOUS
<1>1. ASSUME NEW th \in Thread, Search(th) PROVE Inv'
  BY <1>1, HitMissInv, AcquireInv, DoubleCheckInv, LoadInv, EndOfBuildInv DEF Search
<1>2. CASE UNCHANGED vars
  BY <1>2 DEF vars, Inv, TypeOK, LocksMatch, StaleOnlyByRace, LoadedAccountedFor, Cached
<1> QED  BY <1>1, <1>2, IngestionInv, InvalidateAllInv DEF Next

LEMMA Inductive == Spec => []Inv
  BY InitInv, NextInv, PTL DEF Spec

-----------------------------------------------------------------------------
(* The theorems.                                                           *)

\* Every variable of the stage keeps its type: in particular an entry always
\* has a lock the next search can take (_indices, 42).
THEOREM TypeCorrect == Spec => []TypeOK
  BY Inductive, PTL DEF Inv

\* A tenant lock is held by exactly the thread that runs under it and will
\* release it (54), however often invalidation replaced the lock meanwhile.
THEOREM LocksAgree == Spec => []LocksMatch
  BY Inductive, PTL DEF Inv

\* For any number of threads, a cached index misses a committed write only
\* while the callback (316) is to come or because an invalidation fell into a
\* build; without threads nothing can fall into a build.
THEOREM StalenessAccounted == Spec => []StaleOnlyByRace
  BY Inductive, PTL DEF Inv
=============================================================================
