------------------------ MODULE HybridRetrievalProofs ------------------------
(***************************************************************************)
(* Theorems about HybridRetrieval, for any documents, access lists, orders *)
(* of relevance, limits, budget, wiring and replacements.                  *)
(***************************************************************************)
EXTENDS HybridRetrieval, FiniteSetTheorems, SequenceTheorems, TLAPS

-----------------------------------------------------------------------------
(* Sequences made of sets.                                                 *)

\* A finite set put in a strict total order has every element at the place
\* its predecessors leave for it, and so has them all.
LEMMA InOrderComplete ==
    ASSUME NEW S, IsFiniteSet(S), NEW R,
           \A x \in S : <<x, x>> \notin R,
           \A x, y, z \in S : <<x, y>> \in R /\ <<y, z>> \in R => <<x, z>> \in R,
           \A x, y \in S : x # y => <<x, y>> \in R \/ <<y, x>> \in R
    PROVE  InOrder(S, R) \in Seq(S) /\ Range(InOrder(S, R)) = S
<1> DEFINE n == Cardinality(S)
           P(x) == Preceding(S, R, x)
           rank == [x \in S |-> Cardinality(P(x))]
           seq == InOrder(S, R)
<1>1. n \in Nat
  BY FS_CardinalityType
<1>2. ASSUME NEW x \in S
      PROVE  IsFiniteSet(P(x)) /\ Cardinality(P(x)) \in Nat /\ Cardinality(P(x)) < n
  <2>1. P(x) \in SUBSET S /\ x \notin P(x)
    BY DEF Preceding
  <2> HIDE DEF P
  <2>2. IsFiniteSet(P(x)) /\ Cardinality(P(x)) <= n /\ Cardinality(P(x)) # n
    BY <2>1, FS_Subset
  <2>3. Cardinality(P(x)) \in Nat
    BY <2>2, FS_CardinalityType
  <2>4. QED
    BY <1>1, <2>2, <2>3
<1>3. ASSUME NEW x \in S, NEW y \in S, <<x, y>> \in R
      PROVE  Cardinality(P(x)) < Cardinality(P(y))
  <2>1. P(x) \in SUBSET P(y) /\ x \in P(y) /\ x \notin P(x)
    BY <1>3 DEF Preceding
  <2> HIDE DEF P
  <2>2. Cardinality(P(x)) <= Cardinality(P(y)) /\ Cardinality(P(x)) # Cardinality(P(y))
    BY <1>2, <2>1, FS_Subset
  <2>3. QED
    BY <1>2, <2>2
<1> HIDE DEF P, n
<1>4. rank \in Injection(S, 0..(n - 1))
  <2>1. \A x \in S : rank[x] \in 0..(n - 1)
    BY <1>1, <1>2
  <2>2. ASSUME NEW x \in S, NEW y \in S, x # y PROVE rank[x] # rank[y]
    <3>1. Cardinality(P(x)) \in Nat /\ Cardinality(P(y)) \in Nat
      BY <1>2
    <3>2. Cardinality(P(x)) < Cardinality(P(y)) \/ Cardinality(P(y)) < Cardinality(P(x))
      BY <1>3, <2>2
    <3>3. Cardinality(P(x)) # Cardinality(P(y))
      BY <3>1, <3>2
    <3>4. QED
      BY <3>3
  <2>3. QED
    BY <2>1, <2>2 DEF Injection, IsInjective
<1>5. rank \in Surjection(S, 0..(n - 1))
  <2>1. IsFiniteSet(0..(n - 1)) /\ Cardinality(0..(n - 1)) = n
    BY <1>1, FS_Interval
  <2>2. QED
    BY <1>4, <2>1, FS_Injection DEF n
<1>6. ASSUME NEW i \in 1..n
      PROVE  seq[i] \in S /\ Cardinality(P(seq[i])) = i - 1
  <2>1. i - 1 \in 0..(n - 1)
    BY <1>1, <1>6
  <2>2. \E x \in S : Cardinality(P(x)) = i - 1
    BY <1>5, <2>1 DEF Surjection
  <2>3. seq[i] = CHOOSE x \in S : Cardinality(P(x)) = i - 1
    BY <1>6 DEF InOrder, n, P
  <2> HIDE DEF seq
  <2>4. QED
    BY <2>2, <2>3
<1>7. DOMAIN seq = 1..n /\ seq = [i \in 1..n |-> seq[i]]
  BY DEF InOrder, n
<1> HIDE DEF seq
<1>8. seq \in Seq(S)
  <2>1. seq \in [1..n -> S]
    BY <1>6, <1>7
  <2>2. QED
    BY <1>1, <2>1, SeqDef
<1>9. ASSUME NEW x \in S PROVE \E i \in 1..n : seq[i] = x
  <2> DEFINE i == Cardinality(P(x)) + 1
  <2>1. i \in 1..n
    BY <1>1, <1>2
  <2>2. seq[i] \in S /\ rank[seq[i]] = rank[x]
    BY <1>2, <1>6, <2>1
  <2>3. seq[i] = x
    BY <1>4, <2>2 DEF Injection, IsInjective
  <2>4. QED
    BY <2>1, <2>3
<1>10. Range(seq) = S
  BY <1>6, <1>7, <1>9 DEF Range
<1>11. QED
  BY <1>8, <1>10 DEF seq

LEMMA RowsFinite == IsFiniteSet(Row)
<1> DEFINE D == Doc \X (1..MaxVersion)
           f == [p \in D |-> [doc |-> p[1], version |-> p[2]]]
<1>1. IsFiniteSet(D)
  <2>1. IsFiniteSet(1..MaxVersion) /\ IsFiniteSet(Doc)
    BY HybridAssumption, FS_Interval
  <2>2. QED
    BY <2>1, FS_Product
<1>2. f \in Surjection(D, Row)
  <2>1. f \in [D -> Row]
    BY DEF Row
  <2>2. ASSUME NEW r \in Row PROVE \E p \in D : f[p] = r
    <3>1. <<r.doc, r.version>> \in D /\ r = [doc |-> r.doc, version |-> r.version]
      BY DEF Row
    <3>2. f[<<r.doc, r.version>>] = r
      BY <3>1
    <3>3. QED
      BY <3>1, <3>2
  <2>3. QED
    BY <2>1, <2>2 DEF Surjection
<1>3. QED
  BY <1>1, <1>2, FS_Surjection

\* What cutting and appending do to the elements of a sequence.
LEMMA CutKeeps ==
    ASSUME NEW S, NEW seq \in Seq(S), NEW limit \in Nat \ {0}
    PROVE  /\ Cut(seq, limit) \in Seq(S)
           /\ Range(Cut(seq, limit)) \subseteq Range(seq)
           /\ seq # <<>> => Cut(seq, limit) # <<>>
<1> DEFINE n == Least(Len(seq), limit)
           c == SubSeq(seq, 1, n)
<1>1. Len(seq) \in Nat /\ DOMAIN seq = 1..Len(seq)
  BY LenProperties
<1>2. n \in Nat /\ n <= Len(seq) /\ (Len(seq) # 0 => n # 0)
  BY <1>1 DEF Least
<1> HIDE DEF n
<1>3. \A i \in 1..n : seq[i] \in S
  BY <1>1, <1>2, ElementOfSeq
<1>4. c \in Seq(S) /\ Len(c) = n /\ \A i \in 1..n : c[i] = seq[i]
  <2>1. /\ c \in Seq(S)
        /\ Len(c) = IF 1 <= n THEN n - 1 + 1 ELSE 0
        /\ \A i \in 1..(n - 1 + 1) : c[i] = seq[1 + i - 1]
    BY <1>2, <1>3, SubSeqProperties
  <2>2. QED
    BY <1>2, <2>1
<1> HIDE DEF c
<1>5. Range(c) \subseteq Range(seq)
  <2>1. DOMAIN c = 1..n
    BY <1>4, LenProperties
  <2>2. QED
    BY <1>1, <1>2, <1>4, <2>1 DEF Range
<1>6. seq # <<>> => c # <<>>
  <2>1. seq # <<>> => Len(seq) # 0
    BY EmptySeq
  <2>2. Len(<<>>) = 0
    BY EmptySeq
  <2>3. QED
    BY <1>2, <1>4, <2>1, <2>2
<1>7. QED
  BY <1>4, <1>5, <1>6 DEF Cut, c, n

LEMMA AppendKeeps ==
    ASSUME NEW S, NEW seq \in Seq(S), NEW e \in S
    PROVE  /\ Append(seq, e) \in Seq(S) /\ Append(seq, e) # <<>>
           /\ Len(Append(seq, e)) = Len(seq) + 1
           /\ Range(Append(seq, e)) = Range(seq) \cup {e}
<1> DEFINE a == Append(seq, e)
<1>1. /\ a \in Seq(S) /\ a # <<>> /\ Len(a) = Len(seq) + 1
      /\ \A i \in 1..Len(seq) : a[i] = seq[i]
      /\ a[Len(seq) + 1] = e
  BY AppendProperties
<1>2. DOMAIN a = 1..(Len(seq) + 1) /\ DOMAIN seq = 1..Len(seq) /\ Len(seq) \in Nat
  BY <1>1, LenProperties
<1> HIDE DEF a
<1>3. Range(a) = Range(seq) \cup {e}
  BY <1>1, <1>2 DEF Range
<1>4. QED
  BY <1>1, <1>3 DEF a

-----------------------------------------------------------------------------
(* What the stages and the fusion return.                                  *)

LEMMA RankIsNatural ==
    ASSUME NEW rows \in SUBSET Row, NEW r, NEW stage
    PROVE  Rank(rows, r, stage) \in Nat
<1> DEFINE T == {s \in rows : relevance[stage][s] < relevance[stage][r]}
<1>1. T \in SUBSET Row
  OBVIOUS
<1> HIDE DEF T
<1>2. IsFiniteSet(T)
  BY <1>1, RowsFinite, FS_Subset
<1>3. Cardinality(T) \in Nat
  BY <1>2, FS_CardinalityType
<1>4. QED
  BY <1>3 DEF Rank, T

LEMMA ScoreIsNatural ==
    ASSUME bm25Hits \subseteq Row, NEW denseHits \in SUBSET Row, NEW r
    PROVE  Score(denseHits, r) \in Nat
<1>1. ASSUME NEW hits \in SUBSET Row, NEW stage
      PROVE  Contribution(hits, r, stage) \in Nat
  <2> DEFINE n == Rank(hits, r, stage)
  <2>1. n \in Nat
    BY RankIsNatural
  <2> HIDE DEF n
  <2>2. RrfK + 1 + n \in Nat \ {0} /\ Unit \in Nat
    BY <2>1, HybridAssumption
  <2>3. \A a \in Nat : \A b \in Nat \ {0} : a \div b \in Nat
    OBVIOUS
  <2>4. Unit \div (RrfK + 1 + n) \in Nat
    BY <2>2, <2>3
  <2>5. QED
    BY <2>4 DEF Contribution, n
<1>2. Contribution(bm25Hits, r, "bm25") \in Nat
      /\ Contribution(denseHits, r, "dense") \in Nat
  BY <1>1
<1>3. QED
  BY <1>2 DEF Score

\* The fusion ranks every candidate and nothing else.
LEMMA FusedRanksCandidates ==
    ASSUME bm25Hits \subseteq Row, NEW denseHits \in SUBSET Row
    PROVE  /\ Fused(denseHits) \in Seq(Row)
           /\ Range(Fused(denseHits)) = Candidates(denseHits)
<1> DEFINE S == Candidates(denseHits)
           score == [r \in S |-> Score(denseHits, r)]
           R == {p \in S \X S : Precedes(score, p[1], p[2])}
<1>1. S \in SUBSET Row
  BY DEF Candidates
<1>2. score \in [S -> Nat]
  BY ScoreIsNatural
<1> HIDE DEF S, score
<1>3. \A x, y \in S : <<x, y>> \in R <=> Precedes(score, x, y)
  OBVIOUS
<1>4. ASSUME NEW x \in S
      PROVE  x.doc \in Nat /\ x.version \in Nat /\ score[x] \in Nat
  <2>1. x \in Row /\ Doc \subseteq Nat /\ 1..MaxVersion \subseteq Nat
    BY <1>1, HybridAssumption
  <2>2. QED
    BY <1>2, <2>1 DEF Row
<1>5. \A x \in S : ~Precedes(score, x, x)
  BY <1>4 DEF Precedes
<1>6. \A x, y, z \in S : Precedes(score, x, y) /\ Precedes(score, y, z)
                            => Precedes(score, x, z)
  BY <1>4 DEF Precedes
<1>7. \A x, y \in S : x # y => Precedes(score, x, y) \/ Precedes(score, y, x)
  <2>1. ASSUME NEW x \in S, NEW y \in S, x.doc = y.doc, x.version = y.version
        PROVE  x = y
    BY <1>1, <2>1 DEF Row
  <2>2. QED
    BY <1>4, <2>1 DEF Precedes
<1> HIDE DEF R
<1>8. IsFiniteSet(S)
  BY <1>1, RowsFinite, FS_Subset
<1>9. InOrder(S, R) \in Seq(S) /\ Range(InOrder(S, R)) = S
  BY <1>3, <1>5, <1>6, <1>7, <1>8, InOrderComplete
<1>10. InOrder(S, R) \in Seq(Row)
  BY <1>1, <1>9, SeqMonotonic
<1>11. Fused(denseHits) = InOrder(S, R)
  BY DEF Fused, S, score, R
<1>12. QED
  BY <1>9, <1>10, <1>11 DEF S

\* A reranker returns the candidates it was given, in another order.
LEMMA OrdersKeep ==
    ASSUME ranked \in Seq(Row), NEW order \in Orders
    PROVE  /\ order \in Seq(Row)
           /\ Range(order) \subseteq Range(ranked)
           /\ ranked # <<>> => order # <<>>
<1> DEFINE n == Len(ranked)
<1>1. n \in Nat /\ DOMAIN ranked = 1..n /\ ranked \in [1..n -> Row]
  BY LenProperties
<1>2. PICK p \in Bijection(DOMAIN ranked, DOMAIN ranked) :
          order = [i \in DOMAIN ranked |-> ranked[p[i]]]
  BY DEF Orders
<1>3. p \in [1..n -> 1..n]
  BY <1>1, <1>2 DEF Bijection, Injection
<1> HIDE DEF n
<1>4. order \in [1..n -> Row] /\ \A i \in 1..n : order[i] = ranked[p[i]]
  BY <1>1, <1>2, <1>3
<1>5. order \in Seq(Row)
  BY <1>1, <1>4, SeqDef
<1>6. Range(order) \subseteq Range(ranked)
  BY <1>1, <1>3, <1>4 DEF Range
<1>7. ranked # <<>> => order # <<>>
  <2>1. DOMAIN order = 1..n
    BY <1>4
  <2>2. ranked # <<>> => n # 0
    BY EmptySeq DEF n
  <2>3. Len(order) = n
    BY <1>1, <1>4, <1>5, <2>1, LenProperties
  <2>4. Len(<<>>) = 0
    BY EmptySeq
  <2>5. QED
    BY <2>2, <2>3, <2>4
<1>8. QED
  BY <1>5, <1>6, <1>7

-----------------------------------------------------------------------------
(* Types.                                                                  *)

Wired ==
    /\ request \in Request
    /\ setup \in [providers : {1, 2}, reranker : Reranker]
    /\ relevance \in [bm25 : Ranking, dense : Ranking]

\* What has not been reached is as Init left it.
Untouched ==
    /\ pc = "start" => bm25Hits = {}
    /\ pc \in {"start", "embed"} => ranked = <<>>
    /\ pc = "rerank" => setup.reranker # "none" /\ ranked # <<>>
    /\ pc \in {"start", "embed", "rerank"} =>
           next = 1 /\ selected = <<>> /\ tokens = 0

Typed == TypeOK /\ Wired /\ Untouched

LEMMA Limits ==
    ASSUME Wired
    PROVE  request.limit \in Nat \ {0} /\ StageSize \in Nat \ {0}
  BY HybridAssumption DEF Wired, RequestShape, StageSize

LEMMA InitTyped == Init => Typed
<1> SUFFICES ASSUME Init PROVE Typed
  OBVIOUS
<1>1. <<>> \in Seq(Row) /\ Len(<<>>) = 0
  BY EmptySeq
<1>2. corpus \subseteq Row /\ OwnRows(corpus) \subseteq Row
  BY HybridAssumption DEF Init, Row, OwnRows
<1>3. QED
  BY <1>1, <1>2 DEF Init, Typed, TypeOK, Wired, Untouched, Responses

LEMMA FinishTyped ==
    ASSUME Typed, NEW result \in Responses \ {"pending"}, Finish(result),
           UNCHANGED <<stores, inputs, locals>>, provider' \in 1..setup.providers
    PROVE  Typed'
  BY DEF Typed, TypeOK, Wired, Untouched, Finish, stores, inputs, locals

LEMMA DenseHitsTyped == corpus \subseteq Row => DenseHits \in SUBSET Row
  BY DEF DenseHits, First, Fetch, OwnRows

LEMMA StepKeepsTyped ==
    ASSUME Typed, Step
    PROVE  Typed'
<1>1. /\ provider \in 1..setup.providers /\ setup.providers \in Nat
      /\ corpus \subseteq Row /\ bm25Hits \subseteq Row
      /\ ranked \in Seq(Row) /\ selected \in Seq(Row)
  BY DEF Typed, TypeOK, Wired
<1>2. request.limit \in Nat \ {0}
  BY Limits DEF Typed
<1>3. CASE BM25Search
  <2>1. bm25Hits' \subseteq Row /\ (cached' = Null \/ cached' \subseteq Row)
    BY <1>3 DEF BM25Search, First, OwnRows, Typed, TypeOK
  <2>2. QED
    BY <1>3, <2>1 DEF BM25Search, inputs, Typed, TypeOK, Wired, Untouched
<1>4. CASE BM25Raises \/ DenseRaises \/ RerankRaises
  BY <1>1, <1>4, FinishTyped
     DEF BM25Raises, DenseRaises, RerankRaises, Raised, Responses
<1>5. CASE EmbedFails
  <2>1. CASE provider < setup.providers
    BY <1>1, <1>5, <2>1 DEF EmbedFails, FallBack, stores, inputs, locals,
                            Typed, TypeOK, Wired, Untouched
  <2>2. CASE ~(provider < setup.providers)
    BY <1>1, <1>5, <2>2, FinishTyped DEF EmbedFails, FallBack, Raised, Responses
  <2>3. QED
    BY <2>1, <2>2
<1>6. CASE DenseSearch
  <2>1. ranked' \in Seq(Row)
    BY <1>1, <1>6, DenseHitsTyped, FusedRanksCandidates DEF DenseSearch
  <2>2. 1 \in 1..(Len(ranked') + 1) /\ 1 \in 1..setup.providers
    BY <1>1, <2>1, LenProperties
  <2>3. QED
    BY <1>6, <2>1, <2>2 DEF DenseSearch, inputs, Typed, TypeOK, Wired, Untouched
<1>7. CASE Rerank \/ RerankKeepsOrder
  <2>1. ranked' \in Seq(Row)
    <3>1. CASE Rerank
      BY <1>1, <1>2, <3>1, OrdersKeep, CutKeeps DEF Rerank
    <3>2. CASE RerankKeepsOrder
      BY <1>1, <1>2, <3>2, CutKeeps DEF RerankKeepsOrder
    <3>3. QED
      BY <1>7, <3>1, <3>2
  <2>2. 1 \in 1..(Len(ranked') + 1)
    BY <2>1, LenProperties
  <2>3. QED
    BY <1>7, <2>1, <2>2 DEF Rerank, RerankKeepsOrder, stores, inputs,
                            Typed, TypeOK, Wired, Untouched
<1>8. CASE Skip \/ Take
  <2>1. next \in 1..Len(ranked) /\ Len(ranked) \in Nat
    <3>1. Len(ranked) \in Nat
      BY <1>1, LenProperties
    <3>2. QED
      BY <1>8, <3>1 DEF Skip, Take, SelectionEnds, Typed, TypeOK
  <2>2. next + 1 \in 1..(Len(ranked) + 1)
    BY <2>1
  <2>3. ranked[next] \in Row
    BY <1>1, <2>1, ElementOfSeq
  <2>4. Count \in Nat
    BY <2>3, HybridAssumption DEF Count, Row
  <2>5. CASE Skip
    BY <2>2, <2>5 DEF Skip, stores, inputs, Typed, TypeOK, Wired, Untouched
  <2>6. CASE Take
    <3>1. selected' \in Seq(Row)
      BY <1>1, <2>3, <2>6, AppendKeeps DEF Take
    <3>2. Least(Count, Budget) \in Nat /\ tokens \in Nat
      BY <2>4, HybridAssumption DEF Least, Typed, TypeOK
    <3>3. tokens' \in Nat
      BY <2>6, <3>2 DEF Take
    <3>4. QED
      BY <2>2, <2>6, <3>1, <3>3
         DEF Take, stores, inputs, Typed, TypeOK, Wired, Untouched
  <2>7. QED
    BY <1>8, <2>5, <2>6
<1>9. CASE Respond
  <2>1. CASE pc' = "generate" /\ UNCHANGED response
    BY <1>9, <2>1 DEF Respond, stores, inputs, locals, Typed, TypeOK, Wired, Untouched
  <2>2. CASE ~(pc' = "generate" /\ UNCHANGED response)
    BY <1>1, <1>9, <2>2, FinishTyped DEF Respond, Responses
  <2>3. QED
    BY <2>1, <2>2
<1>10. CASE Generate
  BY <1>1, <1>10, FinishTyped DEF Generate, Responses
<1>11. CASE GenerateFails
  <2>1. CASE provider < setup.providers
    BY <1>1, <1>11, <2>1 DEF GenerateFails, FallBack, stores, inputs, locals,
                             Typed, TypeOK, Wired, Untouched
  <2>2. CASE ~(provider < setup.providers)
    BY <1>1, <1>11, <2>2, FinishTyped DEF GenerateFails, FallBack, Responses
  <2>3. QED
    BY <2>1, <2>2
<1>12. QED
  BY <1>3, <1>4, <1>5, <1>6, <1>7, <1>8, <1>9, <1>10, <1>11 DEF Step

LEMMA IngestionKeepsTyped ==
    ASSUME Typed, NEW d \in Changing, Replace(d) \/ Callback(d)
    PROVE  Typed'
<1>1. d \in Doc
  BY HybridAssumption
<1>2. CASE Replace(d)
  <2>1. corpus' \subseteq Row
    BY <1>1, <1>2 DEF Replace, Row, Typed, TypeOK
  <2>2. QED
    BY <1>1, <1>2, <2>1
       DEF Replace, inputs, locals, Typed, TypeOK, Wired, Untouched
<1>3. CASE Callback(d)
  BY <1>3 DEF Callback, DropIndex, inputs, locals, Typed, TypeOK, Wired, Untouched
<1>4. QED
  BY <1>2, <1>3

LEMMA NextKeepsTyped == Typed /\ [Next]_vars => Typed'
<1> SUFFICES ASSUME Typed, [Next]_vars PROVE Typed'
  OBVIOUS
<1>1. CASE UNCHANGED vars
  BY <1>1 DEF vars, stores, inputs, locals, Typed, TypeOK, Wired, Untouched
<1>2. QED
  BY <1>1, StepKeepsTyped, IngestionKeepsTyped DEF Next

\* Every variable of a retrieval keeps its type, and the caller has its
\* response exactly when the retrieval is over.
THEOREM TypeCorrect == Spec => []TypeOK
<1>1. Typed => TypeOK
  BY DEF Typed
<1>2. QED
  BY <1>1, InitTyped, NextKeepsTyped, PTL DEF Spec

-----------------------------------------------------------------------------
(* The token budget.  The candidates already looked at are selected or     *)
(* would not fit, and tokens only grow; the loop ends with all of them     *)
(* looked at, or with the limit reached.                                   *)

Settled == pc = "generate" \/ (pc = "done" /\ response \notin {"raised", "tool_error"})

Passed(i) == ranked[i] \in Range(selected) \/ tokens + Size[ranked[i].doc] > Budget

Spending ==
    /\ tokens <= Budget
    /\ selected = <<>> => tokens = 0
    /\ next > 1 => selected # <<>>
    /\ Len(selected) <= request.limit
    /\ \A i \in 1..(next - 1) : Passed(i)
    /\ Settled => SelectionEnds

\* What the loop reads and writes in one step.
LEMMA LoopStep ==
    ASSUME Typed, pc = "select", ~SelectionEnds
    PROVE  /\ Len(ranked) \in Nat /\ next \in 1..Len(ranked) /\ next \in Nat
           /\ ranked[next] \in Row /\ Count \in Nat
           /\ Budget \in Nat /\ tokens \in Nat
           /\ Len(selected) \in Nat /\ request.limit \in Nat
           /\ \A i \in 1..Len(ranked) : Size[ranked[i].doc] \in Nat
<1>1. ranked \in Seq(Row) /\ selected \in Seq(Row) /\ tokens \in Nat
      /\ next \in 1..(Len(ranked) + 1)
  BY DEF Typed, TypeOK
<1>2. Len(ranked) \in Nat /\ Len(selected) \in Nat
  BY <1>1, LenProperties
<1>3. next \in 1..Len(ranked)
  BY <1>1, <1>2 DEF SelectionEnds
<1>4. ASSUME NEW i \in 1..Len(ranked)
      PROVE  ranked[i] \in Row /\ Size[ranked[i].doc] \in Nat
  <2>1. ranked[i] \in Row
    BY <1>1, ElementOfSeq
  <2>2. ranked[i].doc \in Doc
    BY <2>1 DEF Row
  <2>3. QED
    BY <2>1, <2>2, HybridAssumption
<1>5. request.limit \in Nat
  BY Limits DEF Typed
<1>6. QED
  BY <1>1, <1>2, <1>3, <1>4, <1>5, HybridAssumption DEF Count

LEMMA SkipSpends ==
    ASSUME Typed, Spending, Skip
    PROVE  Spending'
<1>1. /\ pc = "select" /\ ~SelectionEnds /\ selected # <<>>
      /\ tokens + Count > Budget /\ next' = next + 1
      /\ UNCHANGED <<pc, response, ranked, selected, tokens, request>>
  BY DEF Skip, inputs
<1>2. next \in Nat /\ Passed(next)
  BY <1>1, LoopStep DEF Passed, Count
<1>3. \A i \in 1..(next' - 1) : Passed(i)
  BY <1>1, <1>2 DEF Spending
<1>4. (\A i \in 1..(next - 1) : Passed(i))'
  BY <1>1, <1>3 DEF Passed
<1>5. ~Settled'
  BY <1>1 DEF Settled
<1>6. QED
  BY <1>1, <1>4, <1>5 DEF Spending

LEMMA TakeSpends ==
    ASSUME Typed, Spending, Take
    PROVE  Spending'
<1>1. /\ pc = "select" /\ ~SelectionEnds /\ next' = next + 1
      /\ selected' = Append(selected, ranked[next])
      /\ tokens' = tokens + Least(Count, Budget)
      /\ UNCHANGED <<pc, response, ranked, request>>
  BY DEF Take, inputs
<1>2. /\ next \in Nat /\ next \in 1..Len(ranked) /\ Count \in Nat /\ tokens \in Nat
      /\ Budget \in Nat /\ ranked[next] \in Row /\ Len(ranked) \in Nat
      /\ Len(selected) \in Nat /\ request.limit \in Nat
      /\ \A i \in 1..Len(ranked) : Size[ranked[i].doc] \in Nat
  BY <1>1, LoopStep
<1>3. selected \in Seq(Row)
  BY DEF Typed, TypeOK
<1>4. /\ selected' # <<>> /\ Len(selected') = Len(selected) + 1
      /\ Range(selected') = Range(selected) \cup {ranked[next]}
  BY <1>1, <1>2, <1>3, AppendKeeps
<1>5. tokens' \in Nat /\ tokens' >= tokens /\ tokens' <= Budget
  <2>1. CASE selected = <<>>
    BY <1>1, <1>2, <2>1 DEF Least, Spending
  <2>2. CASE selected # <<>>
    <3>1. tokens + Count <= Budget
      BY <2>2 DEF Take
    <3>2. QED
      BY <1>1, <1>2, <3>1 DEF Least
  <2>3. QED
    BY <2>1, <2>2
<1>6. Len(selected') <= request.limit
  <2>1. Len(selected) < request.limit
    <3>1. Len(<<>>) = 0 /\ request.limit # 0
      BY EmptySeq, Limits DEF Typed
    <3>2. QED
      BY <1>1, <1>2, <3>1 DEF SelectionEnds, Full
  <2>2. QED
    BY <1>2, <1>4, <2>1
<1>7. ASSUME NEW i \in 1..(next' - 1)
      PROVE  ranked[i] \in Range(selected') \/ tokens' + Size[ranked[i].doc] > Budget
  <2>1. CASE i = next
    BY <1>4, <2>1
  <2>2. CASE i # next
    <3>1. i \in 1..(next - 1) /\ i \in 1..Len(ranked)
      BY <1>1, <1>2, <1>7, <2>2
    <3>2. CASE ranked[i] \in Range(selected)
      BY <1>4, <3>2
    <3>3. CASE tokens + Size[ranked[i].doc] > Budget
      BY <1>2, <1>5, <3>1, <3>3
    <3>4. QED
      BY <3>1, <3>2, <3>3 DEF Spending, Passed
  <2>3. QED
    BY <2>1, <2>2
<1>8. (\A i \in 1..(next - 1) : Passed(i))'
  BY <1>1, <1>7 DEF Passed
<1>9. ~Settled'
  BY <1>1 DEF Settled
<1>10. QED
  BY <1>1, <1>4, <1>5, <1>6, <1>8, <1>9 DEF Spending

LEMMA NextKeepsSpending ==
    ASSUME Typed, Spending, [Next]_vars
    PROVE  Spending'
<1>1. CASE UNCHANGED vars
  BY <1>1 DEF vars, inputs, locals, Spending, Passed, Settled, SelectionEnds, Full
<1>2. CASE Skip \/ Take
  BY <1>2, SkipSpends, TakeSpends
<1>3. CASE \/ BM25Search \/ DenseSearch \/ Rerank \/ RerankKeepsOrder
  <2>1. /\ next = 1 /\ selected = <<>> /\ tokens = 0
        /\ UNCHANGED <<next, selected, tokens, request>>
        /\ pc' \in {"embed", "rerank", "select"}
    BY <1>3 DEF BM25Search, DenseSearch, Rerank, RerankKeepsOrder, inputs,
                Typed, Untouched
  <2>2. ~Settled'
    BY <2>1 DEF Settled
  <2>3. QED
    BY <2>1, <2>2 DEF Spending
<1>4. CASE \/ BM25Raises \/ EmbedFails \/ DenseRaises \/ RerankRaises
           \/ Respond \/ Generate \/ GenerateFails
           \/ \E d \in Changing : Replace(d) \/ Callback(d)
  <2>1. UNCHANGED <<next, ranked, selected, tokens, request>>
    BY <1>4 DEF BM25Raises, EmbedFails, DenseRaises, RerankRaises, Respond,
                Generate, GenerateFails, Replace, Callback, inputs, locals
  <2>2. Settled' => Settled \/ SelectionEnds
    <3>1. CASE BM25Raises \/ EmbedFails \/ DenseRaises \/ RerankRaises
      BY <3>1 DEF BM25Raises, EmbedFails, DenseRaises, RerankRaises, FallBack,
                  Raised, Finish, Settled
    <3>2. CASE Respond
      BY <3>2 DEF Respond
    <3>3. CASE Generate \/ GenerateFails
      BY <3>3 DEF Generate, GenerateFails, Settled
    <3>4. CASE \E d \in Changing : Replace(d) \/ Callback(d)
      BY <3>4 DEF Replace, Callback, Settled
    <3>5. QED
      BY <1>4, <3>1, <3>2, <3>3, <3>4
  <2>3. QED
    BY <2>1, <2>2 DEF Spending, Passed, SelectionEnds, Full
<1>5. QED
  BY <1>1, <1>2, <1>3, <1>4 DEF Next, Step

\* The budget holds for any sizes, limits and orders, and what was ranked and
\* left out would not have fitted.
THEOREM BudgetKept == Spec => []BudgetHeldAndUsed
<1>1. Init => Spending
  <2> SUFFICES ASSUME Init PROVE Spending
    OBVIOUS
  <2>1. Len(<<>>) = 0 /\ request.limit \in Nat /\ Budget \in Nat
    BY EmptySeq, HybridAssumption DEF Init, RequestShape
  <2>2. QED
    BY <2>1 DEF Init, Spending, Settled
<1>2. Typed /\ Spending /\ [Next]_vars => Spending'
  BY NextKeepsSpending
<1>3. Typed /\ Spending => BudgetHeldAndUsed
  <2> SUFFICES ASSUME Typed, Spending, Settled
               PROVE  /\ ranked # <<>> => selected # <<>>
                      /\ \A i \in DOMAIN ranked :
                            \/ ranked[i] \in Range(selected)
                            \/ Len(selected) = request.limit
                            \/ tokens + Size[ranked[i].doc] > Budget
    BY DEF BudgetHeldAndUsed, Spending, Settled
  <2>1. /\ ranked \in Seq(Row) /\ selected \in Seq(Row)
        /\ next \in 1..(Len(ranked) + 1) /\ request.limit \in Nat
    BY Limits DEF Typed, TypeOK
  <2>2. /\ Len(ranked) \in Nat /\ Len(selected) \in Nat /\ DOMAIN ranked = 1..Len(ranked)
        /\ ranked # <<>> => Len(ranked) # 0
    BY <2>1, LenProperties, EmptySeq
  <2>3. CASE Full
    BY <2>1, <2>2, <2>3 DEF Full, Spending
  <2>4. CASE ~Full
    <3>1. next = Len(ranked) + 1
      BY <2>1, <2>2, <2>4 DEF Spending, SelectionEnds
    <3>2. \A i \in 1..Len(ranked) : Passed(i)
      BY <2>2, <3>1 DEF Spending
    <3>3. ranked # <<>> => selected # <<>>
      BY <2>2, <3>1 DEF Spending
    <3>4. QED
      BY <2>2, <3>2, <3>3 DEF Passed
  <2>5. QED
    BY <2>3, <2>4
<1>4. QED
  BY <1>1, <1>2, <1>3, InitTyped, NextKeepsTyped, PTL DEF Spec

-----------------------------------------------------------------------------
(* Rows that are gone.  Their document was replaced while the retrieval    *)
(* was under way, or its callback was still to run when the index was      *)
(* read.                                                                   *)

Stored ==
    /\ cached # Null => \A r \in cached :
           /\ Owner[r.doc] = request.tenant
           /\ r \in corpus \/ r.doc \in pending
    /\ \A r \in bm25Hits : r \in corpus \/ r.doc \in lag
    /\ \A r \in Range(ranked) : r \in corpus \/ r.doc \in lag
    /\ \A r \in Range(selected) : r \in corpus \/ r.doc \in lag

LEMMA NoElements == Range(<<>>) = {}
  BY DEF Range

LEMMA StepKeepsStored ==
    ASSUME Typed, Stored, Step
    PROVE  Stored'
<1>1. /\ corpus' = corpus /\ pending' = pending /\ request' = request
  BY DEF Step, BM25Search, BM25Raises, EmbedFails, DenseRaises, DenseSearch,
         RerankRaises, RerankKeepsOrder, Rerank, Skip, Take, Respond, Generate,
         GenerateFails, stores, inputs
<1>2. CASE BM25Search
  <2>1. /\ lag' = pending /\ ranked' = <<>> /\ selected' = <<>>
    BY <1>2 DEF BM25Search, Typed, Untouched
  <2> DEFINE index == IF cached = Null THEN OwnRows(corpus) ELSE cached
  <2>2. \A r \in index : /\ Owner[r.doc] = request.tenant
                         /\ r \in corpus \/ r.doc \in pending
    BY DEF Stored, OwnRows
  <2>3. bm25Hits' \subseteq index /\ (cached' = Null \/ cached' = index)
    BY <1>2 DEF BM25Search, First
  <2> HIDE DEF index
  <2>4. QED
    BY <1>1, <2>1, <2>2, <2>3, NoElements DEF Stored
<1>3. CASE DenseSearch
  <2>1. Range(ranked') \subseteq bm25Hits \cup DenseHits
    <3>1. DenseHits \in SUBSET Row /\ bm25Hits \subseteq Row
      BY DenseHitsTyped DEF Typed, TypeOK
    <3>2. Range(ranked') = Candidates(DenseHits)
      BY <1>3, <3>1, FusedRanksCandidates DEF DenseSearch
    <3>3. QED
      BY <3>2 DEF Candidates
  <2>2. DenseHits \subseteq corpus
    BY DEF DenseHits, First, Fetch, OwnRows
  <2>3. UNCHANGED <<cached, lag, bm25Hits, selected>>
    BY <1>3 DEF DenseSearch
  <2>4. QED
    BY <1>1, <2>1, <2>2, <2>3 DEF Stored
<1>4. CASE Rerank \/ RerankKeepsOrder
  <2>1. Range(ranked') \subseteq Range(ranked)
    <3>1. ranked \in Seq(Row) /\ request.limit \in Nat \ {0}
      BY Limits DEF Typed, TypeOK
    <3>2. CASE Rerank
      <4>1. PICK order \in Orders : ranked' = Cut(order, request.limit)
        BY <3>2 DEF Rerank
      <4>2. order \in Seq(Row) /\ Range(order) \subseteq Range(ranked)
        BY <3>1, OrdersKeep
      <4>3. Range(Cut(order, request.limit)) \subseteq Range(order)
        BY <3>1, <4>2, CutKeeps
      <4>4. QED
        BY <4>1, <4>2, <4>3
    <3>3. CASE RerankKeepsOrder
      BY <3>1, <3>3, CutKeeps DEF RerankKeepsOrder
    <3>4. QED
      BY <1>4, <3>2, <3>3
  <2>2. UNCHANGED <<cached, lag, bm25Hits, selected>>
    BY <1>4 DEF Rerank, RerankKeepsOrder, stores
  <2>3. QED
    BY <1>1, <2>1, <2>2 DEF Stored
<1>5. CASE Take
  <2>1. ranked[next] \in Range(ranked) /\ ranked[next] \in Row
    <3>1. next \in 1..Len(ranked) /\ ranked[next] \in Row /\ ranked \in Seq(Row)
      BY <1>5, LoopStep DEF Take, Typed, TypeOK
    <3>2. DOMAIN ranked = 1..Len(ranked)
      BY <3>1, LenProperties
    <3>3. QED
      BY <3>1, <3>2 DEF Range
  <2>2. Range(selected') = Range(selected) \cup {ranked[next]}
    <3>1. selected \in Seq(Row) /\ selected' = Append(selected, ranked[next])
      BY <1>5 DEF Take, Typed, TypeOK
    <3>2. QED
      BY <2>1, <3>1, AppendKeeps
  <2>3. UNCHANGED <<cached, lag, bm25Hits, ranked>>
    BY <1>5 DEF Take, stores
  <2>4. QED
    BY <1>1, <2>1, <2>2, <2>3 DEF Stored
<1>6. CASE \/ BM25Raises \/ EmbedFails \/ DenseRaises \/ RerankRaises
           \/ Skip \/ Respond \/ Generate \/ GenerateFails
  <2>1. UNCHANGED <<cached, lag, bm25Hits, ranked, selected>>
    BY <1>6 DEF BM25Raises, EmbedFails, DenseRaises, RerankRaises, Skip, Respond,
                Generate, GenerateFails, stores, locals
  <2>2. QED
    BY <1>1, <2>1 DEF Stored
<1>7. QED
  BY <1>2, <1>3, <1>4, <1>5, <1>6 DEF Step

LEMMA IngestionKeepsStored ==
    ASSUME Typed, Stored, NEW d \in Changing, Replace(d) \/ Callback(d)
    PROVE  Stored'
<1>1. UNCHANGED <<request, bm25Hits, ranked, selected>>
  BY DEF Replace, Callback, inputs, locals
<1>2. CASE Replace(d)
  <2>1. /\ \A r \in corpus : r \in corpus' \/ r.doc = d
        /\ pending' = pending \cup {d} /\ lag' = lag \cup {d} /\ cached' = cached
    BY <1>2 DEF Replace
  <2>2. QED
    BY <1>1, <2>1 DEF Stored
<1>3. CASE Callback(d)
  <2>1. /\ corpus' = corpus /\ lag' = lag /\ pending' = pending \ {d}
        /\ cached' = Null \/ (cached' = cached /\ Owner[d] # request.tenant)
    BY <1>3 DEF Callback, DropIndex
  <2>2. QED
    BY <1>1, <2>1 DEF Stored
<1>4. QED
  BY <1>2, <1>3

\* What is returned is in the table of chunks unless an ingestion replaced its
\* document meanwhile, or shortly before with its callback still to run, for any
\* interleaving, and whatever rows replacements leave behind.
THEOREM StoredKept == Spec => []StoredUnlessReplaced
<1>1. Init => Stored
  BY NoElements DEF Init, Stored, OwnRows
<1>2. Typed /\ Stored /\ [Next]_vars => Stored'
  <2> SUFFICES ASSUME Typed, Stored, [Next]_vars PROVE Stored'
    OBVIOUS
  <2>1. CASE UNCHANGED vars
    BY <2>1 DEF vars, stores, inputs, locals, Stored
  <2>2. QED
    BY <2>1, StepKeepsStored, IngestionKeepsStored DEF Next
<1>3. Stored => StoredUnlessReplaced
  BY DEF Stored, StoredUnlessReplaced
<1>4. QED
  BY <1>1, <1>2, <1>3, InitTyped, NextKeepsTyped, PTL DEF Spec

-----------------------------------------------------------------------------
(* What the dense stage may miss, of the rows it read.                     *)

\* The rows the dense stage's statement finds closer than r, those of them the
\* caller may read, and the two ways r may have been crowded out.
Ahead(rows, r) ==
    {s \in OwnRows(rows) : SqlDocuments(s) /\ relevance.dense[s] < relevance.dense[r]}

Open(rows, r) == {s \in Ahead(rows, r) : Readable(s)}

Crowded(rows, r) ==
    \/ Cardinality(Open(rows, r)) >= StageSize
    \/ Cardinality(Ahead(rows, r) \ Open(rows, r)) > 2 * StageSize

\* A row the dense stage could return and did not was crowded out.
LEMMA MissedWasCrowded ==
    ASSUME Typed, NEW r \in corpus, Allowed(r), r \notin DenseHits
    PROVE  Crowded(corpus, r)
<1> DEFINE rows    == {s \in OwnRows(corpus) : SqlDocuments(s)}
           fetched == Fetch(rows)
           open    == {s \in fetched : Readable(s)}
           A       == Ahead(corpus, r)
           O       == Open(corpus, r)
<1>1. /\ A \in SUBSET Row /\ O \in SUBSET A /\ StageSize \in Nat
  BY Limits DEF Typed, TypeOK, Ahead, Open, OwnRows
<1>2. r \in rows /\ Readable(r)
  BY DEF Allowed, OwnRows, SqlDocuments
<1>3. /\ Rank(rows, r, "dense") = Cardinality(A)
      /\ r \notin fetched => ~(Cardinality(A) < 3 * StageSize)
  <2>1. {s \in rows : relevance["dense"][s] < relevance["dense"][r]} = A
    BY DEF Ahead
  <2>2. Rank(rows, r, "dense") = Cardinality(A)
    BY <2>1 DEF Rank
  <2>3. QED
    BY <1>2, <2>2 DEF Fetch, First
<1>4. r \in fetched => /\ ~(Rank(open, r, "dense") < StageSize)
                       /\ \E C \in SUBSET O : Rank(open, r, "dense") = Cardinality(C)
  <2> SUFFICES ASSUME r \in fetched
               PROVE  /\ ~(Rank(open, r, "dense") < StageSize)
                      /\ \E C \in SUBSET O : Rank(open, r, "dense") = Cardinality(C)
    OBVIOUS
  <2>1. ~(Rank(open, r, "dense") < StageSize)
    BY <1>2 DEF DenseHits, First
  <2> DEFINE closer == {s \in open : relevance["dense"][s] < relevance["dense"][r]}
  <2>2. closer \in SUBSET O
    BY DEF Fetch, First, Ahead, Open
  <2>3. Rank(open, r, "dense") = Cardinality(closer)
    BY DEF Rank
  <2> HIDE DEF closer, open, O
  <2>4. QED
    BY <2>1, <2>2, <2>3
<1>5. Crowded(corpus, r) <=> \/ Cardinality(O) >= StageSize
                            \/ Cardinality(A \ O) > 2 * StageSize
  BY DEF Crowded
<1> HIDE DEF A, O, rows, fetched, open
<1>6. /\ IsFiniteSet(A) /\ IsFiniteSet(O)
      /\ Cardinality(A) \in Nat /\ Cardinality(O) \in Nat
  <2>1. IsFiniteSet(A)
    BY <1>1, RowsFinite, FS_Subset
  <2>2. IsFiniteSet(O)
    BY <1>1, <2>1, FS_Subset
  <2>3. QED
    BY <2>1, <2>2, FS_CardinalityType
<1>7. Cardinality(A \ O) = Cardinality(A) - Cardinality(O)
  <2>1. A \cap O = O
    BY <1>1
  <2>2. Cardinality(A \ O) = Cardinality(A) - Cardinality(A \cap O)
    BY ONLY <1>6, FS_Difference
  <2>3. QED
    BY <2>1, <2>2
<1>8. CASE r \notin fetched
  <2>1. ~(Cardinality(A) < 3 * StageSize)
    BY <1>3, <1>8
  <2>2. \A a, o, n \in Nat : ~(a < 3 * n) => (o >= n \/ a - o > 2 * n)
    OBVIOUS
  <2>3. Cardinality(O) >= StageSize \/ Cardinality(A) - Cardinality(O) > 2 * StageSize
    BY <1>1, <1>6, <2>1, <2>2
  <2>4. QED
    BY <1>5, <1>7, <2>3
<1>9. CASE r \in fetched
  <2>1. PICK C \in SUBSET O : Rank(open, r, "dense") = Cardinality(C)
    BY <1>4, <1>9
  <2>2. Cardinality(C) <= Cardinality(O) /\ Cardinality(C) \in Nat
    BY <1>6, FS_Subset, FS_CardinalityType
  <2>3. ~(Cardinality(C) < StageSize)
    BY <1>4, <1>9, <2>1
  <2>4. Cardinality(O) >= StageSize
    BY <1>1, <1>6, <2>2, <2>3
  <2>5. QED
    BY <1>5, <2>4
<1>10. QED
  BY <1>8, <1>9

Crowds ==
    JustFused => \A r \in read :
        Allowed(r) /\ r \notin Range(ranked) => Crowded(read, r)

LEMMA StepKeepsCrowds ==
    ASSUME Typed, Crowds, Step
    PROVE  Crowds'
<1>1. request' = request /\ relevance' = relevance /\ setup' = setup
  BY DEF Step, BM25Search, BM25Raises, EmbedFails, DenseRaises, DenseSearch,
         RerankRaises, RerankKeepsOrder, Rerank, Skip, Take, Respond, Generate,
         GenerateFails, inputs
<1>2. CASE DenseSearch
  <2>1. ranked' = Fused(DenseHits) /\ read' = corpus
    BY <1>2 DEF DenseSearch
  <2>2. Range(ranked') = Candidates(DenseHits)
    <3>1. DenseHits \in SUBSET Row /\ bm25Hits \subseteq Row
      BY DenseHitsTyped DEF Typed, TypeOK
    <3>2. QED
      BY <2>1, <3>1, FusedRanksCandidates
  <2>3. ASSUME NEW r \in corpus, Allowed(r), r \notin Range(ranked')
        PROVE  Crowded(corpus, r)
    <3>1. r \notin DenseHits
      BY <2>2, <2>3 DEF Candidates
    <3>2. QED
      BY <2>3, <3>1, MissedWasCrowded
  <2>4. QED
    BY <1>1, <2>1, <2>3
       DEF Crowds, Allowed, Readable, SqlDocuments, OwnRows, Crowded, Ahead, Open, StageSize
<1>3. CASE Rerank \/ RerankKeepsOrder
  <2>1. ranked' # <<>> /\ setup.reranker # "none" /\ pc' = "select"
    <3>1. /\ ranked \in Seq(Row) /\ request.limit \in Nat \ {0}
          /\ ranked # <<>> /\ setup.reranker # "none"
      BY <1>3, Limits DEF Rerank, RerankKeepsOrder, Typed, TypeOK, Untouched
    <3>2. CASE Rerank
      BY <3>1, <3>2, OrdersKeep, CutKeeps DEF Rerank
    <3>3. CASE RerankKeepsOrder
      BY <3>1, <3>3, CutKeeps DEF RerankKeepsOrder
    <3>4. QED
      BY <1>3, <3>1, <3>2, <3>3
  <2>2. ~JustFused'
    BY <1>1, <2>1 DEF JustFused
  <2>3. QED
    BY <2>2 DEF Crowds
<1>4. CASE \/ BM25Search \/ BM25Raises \/ EmbedFails \/ DenseRaises
           \/ RerankRaises \/ Respond \/ Generate \/ GenerateFails
  <2>1. ~JustFused'
    BY <1>4 DEF BM25Search, BM25Raises, EmbedFails, DenseRaises, RerankRaises,
                Respond, Generate, GenerateFails, FallBack, Raised, Finish, JustFused
  <2>2. QED
    BY <2>1 DEF Crowds
<1>5. CASE Skip \/ Take
  <2>1. UNCHANGED <<pc, ranked, read>>
    BY <1>5 DEF Skip, Take, stores
  <2>2. QED
    BY <1>1, <2>1 DEF Crowds, JustFused, Allowed, Readable, SqlDocuments, OwnRows,
                      Crowded, Ahead, Open, StageSize
<1>6. QED
  BY <1>2, <1>3, <1>4, <1>5 DEF Step

\* A readable chunk of the table that neither stage returned had a full stage of
\* readable ones before it, or more hidden ones than two stages, whatever the
\* orders, access lists, limits and replacements.
THEOREM MissedAccounted == Spec => []MissedOnlyInACrowd
<1>1. Init => Crowds
  BY DEF Init, JustFused, Crowds
<1>2. Typed /\ Crowds /\ [Next]_vars => Crowds'
  <2> SUFFICES ASSUME Typed, Crowds, [Next]_vars PROVE Crowds'
    OBVIOUS
  <2>1. CASE UNCHANGED vars \/ \E d \in Changing : Replace(d) \/ Callback(d)
    <3>1. UNCHANGED <<request, relevance, setup, pc, ranked, read>>
      BY <2>1 DEF vars, stores, inputs, locals, Replace, Callback
    <3>2. QED
      BY <3>1 DEF Crowds, JustFused, Allowed, Readable, SqlDocuments, OwnRows, Crowded,
                  Ahead, Open, StageSize
  <2>2. QED
    BY <2>1, StepKeepsCrowds DEF Next
<1>3. Crowds => MissedOnlyInACrowd
  BY DEF Crowds, MissedOnlyInACrowd, Crowded, Ahead, Open
<1>4. QED
  BY <1>1, <1>2, <1>3, InitTyped, NextKeepsTyped, PTL DEF Spec
==============================================================================
