--------------------------- MODULE ChunkingProofs ---------------------------
(***************************************************************************)
(* Proofs about Chunking: for every set of documents, windows and overlaps *)
(* the chunks tile the sections, under every policy that advances, hold    *)
(* the whole text, and are each under the headings of their text.          *)
(***************************************************************************)
EXTENDS Chunking, TLAPS

\* Where the next window starts, as told by the last chunk.
Position ==
    /\ pc = "read" => chunks = <<>>
    /\ chunks = <<>> => section = 1 /\ start = 0
    /\ Advances =>
           /\ start >= 0
           /\ section <= Len(sections) => start < sections[section].words
           /\ chunks # <<>> =>
                  \/ /\ start = 0 /\ section = chunks[Len(chunks)].section + 1
                     /\ Closes(Len(chunks))
                  \/ /\ start > 0 /\ section = chunks[Len(chunks)].section
                     /\ start = chunks[Len(chunks)].to - policy.overlap_tokens

Inv == TypeOK /\ Position /\ WindowsTile

SectionShape == [path : Seq(Nat), lines : Seq(Nat), words : Nat \ {0}]
ChunkShape == [section : Nat, path : Seq(Nat), ordinal : Nat,
               from : Nat, to : Nat, token_count : Int]

\* TypeOK, conjunct by conjunct, with names for the two shapes.
LEMMA Types ==
  ASSUME TypeOK
  PROVE  /\ document \in Document /\ policy \in Policy
         /\ pc \in {"read", "cut", "returned", "failed"}
         /\ Len(document) \in Nat /\ line \in 0..Len(document) /\ total \in Nat
         /\ path \in Seq(Nat) /\ body \in [lines : Seq(Nat), words : Nat]
         /\ sections \in Seq(SectionShape) /\ Len(sections) \in Nat
         /\ section \in 1..Len(sections) + 1 /\ section \in Nat /\ start \in Int
         /\ chunks \in Seq(ChunkShape) /\ Len(chunks) \in Nat
<1>1. document \in Seq(Line)
  BY ChunkingAssumption DEF TypeOK
<1>2. sections \in Seq(SectionShape) /\ chunks \in Seq(ChunkShape)
  BY DEF TypeOK, SectionShape, ChunkShape
<1>3. Len(document) \in Nat /\ Len(sections) \in Nat /\ Len(chunks) \in Nat
  BY <1>1, <1>2
<1> QED  BY <1>2, <1>3 DEF TypeOK

\* A section in its list.
LEMMA SectionTyped ==
  ASSUME NEW q \in Seq(SectionShape), NEW i \in 1..Len(q)
  PROVE  q[i] \in SectionShape /\ q[i].words \in Nat \ {0} /\ q[i].path \in Seq(Nat)
<1>1. q[i] \in SectionShape
  OBVIOUS
<1> QED  BY <1>1 DEF SectionShape

LEMMA PolicyShape ==
  ASSUME NEW p \in Policy
  PROVE  /\ p.max_tokens \in Nat \ {0} /\ p.overlap_tokens \in Nat
         /\ p.respect_headings \in BOOLEAN
  BY ChunkingAssumption DEF Policy

LEMMA LineShape ==
  ASSUME NEW d \in Document, NEW l \in 1..Len(d)
  PROVE  /\ d \in Seq(Line) /\ Len(d) \in Nat
         /\ d[l].words \in Nat /\ d[l].level \in Nat
<1>1. d \in Seq(Line)
  BY ChunkingAssumption
<1>2. d[l] \in Line /\ Len(d) \in Nat
  BY <1>1
<1> QED  BY <1>1, <1>2 DEF Line

LEMMA SliceAtRange ==
  ASSUME NEW i \in Int, NEW n \in Nat
  PROVE  /\ SliceAt(i, n) \in Nat
         /\ (0 <= i /\ i <= n) => SliceAt(i, n) = i
  BY DEF SliceAt

LEMMA InitInv == Init => Inv
<1> SUFFICES ASSUME Init PROVE Inv
  OBVIOUS
<1>1. TypeOK
  <2>1. Len(document) \in Nat
    BY ChunkingAssumption DEF Init
  <2> QED  BY <2>1 DEF Init, TypeOK, Empty
<1>2. Position
  BY DEF Init, Position
<1>3. WindowsTile
  BY DEF Init, WindowsTile
<1> QED  BY <1>1, <1>2, <1>3 DEF Inv

-----------------------------------------------------------------------------
(* Reading the lines.                                                      *)

LEMMA ClosedType ==
  ASSUME TypeOK
  PROVE  Closed \in Seq(SectionShape)
<1>1. ASSUME body.words > 0 PROVE Section(path, body) \in SectionShape
  BY <1>1, Types DEF Section, SectionShape
<1> HIDE DEF SectionShape
<1> QED  BY <1>1, Types DEF Closed

LEMMA UnderType ==
  ASSUME TypeOK, NEW h \in Nat, NEW n \in Nat, document[h].level = n, n > 0
  PROVE  Under(h) \in Seq(Nat)
<1>1. path \in Seq(Nat)
  BY Types
<1>2. n - 1 < Len(path) => SubSeq(path, 1, n - 1) \in Seq(Nat)
  BY <1>1
<1> QED  BY <1>1, <1>2 DEF Under

LEMMA ReadLineInv ==
  ASSUME Inv, ReadLine
  PROVE  Inv'
<1> USE DEF Inv
<1>0. /\ document' = document /\ policy' = policy /\ pc' = pc /\ section' = section
      /\ start' = start /\ chunks' = chunks /\ pc = "read" /\ line < Len(document)
      /\ line' = line + 1 /\ total' = total + document[line'].words
  BY DEF ReadLine
<1>1. /\ line' \in 1..Len(document) /\ line' \in Nat
      /\ chunks = <<>> /\ section = 1 /\ start = 0
  BY <1>0, Types DEF Position
<1>2. document[line'].words \in Nat /\ document[line'].level \in Nat
  BY <1>1, Types, LineShape
<1>3. sections' \in Seq(SectionShape) /\ Len(sections') \in Nat
  <2>1. sections' \in Seq(SectionShape)
    BY ClosedType, Types DEF ReadLine
  <2> QED  BY <2>1
<1>4. TypeOK'
  <2>1. path' \in Seq(Nat)
    <3>1. CASE IsHeading(line')
      BY <1>1, <1>2, <3>1, UnderType DEF ReadLine, IsHeading
    <3>2. CASE ~IsHeading(line')
      BY <3>2, Types DEF ReadLine
    <3> QED  BY <3>1, <3>2
  <2>2. body' \in [lines : Seq(Nat), words : Nat]
    <3>1. CASE IsHeading(line')
      <4>1. body' = Empty
        BY <3>1 DEF ReadLine
      <4>2. <<>> \in Seq(Nat)
        OBVIOUS
      <4> QED  BY <4>1, <4>2 DEF Empty
    <3>2. CASE ~IsHeading(line')
      <4>1. body.lines \in Seq(Nat) /\ body.words \in Nat
        BY Types
      <4>2. /\ Append(body.lines, line') \in Seq(Nat)
            /\ body.words + document[line'].words \in Nat
        BY <4>1, <1>1, <1>2
      <4>3. body' = [lines |-> Append(body.lines, line'),
                     words |-> body.words + document[line'].words]
        BY <3>2 DEF ReadLine
      <4> QED  BY <4>2, <4>3
    <3> QED  BY <3>1, <3>2
  <2>3. section' \in 1..Len(sections') + 1 /\ total' \in Nat
    <3>1. total \in Nat
      BY Types
    <3>2. total' \in Nat
      BY <1>0, <1>2, <3>1
    <3> QED  BY <1>0, <1>1, <1>3, <3>2
  <2> QED
    BY <1>0, <1>1, <1>3, <2>1, <2>2, <2>3 DEF TypeOK, SectionShape
<1>5. Position'
  <2>1. section' <= Len(sections') => sections'[section'].words \in Nat \ {0}
    BY <1>0, <1>1, <1>3, SectionTyped
  <2> QED  BY <1>0, <1>1, <2>1 DEF Position
<1>6. WindowsTile'
  BY <1>0, <1>1 DEF WindowsTile
<1> QED  BY <1>4, <1>5, <1>6

LEMMA ReadEndInv ==
  ASSUME Inv, ReadEnd
  PROVE  Inv'
<1> USE DEF Inv
<1>0. /\ document' = document /\ policy' = policy /\ section' = section /\ line' = line
      /\ start' = start /\ chunks' = chunks /\ pc = "read" /\ total' = total
      /\ path' = path /\ body' = body /\ pc' \in {"failed", "cut"}
  BY DEF ReadEnd
<1>1. chunks = <<>> /\ section = 1 /\ start = 0
  BY <1>0 DEF Position
<1>2. sections' \in Seq(SectionShape) /\ Len(sections') \in Nat
  <2>1. total > 0 => Whole \in SectionShape
    <3>1. Len(document) \in Nat /\ total \in Nat
      BY Types
    <3>2. [l \in 1..Len(document) |-> l] \in Seq(Nat)
      BY <3>1
    <3> QED  BY <3>1, <3>2 DEF Whole, SectionShape
  <2>2. sections' \in Seq(SectionShape)
    <3>1. CASE total = 0
      <4>1. sections' = sections
        BY <3>1, Types DEF ReadEnd
      <4> QED  BY <4>1, Types
    <3>2. CASE total # 0
      <4>1. total > 0 /\ sections' = IF Closed = <<>> THEN <<Whole>> ELSE Closed
        BY <3>2, Types DEF ReadEnd
      <4>2. <<Whole>> \in Seq(SectionShape)
        BY <2>1, <4>1
      <4> QED  BY <4>1, <4>2, ClosedType
    <3> QED  BY <3>1, <3>2
  <2> QED  BY <2>2
<1>3. TypeOK'
  <2>1. section' \in 1..Len(sections') + 1
    BY <1>0, <1>1, <1>2
  <2> QED  BY <1>0, <1>2, <2>1 DEF TypeOK, SectionShape
<1>4. Position'
  <2>1. section' <= Len(sections') => sections'[section'].words \in Nat \ {0}
    BY <1>0, <1>1, <1>2, SectionTyped
  <2> QED  BY <1>0, <1>1, <2>1 DEF Position
<1>5. WindowsTile'
  BY <1>0, <1>1 DEF WindowsTile
<1> QED  BY <1>3, <1>4, <1>5

-----------------------------------------------------------------------------
(* Cutting one window.                                                     *)

LEMMA CutWindowInv ==
  ASSUME Inv, CutWindow
  PROVE  Inv'
<1> DEFINE s == sections[section]
           e == WindowEnd(s)
           c == Chunk(s, e)
           k == Len(chunks)
<1>1. /\ s \in SectionShape /\ section \in 1..Len(sections)
      /\ s.words \in Nat \ {0} /\ s.path \in Seq(Nat)
  <2>1. section \in 1..Len(sections)
    BY Types DEF Inv, CutWindow
  <2> QED  BY <2>1, Types, SectionTyped DEF Inv
<1>2. /\ policy.max_tokens \in Nat \ {0} /\ policy.overlap_tokens \in Nat
  BY Types, PolicyShape DEF Inv
<1>3. e \in Int /\ start \in Int
  <2>1. start \in Int
    BY Types DEF Inv
  <2> QED  BY <1>1, <1>2, <2>1 DEF WindowEnd
<1>4. /\ SliceAt(start, s.words) \in Nat /\ SliceAt(e, s.words) \in Nat
  BY <1>1, <1>3, SliceAtRange
<1>5. /\ c = [section |-> section, path |-> s.path, ordinal |-> k,
              from |-> SliceAt(start, s.words), to |-> SliceAt(e, s.words),
              token_count |-> e - start]
      /\ k \in Nat
  BY Types DEF Chunk, Inv
<1>6. /\ chunks' = Append(chunks, c) /\ Len(chunks') = k + 1
      /\ chunks'[k + 1] = c /\ \A i \in 1..k : chunks'[i] = chunks[i]
  <2>1. chunks' = Append(chunks, c)
    BY DEF CutWindow
  <2> QED  BY <2>1, Types DEF Inv
<1>7. \/ e = s.words /\ section' = section + 1 /\ start' = 0
      \/ e # s.words /\ start' = e - policy.overlap_tokens /\ section' = section
  BY DEF CutWindow, NextStart
<1>8. UNCHANGED <<document, policy, pc, line, total, path, body, sections>> /\ pc = "cut"
  BY DEF CutWindow
<1> HIDE DEF c
<1>9. TypeOK'
  <2>1. c \in ChunkShape
    BY <1>1, <1>3, <1>4, <1>5, Types DEF Inv, ChunkShape
  <2>2. chunks' \in Seq(ChunkShape)
    BY <2>1, <1>6, Types DEF Inv
  <2>3. start' \in Int /\ section' \in 1..Len(sections) + 1
    <3>1. Len(sections) \in Nat
      BY Types DEF Inv
    <3> QED  BY <1>1, <1>2, <1>3, <1>7, <3>1
  <2> QED  BY <1>8, <2>2, <2>3 DEF Inv, TypeOK, ChunkShape
<1>10. ASSUME Advances
       PROVE  /\ start \in Nat /\ e \in Nat /\ start < e /\ e <= s.words
              /\ c.from = start /\ c.to = e
              /\ e - start <= policy.max_tokens
              /\ e # s.words => e = start + policy.max_tokens
  <2>1. start \in Nat /\ start < s.words
    BY <1>1, <1>3, <1>10 DEF Inv, Position
  <2>2. /\ e \in Nat /\ start < e /\ e <= s.words /\ e - start <= policy.max_tokens
        /\ SliceAt(start, s.words) = start /\ SliceAt(e, s.words) = e
        /\ e # s.words => e = start + policy.max_tokens
    <3>1. e = IF start + policy.max_tokens < s.words
              THEN start + policy.max_tokens ELSE s.words
      BY DEF WindowEnd
    <3>2. s.words \in Nat
      BY <1>1
    <3> DEFINE n == s.words
               m == policy.max_tokens
    <3>3. n \in Nat /\ m \in Nat \ {0} /\ start \in Nat /\ start < n
          /\ e = IF start + m < n THEN start + m ELSE n
      BY <1>2, <2>1, <3>1, <3>2
    <3> HIDE DEF n, m, e
    \* Neither empty nor too long, and the slice is where start and end say.
    <3>4. /\ e \in Nat /\ start < e /\ e <= n /\ e - start <= m
          /\ SliceAt(start, n) = start /\ SliceAt(e, n) = e
          /\ e # n => e = start + m
      BY <3>3 DEF SliceAt
    <3> QED  BY <3>4 DEF n, m, e
  <2> QED  BY <1>5, <2>1, <2>2
<1>11. Position'
  <2>1. chunks' # <<>> /\ Len(chunks') = k + 1
    BY <1>5, <1>6
  <2>2. ASSUME Advances
        PROVE  /\ start' >= 0
               /\ section' <= Len(sections) => start' < sections[section'].words
               /\ \/ /\ start' = 0 /\ section' = c.section + 1
                     /\ c.to = sections[c.section].words
                  \/ /\ start' > 0 /\ section' = c.section
                     /\ start' = c.to - policy.overlap_tokens
    <3>1. policy.overlap_tokens < policy.max_tokens
      BY <2>2 DEF Advances
    <3>2. CASE e = s.words
      <4>1. section' = section + 1 /\ start' = 0
        BY <1>7, <3>2
      <4>2. section' <= Len(sections) => sections[section'].words \in Nat \ {0}
        <5>1. section' <= Len(sections) => section' \in 1..Len(sections)
          BY <1>1, <4>1, Types DEF Inv
        <5> QED  BY <5>1, Types, SectionTyped DEF Inv
      <4>3. c.section = section /\ c.to = s.words
        BY <1>5, <1>10, <2>2, <3>2
      <4>4. c.to = sections[c.section].words
        BY <4>3
      <4>5. section' <= Len(sections) => start' < sections[section'].words
        BY <4>1, <4>2
      <4> QED  BY <4>1, <4>3, <4>4, <4>5
    <3>3. CASE e # s.words
      <4>1. start' = e - policy.overlap_tokens /\ section' = section
        BY <1>7, <3>3
      <4>2. c.section = section /\ c.to = e
        BY <1>5, <1>10, <2>2
      <4>3. start \in Nat /\ e = start + policy.max_tokens /\ e < s.words
        BY <1>1, <1>10, <2>2, <3>3
      <4>4. start' \in Int /\ start' > 0 /\ start' < s.words
        BY <1>1, <1>2, <3>1, <4>1, <4>3
      <4> QED  BY <4>1, <4>2, <4>4
    <3> QED  BY <3>2, <3>3
  <2>3. Advances' = Advances
    BY <1>8 DEF Advances
  <2> QED  BY <1>6, <1>8, <2>1, <2>2, <2>3 DEF Position, Closes
<1>12. WindowsTile'
  <2> SUFFICES ASSUME Advances, NEW i \in 1..k + 1
               PROVE  LET d == chunks'[i]
                      IN  /\ d.ordinal = i - 1
                          /\ d.from < d.to /\ d.to - d.from = d.token_count
                          /\ d.token_count <= policy.max_tokens
                          /\ IF i = 1 \/ chunks'[i - 1].section # d.section
                             THEN /\ d.from = 0
                                  /\ d.section = (IF i = 1 THEN 1 ELSE chunks'[i - 1].section + 1)
                                  /\ i > 1 => chunks'[i - 1].to
                                                = sections[chunks'[i - 1].section].words
                             ELSE d.from = chunks'[i - 1].to - policy.overlap_tokens
    BY <1>6, <1>8 DEF WindowsTile, Advances, Opens, Closes
  <2>1. CASE i \in 1..k
    <3>1. chunks'[i] = chunks[i] /\ (i # 1 => chunks'[i - 1] = chunks[i - 1])
      BY <1>5, <1>6, <2>1
    <3> QED  BY <2>1, <3>1 DEF Inv, WindowsTile, Opens, Closes
  <2>2. CASE i = k + 1
    <3>1. chunks'[i] = c /\ (i # 1 => chunks'[i - 1] = chunks[k])
      BY <1>5, <1>6, <2>2
    <3>2. /\ c.ordinal = k /\ c.token_count = e - start /\ c.section = section
      BY <1>5
    <3>3. CASE k = 0
      <4>1. section = 1 /\ start = 0
        BY <3>3 DEF Inv, Position, TypeOK
      <4> QED  BY <1>10, <2>2, <3>1, <3>2, <3>3, <4>1
    <3>4. CASE k # 0
      <4>1. chunks # <<>> /\ chunks[k].section \in Nat
        <5>1. chunks \in Seq(ChunkShape) /\ k \in 1..Len(chunks)
          BY <3>4, <1>5, Types DEF Inv
        <5>2. chunks[k] \in ChunkShape /\ chunks # <<>>
          BY <5>1
        <5> QED  BY <5>2 DEF ChunkShape
      <4>2. \/ /\ start = 0 /\ section = chunks[k].section + 1
               /\ chunks[k].to = sections[chunks[k].section].words
            \/ /\ start > 0 /\ section = chunks[k].section
               /\ start = chunks[k].to - policy.overlap_tokens
        BY <4>1 DEF Inv, Position, Closes
      <4> QED  BY <1>5, <1>10, <2>2, <3>1, <3>2, <3>4, <4>1, <4>2
    <3> QED  BY <3>3, <3>4
  <2> QED  BY <1>5, <2>1, <2>2
<1> QED  BY <1>9, <1>11, <1>12 DEF Inv

-----------------------------------------------------------------------------

LEMMA OtherStepInv ==
  ASSUME Inv, Return \/ UNCHANGED vars
  PROVE  Inv'
<1>1. UNCHANGED <<document, policy, line, total, path, body, sections, section, start, chunks>>
  BY DEF Return, vars
<1>2. pc' \in {"read", "cut", "returned", "failed"} /\ (pc' = "read" => pc = "read")
  BY DEF Return, vars, Inv, TypeOK
<1>3. TypeOK'
  BY <1>1, <1>2 DEF Inv, TypeOK
<1>4. Position'
  BY <1>1, <1>2 DEF Inv, Position, Advances, Closes
<1>5. WindowsTile'
  BY <1>1 DEF Inv, WindowsTile, Advances, Opens, Closes
<1> QED  BY <1>3, <1>4, <1>5 DEF Inv

LEMMA InvAlways == Spec => []Inv
<1>1. Inv /\ [Next]_vars => Inv'
  BY ReadLineInv, ReadEndInv, CutWindowInv, OtherStepInv DEF Next
<1> QED  BY <1>1, InitInv, PTL DEF Spec

\* Every variable of the chunker keeps its type (chunking.py, _sections and
\* chunk_document), whatever the policy.
THEOREM TypeCorrect == Spec => []TypeOK
  BY InvAlways, PTL DEF Inv

\* The chunks chunk_document has made tile the sections, each overlapping the
\* one before by exactly overlap_tokens words, for every text and every policy
\* whose overlap is smaller than its window.
THEOREM TilesAlways == Spec => []WindowsTile
  BY InvAlways, PTL DEF Inv

-----------------------------------------------------------------------------

\* Text under its headings.  None of this takes an induction over a list: each
\* line read, heading or text, adds to one end of what is there.

In(lines, l) == \E i \in 1..Len(lines) : lines[i] = l

\* While the lines are read, each read is in one place at most, and one with
\* words is in a section or in a body that will become one.
LinesPlaced ==
    /\ pc = "read" =>
          /\ \A s \in 1..Len(sections) : \A l \in Nat :
                In(sections[s].lines, l) => l <= line /\ ~In(body.lines, l)
          /\ \A l \in Nat : In(body.lines, l) => l <= line
          /\ \A s, t \in 1..Len(sections) : \A l \in Nat :
                In(sections[s].lines, l) /\ In(sections[t].lines, l) => s = t
          /\ \A l \in 1..line : (~IsHeading(l) /\ document[l].words > 0) =>
                \/ In(body.lines, l) /\ body.words > 0
                \/ \E s \in 1..Len(sections) : In(sections[s].lines, l)
          /\ body.words > 0 => body.lines # <<>>
          /\ total > 0 => line > 0
    /\ pc \in {"cut", "returned"} => Kept

Names(p) == {p[k] : k \in 1..Len(p)}

Ascends(p) == \A k \in 1..Len(p) - 1 : p[k] < p[k + 1]

\* If no level is skipped, the k-th heading of the path is of level k, and the
\* last one is the last one read.
PathPlaced ==
    pc = "read" /\ NoLevelSkipped =>
        /\ Names(path) = Enclosing(line) /\ Ascends(path)
        /\ \A k \in 1..Len(path) :
              path[k] \in 1..line /\ IsHeading(path[k]) /\ document[path[k]].level = k
        /\ \A h \in 1..line : IsHeading(h) => Len(path) > 0 /\ h <= path[Len(path)]
        /\ body.lines # <<>> => Names(path) = Enclosing(body.lines[1])

\* A section of text is under the headings that enclose its first line.
Placed(s) ==
    ~IsHeading(s.lines[1]) => Names(s.path) = Enclosing(s.lines[1]) /\ Ascends(s.path)

SectionsPlaced == NoLevelSkipped => \A s \in 1..Len(sections) : Placed(sections[s])

\* Chunks have the path of their section, and the sections before the one
\* being cut have a last chunk.
SectionsCut ==
    /\ \A i \in 1..Len(chunks) : /\ chunks[i].section \in 1..Len(sections)
                                 /\ chunks[i].path = sections[chunks[i].section].path
    /\ \A s \in 1..section - 1 : \E i \in 1..Len(chunks) : chunks[i].section = s /\ Closes(i)
    /\ pc = "returned" => section > Len(sections)

LEMMA InAppended ==
  ASSUME NEW lines \in Seq(Nat), NEW x \in Nat, NEW l
  PROVE  In(Append(lines, x), l) <=> (In(lines, l) \/ l = x)
<1> DEFINE more == Append(lines, x)
           n == Len(lines)
<1>1. /\ n \in Nat /\ Len(more) = n + 1 /\ more[n + 1] = x
      /\ \A i \in 1..n : more[i] = lines[i]
  OBVIOUS
<1> HIDE DEF more
<1>2. \A i \in 1..n + 1 : i \in 1..n \/ i = n + 1
  BY <1>1
<1>3. n + 1 \in 1..n + 1 /\ \A i \in 1..n : i \in 1..n + 1
  BY <1>1
<1>4. QED
  BY <1>1, <1>2, <1>3 DEF In, more

\* The two ways a body is closed.
LEMMA ClosedSections ==
  ASSUME TypeOK
  PROVE  \/ /\ body.words > 0 /\ Len(Closed) = Len(sections) + 1
            /\ \A s \in 1..Len(sections) : Closed[s] = sections[s]
            /\ Closed[Len(sections) + 1] = Section(path, body)
         \/ ~(body.words > 0) /\ Closed = sections
<1>1. sections \in Seq(SectionShape) /\ Len(sections) \in Nat
  BY Types
<1>2. QED
  BY <1>1 DEF Closed

\* What is closed keeps every line in one place.
LEMMA ClosedPlaced ==
  ASSUME TypeOK, LinesPlaced, pc = "read"
  PROVE  /\ \A s \in 1..Len(Closed) : \A l \in Nat : In(Closed[s].lines, l) => l <= line
         /\ \A s, t \in 1..Len(Closed) : \A l \in Nat :
               In(Closed[s].lines, l) /\ In(Closed[t].lines, l) => s = t
         /\ \A l \in 1..line : (~IsHeading(l) /\ document[l].words > 0) =>
               \E s \in 1..Len(Closed) : In(Closed[s].lines, l)
<1>1. CASE ~(body.words > 0) /\ Closed = sections
  BY <1>1 DEF LinesPlaced
<1>2. CASE /\ body.words > 0 /\ Len(Closed) = Len(sections) + 1
           /\ \A s \in 1..Len(sections) : Closed[s] = sections[s]
           /\ Closed[Len(sections) + 1] = Section(path, body)
  <2> DEFINE n == Len(sections)
  <2>1. n \in Nat
    BY Types
  <2>2. Closed[n + 1].lines = body.lines
    BY <1>2 DEF Section
  <2>3. /\ \A s \in 1..n + 1 : s \in 1..n \/ s = n + 1
        /\ n + 1 \in 1..n + 1 /\ \A s \in 1..n : s \in 1..n + 1
    BY <2>1
  <2>4. \A s \in 1..n + 1 : \A l \in Nat : In(Closed[s].lines, l) => l <= line
    BY <1>2, <2>2, <2>3 DEF LinesPlaced
  <2>5. \A s, t \in 1..n + 1 : \A l \in Nat :
            In(Closed[s].lines, l) /\ In(Closed[t].lines, l) => s = t
    BY <1>2, <2>2, <2>3 DEF LinesPlaced
  <2>6. ASSUME NEW l \in 1..line, ~IsHeading(l), document[l].words > 0
        PROVE  \E s \in 1..n + 1 : In(Closed[s].lines, l)
    BY <1>2, <2>2, <2>3, <2>6 DEF LinesPlaced
  <2>7. QED
    BY <1>2, <2>4, <2>5, <2>6
<1>3. QED
  BY <1>1, <1>2, ClosedSections

LEMMA ReadLinePlaces ==
  ASSUME TypeOK, LinesPlaced, ReadLine
  PROVE  LinesPlaced'
<1>1. /\ document' = document /\ policy' = policy /\ pc = "read" /\ pc' = "read"
      /\ line' = line + 1 /\ line < Len(document)
      /\ total' = total + document[line'].words
  BY DEF ReadLine
<1>2. /\ line \in Nat /\ line' \in 1..Len(document) /\ line' \in Nat /\ line' > 0
      /\ \A l \in 1..line' : l \in 1..line \/ l = line'
      /\ \A l \in Nat : l <= line => l <= line' /\ l # line'
  <2>1. line \in Nat /\ Len(document) \in Nat
    BY Types
  <2>2. QED
    BY <1>1, <2>1
<1>3. \A l : IsHeading(l)' = IsHeading(l)
  BY <1>1 DEF IsHeading
<1>4. CASE IsHeading(line')
  <2>1. sections' = Closed /\ body' = Empty
    BY <1>4 DEF ReadLine
  <2>2. body'.lines = <<>> /\ ~(body'.words > 0) /\ \A l : ~In(body'.lines, l)
    BY <2>1 DEF Empty, In
  <2>3. \A l \in 1..line' : (~IsHeading(l) /\ document[l].words > 0) =>
            \E s \in 1..Len(Closed) : In(Closed[s].lines, l)
    BY <1>1, <1>2, <1>4, ClosedPlaced
  <2>4. /\ \A s \in 1..Len(Closed) : \A l \in Nat : In(Closed[s].lines, l) => l <= line'
        /\ \A s, t \in 1..Len(Closed) : \A l \in Nat :
               In(Closed[s].lines, l) /\ In(Closed[t].lines, l) => s = t
    BY <1>1, <1>2, ClosedPlaced
  <2>5. QED
    BY <1>1, <1>2, <1>3, <2>1, <2>2, <2>3, <2>4 DEF LinesPlaced
<1>5. CASE ~IsHeading(line')
  <2>1. /\ sections' = sections /\ body'.lines = Append(body.lines, line')
        /\ body'.words = body.words + document[line'].words
    BY <1>5 DEF ReadLine
  <2>2. /\ body.lines \in Seq(Nat) /\ body.words \in Nat /\ document[line'].words \in Nat
    BY <1>1, <1>2, Types, LineShape
  <2>3. \A l : In(body'.lines, l) <=> (In(body.lines, l) \/ l = line')
    BY <1>2, <2>1, <2>2, InAppended
  <2>4. /\ body.words > 0 => body'.words > 0
        /\ document[line'].words > 0 => body'.words > 0
        /\ body'.lines # <<>>
    <3>1. body'.lines # <<>>
      BY <2>1, <2>2
    <3> DEFINE b == body.words
               w == document[line'].words
    <3>2. b \in Nat /\ w \in Nat /\ body'.words = b + w
      BY <2>1, <2>2
    <3> HIDE DEF b, w
    <3>3. (b > 0 => body'.words > 0) /\ (w > 0 => body'.words > 0)
      BY <3>2
    <3>4. QED
      BY <3>1, <3>3 DEF b, w
  <2>5. /\ \A s \in 1..Len(sections) : \A l \in Nat :
               In(sections[s].lines, l) => l <= line' /\ ~In(body'.lines, l)
        /\ \A l \in Nat : In(body'.lines, l) => l <= line'
        /\ \A s, t \in 1..Len(sections) : \A l \in Nat :
               In(sections[s].lines, l) /\ In(sections[t].lines, l) => s = t
    <3>1. ASSUME NEW s \in 1..Len(sections), NEW l \in Nat, In(sections[s].lines, l)
          PROVE  l <= line' /\ ~In(body'.lines, l)
      <4>1. l <= line /\ ~In(body.lines, l)
        BY <1>1, <3>1 DEF LinesPlaced
      <4>2. QED
        BY <1>2, <2>3, <4>1
    <3>2. ASSUME NEW l \in Nat, In(body'.lines, l)
          PROVE  l <= line'
      <4>1. l <= line \/ l = line'
        BY <1>1, <2>3, <3>2 DEF LinesPlaced
      <4>2. QED
        BY <1>2, <4>1
    <3>3. \A s, t \in 1..Len(sections) : \A l \in Nat :
              In(sections[s].lines, l) /\ In(sections[t].lines, l) => s = t
      BY <1>1 DEF LinesPlaced
    <3>4. QED
      BY <3>1, <3>2, <3>3
  <2>6. ASSUME NEW l \in 1..line', ~IsHeading(l), document[l].words > 0
        PROVE  \/ In(body'.lines, l) /\ body'.words > 0
               \/ \E s \in 1..Len(sections) : In(sections[s].lines, l)
    <3>1. CASE l = line'
      BY <2>3, <2>4, <2>6, <3>1
    <3>2. CASE l \in 1..line
      <4>1. \/ In(body.lines, l) /\ body.words > 0
            \/ \E s \in 1..Len(sections) : In(sections[s].lines, l)
        BY <1>1, <2>6, <3>2 DEF LinesPlaced
      <4>2. QED
        BY <2>3, <2>4, <4>1
    <3>3. QED
      BY <1>2, <2>6, <3>1, <3>2
  <2>7. total' > 0 => line' > 0
    BY <1>2
  <2>8. QED
    BY <1>1, <1>3, <2>1, <2>4, <2>5, <2>6, <2>7 DEF LinesPlaced
<1>6. QED
  BY <1>4, <1>5

LEMMA ReadEndPlaces ==
  ASSUME TypeOK, LinesPlaced, ReadEnd
  PROVE  LinesPlaced'
<1>1. /\ document' = document /\ policy' = policy /\ pc = "read"
      /\ line = Len(document) /\ line \in Nat
  BY Types DEF ReadEnd
<1>2. \A l : IsHeading(l)' = IsHeading(l)
  BY <1>1 DEF IsHeading
<1>3. CASE pc' = "failed"
  BY <1>3 DEF LinesPlaced
<1>4. CASE pc' = "cut" /\ Closed # <<>> /\ sections' = Closed
  <2>1. \A s \in 1..Len(Closed) : Closed[s].lines \in Seq(Nat)
    BY ClosedType, SectionTyped DEF SectionShape
  <2>2. ASSUME NEW l \in 1..Len(document), ~IsHeading(l), document[l].words > 0
        PROVE  \E s \in 1..Len(Closed) :
                   /\ In(Closed[s].lines, l)
                   /\ \A t \in 1..Len(Closed) : t # s => ~In(Closed[t].lines, l)
    BY <1>1, <2>2, ClosedPlaced
  <2>3. Kept'
    BY <1>1, <1>2, <1>4, <2>2 DEF Kept, In
  <2>4. QED
    BY <1>4, <2>3 DEF LinesPlaced
<1>5. CASE pc' = "cut" /\ sections' = <<Whole>>
  <2>1. /\ Len(sections') = 1 /\ sections'[1] = Whole
        /\ Len(Whole.lines) = Len(document) /\ \A l \in 1..Len(document) : Whole.lines[l] = l
    BY <1>1, <1>5 DEF Whole
  <2>2. QED
    BY <1>1, <1>5, <2>1 DEF LinesPlaced, Kept
<1>6. QED
  BY <1>3, <1>4, <1>5 DEF ReadEnd

-----------------------------------------------------------------------------
(* The path of headings.                                                   *)

LEMMA EnclosingText ==
  ASSUME NEW l \in Nat, ~IsHeading(l + 1)
  PROVE  Enclosing(l + 1) = Enclosing(l)
<1>1. \A h : h \in 1..l + 1 /\ IsHeading(h) <=> h \in 1..l /\ IsHeading(h)
  OBVIOUS
<1>2. \A h \in 1..l : \A k : /\ k \in h + 1..l + 1 /\ IsHeading(k)
                             <=> k \in h + 1..l /\ IsHeading(k)
  OBVIOUS
<1>3. QED
  BY <1>1, <1>2 DEF Enclosing

LEMMA EnclosingHeading ==
  ASSUME NEW l \in Nat, IsHeading(l + 1)
  PROVE  Enclosing(l + 1) =
             {h \in Enclosing(l) : document[l + 1].level > document[h].level} \cup {l + 1}
<1>1. \A h : h \in 1..l + 1 <=> h \in 1..l \/ h = l + 1
  OBVIOUS
<1>2. \A h \in 1..l : \A k : k \in h + 1..l + 1 <=> k \in h + 1..l \/ k = l + 1
  OBVIOUS
<1>3. \A k : k \notin (l + 1) + 1..l + 1
  OBVIOUS
<1>4. QED
  BY <1>1, <1>2, <1>3 DEF Enclosing

\* The new heading is at most one level below the last one of the path.
LEMMA OneLevelBelow ==
  ASSUME TypeOK, PathPlaced, NoLevelSkipped, pc = "read", line < Len(document),
         IsHeading(line + 1)
  PROVE  document[line + 1].level <= Len(path) + 1
<1>1. /\ line \in Nat /\ Len(document) \in Nat /\ line + 1 \in 1..Len(document)
      /\ path \in Seq(Nat) /\ Len(path) \in Nat
  <2>1. line \in Nat /\ Len(document) \in Nat /\ path \in Seq(Nat)
    BY Types
  <2>2. QED
    BY <2>1
<1>2. document[line + 1].level \in Nat
  <2>1. document \in Document
    BY Types
  <2>2. document[line + 1].level \in Nat
    BY <1>1, <2>1, LineShape
  <2>3. QED
    BY <2>2
<1>3. CASE document[line + 1].level = 1
  BY <1>1, <1>3
<1>4. ASSUME NEW k \in 1..line, IsHeading(k),
             document[line + 1].level <= document[k].level + 1,
             \A j \in k + 1..line : ~IsHeading(j)
      PROVE  document[line + 1].level <= Len(path) + 1
  <2> DEFINE m == Len(path)
  <2>1. /\ m > 0 /\ k <= path[m]
        /\ m \in 1..m => path[m] \in 1..line /\ IsHeading(path[m]) /\ document[path[m]].level = m
    BY <1>4 DEF PathPlaced
  <2>2. m \in 1..m
    BY <1>1, <2>1
  <2>3. k = path[m]
    BY <1>1, <1>4, <2>1, <2>2
  <2>4. QED
    BY <1>4, <2>1, <2>2, <2>3
<1>5. (line + 1) - 1 = line
  BY <1>1
<1>6. QED
  BY <1>1, <1>3, <1>4, <1>5 DEF NoLevelSkipped

\* The path under a new heading of level n: its first n - 1, and itself.
LEMMA UnderKeeps ==
  ASSUME path \in Seq(Nat), NEW h \in Nat, NEW n \in Nat \ {0},
         document[h].level = n, n <= Len(path) + 1
  PROVE  /\ Len(Under(h)) = n /\ Under(h)[n] = h
         /\ \A i \in 1..n - 1 : i \in 1..Len(path) /\ Under(h)[i] = path[i]
<1>1. Len(path) \in Nat
  OBVIOUS
<1> DEFINE kept == n - 1
           first == IF kept < Len(path) THEN SubSeq(path, 1, kept) ELSE path
<1>2. /\ first \in Seq(Nat) /\ Len(first) = kept
      /\ \A i \in 1..kept : i \in 1..Len(path) /\ first[i] = path[i]
  BY <1>1
<1>3. Under(h) = Append(first, h)
  BY DEF Under
<1> HIDE DEF first
<1>4. QED
  BY <1>2, <1>3

LEMMA ReadLinePath ==
  ASSUME TypeOK, PathPlaced, ReadLine
  PROVE  PathPlaced'
<1> SUFFICES ASSUME NoLevelSkipped
             PROVE  /\ Names(path') = Enclosing(line') /\ Ascends(path')
                    /\ \A k \in 1..Len(path') : /\ path'[k] \in 1..line' /\ IsHeading(path'[k])
                                                /\ document[path'[k]].level = k
                    /\ \A h \in 1..line' : IsHeading(h) =>
                           Len(path') > 0 /\ h <= path'[Len(path')]
                    /\ body'.lines # <<>> => Names(path') = Enclosing(body'.lines[1])
  <2>1. document' = document /\ policy' = policy
    BY DEF ReadLine
  <2>2. QED
    BY <2>1 DEF PathPlaced, NoLevelSkipped, Enclosing, IsHeading, Names, Ascends
<1>1. /\ pc = "read" /\ line' = line + 1 /\ line < Len(document)
  BY DEF ReadLine
<1>2. /\ line \in Nat /\ line' \in 1..Len(document) /\ line' \in Nat /\ line' > 0
      /\ path \in Seq(Nat) /\ Len(path) \in Nat /\ body.lines \in Seq(Nat)
      /\ \A l \in 1..line' : l \in 1..line \/ l = line'
      /\ \A l \in 1..line : l \in 1..line' /\ l < line'
  <2>1. line \in Nat /\ Len(document) \in Nat /\ path \in Seq(Nat) /\ body.lines \in Seq(Nat)
    BY Types
  <2>2. QED
    BY <1>1, <2>1
<1>3. /\ Names(path) = Enclosing(line) /\ Ascends(path)
      /\ \A k \in 1..Len(path) :
            path[k] \in 1..line /\ IsHeading(path[k]) /\ document[path[k]].level = k
      /\ \A h \in 1..line : IsHeading(h) => Len(path) > 0 /\ h <= path[Len(path)]
      /\ body.lines # <<>> => Names(path) = Enclosing(body.lines[1])
  BY <1>1 DEF PathPlaced
<1>4. CASE ~IsHeading(line')
  <2>1. path' = path /\ body'.lines = Append(body.lines, line')
    BY <1>4 DEF ReadLine
  <2>2. Enclosing(line') = Enclosing(line)
    BY <1>1, <1>2, <1>4, EnclosingText
  <2>3. Names(path') = Enclosing(line') /\ Ascends(path')
    BY <1>3, <2>1, <2>2
  <2>4. \A k \in 1..Len(path') :
            path'[k] \in 1..line' /\ IsHeading(path'[k]) /\ document[path'[k]].level = k
    BY <1>2, <1>3, <2>1
  <2>5. \A h \in 1..line' : IsHeading(h) => Len(path') > 0 /\ h <= path'[Len(path')]
    BY <1>2, <1>3, <1>4, <2>1
  <2>6. Names(path') = Enclosing(body'.lines[1])
    <3>1. CASE body.lines = <<>>
      <4>1. body'.lines[1] = line'
        BY <1>2, <2>1, <3>1
      <4>2. QED
        BY <2>3, <4>1
    <3>2. CASE body.lines # <<>>
      <4>1. body'.lines[1] = body.lines[1]
        BY <1>2, <2>1, <3>2
      <4>2. QED
        BY <1>3, <2>1, <3>2, <4>1
    <3>3. QED
      BY <3>1, <3>2
  <2>7. QED
    BY <2>3, <2>4, <2>5, <2>6
<1>5. CASE IsHeading(line')
  <2> DEFINE n == document[line'].level
  <2>1. path' = Under(line') /\ body'.lines = <<>>
    BY <1>5 DEF ReadLine, Empty
  <2>2. n \in Nat \ {0} /\ n <= Len(path) + 1
    <3>1. n \in Nat
      <4>1. document \in Document
        BY Types
      <4>2. n \in Nat
        BY <1>2, <4>1, LineShape
      <4>3. QED
        BY <4>2
    <3>2. QED
      BY <1>1, <1>5, <3>1, OneLevelBelow DEF IsHeading
  <2>3. /\ Len(path') = n /\ path'[n] = line'
        /\ \A i \in 1..n - 1 : i \in 1..Len(path) /\ path'[i] = path[i]
    <3>1. line' \in Nat /\ path \in Seq(Nat)
      BY <1>2
    <3>2. /\ Len(Under(line')) = n /\ Under(line')[n] = line'
          /\ \A i \in 1..n - 1 : i \in 1..Len(path) /\ Under(line')[i] = path[i]
      BY <2>2, <3>1, UnderKeeps
    <3>3. QED
      BY <2>1, <3>2
  <2>4. Enclosing(line') = {h \in Enclosing(line) : n > document[h].level} \cup {line'}
    BY <1>1, <1>2, <1>5, EnclosingHeading
  <2>5. \A i \in 1..Len(path) : n > document[path[i]].level <=> i \in 1..n - 1
    <3>1. ASSUME NEW i \in 1..Len(path)
          PROVE  n > document[path[i]].level <=> i \in 1..n - 1
      <4>1. document[path[i]].level = i
        BY <1>3
      <4> HIDE DEF n
      <4>2. QED
        BY <1>2, <2>2, <4>1
    <3>2. QED
      BY <3>1
  <2> HIDE DEF n
  <2>6. \A i : i \in 1..n <=> i \in 1..n - 1 \/ i = n
    BY <2>2
  <2>7. Names(path') = Enclosing(line')
    <3>1. Names(path') = {path[i] : i \in 1..n - 1} \cup {line'}
      BY <2>3, <2>6 DEF Names
    <3>2. {h \in Enclosing(line) : n > document[h].level} = {path[i] : i \in 1..n - 1}
      BY <1>3, <2>3, <2>5 DEF Names
    <3>3. QED
      BY <2>4, <3>1, <3>2
  <2>8. Ascends(path')
    <3>1. ASSUME NEW i \in 1..n - 1
          PROVE  path'[i] < path'[i + 1]
      <4>1. CASE i = n - 1
        <5>1. path'[i] = path[i] /\ path[i] \in 1..line
          BY <1>3, <2>3, <3>1
        <5>2. path'[i + 1] = line'
          BY <2>2, <2>3, <4>1
        <5>3. QED
          BY <1>1, <1>2, <5>1, <5>2
      <4>2. CASE i # n - 1
        <5>1. i + 1 \in 1..n - 1 /\ i \in 1..Len(path) - 1
          BY <1>2, <2>2, <3>1, <4>2
        <5>2. QED
          BY <1>3, <2>3, <3>1, <5>1 DEF Ascends
      <4>3. QED
        BY <4>1, <4>2
    <3>2. QED
      BY <2>3, <3>1 DEF Ascends
  <2>9. \A k \in 1..n : path'[k] \in 1..line' /\ IsHeading(path'[k]) /\ document[path'[k]].level = k
    <3>1. ASSUME NEW k \in 1..n - 1
          PROVE  path'[k] \in 1..line' /\ IsHeading(path'[k]) /\ document[path'[k]].level = k
      BY <1>2, <1>3, <2>3, <3>1
    <3>2. path'[n] = line' /\ document[line'].level = n /\ line' \in 1..line'
      BY <1>2, <2>3 DEF n
    <3>3. QED
      BY <1>5, <2>6, <3>1, <3>2
  <2>10. \A h \in 1..line' : Len(path') > 0 /\ h <= path'[Len(path')]
    BY <1>2, <2>2, <2>3
  <2>11. QED
    BY <2>1, <2>3, <2>7, <2>8, <2>9, <2>10
<1>6. QED
  BY <1>4, <1>5

\* A body is closed under the path its first line was read under.
LEMMA ClosedIsPlaced ==
  ASSUME TypeOK, LinesPlaced, PathPlaced, SectionsPlaced, NoLevelSkipped, pc = "read"
  PROVE  \A s \in 1..Len(Closed) : Placed(Closed[s])
<1>1. ASSUME body.words > 0 PROVE Placed(Section(path, body))
  <2>1. body.lines # <<>>
    BY <1>1 DEF LinesPlaced
  <2>2. Names(path) = Enclosing(body.lines[1]) /\ Ascends(path)
    BY <2>1 DEF PathPlaced
  <2>3. QED
    BY <2>2 DEF Placed, Section
<1>2. \A s \in 1..Len(sections) : Placed(sections[s])
  BY DEF SectionsPlaced
<1>3. \A s \in 1..Len(sections) + 1 : s \in 1..Len(sections) \/ s = Len(sections) + 1
  <2>1. Len(sections) \in Nat
    BY Types
  <2>2. QED
    BY <2>1
<1>4. CASE body.words > 0
  <2>1. /\ Len(Closed) = Len(sections) + 1
        /\ \A s \in 1..Len(sections) : Closed[s] = sections[s]
        /\ Closed[Len(sections) + 1] = Section(path, body)
    BY <1>4, ClosedSections
  <2>2. QED
    BY <1>1, <1>2, <1>3, <1>4, <2>1
<1>5. CASE ~(body.words > 0)
  <2>1. Closed = sections
    BY <1>5, ClosedSections
  <2>2. QED
    BY <1>2, <2>1
<1>6. QED
  BY <1>4, <1>5

LEMMA ReadingPlacesSections ==
  ASSUME TypeOK, LinesPlaced, PathPlaced, SectionsPlaced, ReadLine \/ ReadEnd
  PROVE  SectionsPlaced'
<1> SUFFICES ASSUME NoLevelSkipped
             PROVE  \A s \in 1..Len(sections') : Placed(sections'[s])
  <2>1. document' = document /\ policy' = policy
    BY DEF ReadLine, ReadEnd
  <2>2. QED
    BY <2>1 DEF SectionsPlaced, Placed, NoLevelSkipped, Enclosing, IsHeading
<1>1. pc = "read"
  BY DEF ReadLine, ReadEnd
<1>2. CASE sections' = sections
  BY <1>2 DEF SectionsPlaced
<1>3. CASE sections' = Closed
  BY <1>1, <1>3, ClosedIsPlaced
<1>4. CASE sections' = <<Whole>> /\ ReadEnd /\ total > 0
  <2>1. line > 0 /\ line = Len(document) /\ Len(document) \in Nat
    BY <1>1, <1>4, Types DEF LinesPlaced, ReadEnd
  <2>2. Whole.lines[1] = 1 /\ Whole.path = <<>>
    BY <2>1 DEF Whole
  <2>3. ~IsHeading(1) => Enclosing(1) = {}
    BY DEF Enclosing
  <2>4. Names(<<>>) = {} /\ Ascends(<<>>)
    BY DEF Names, Ascends
  <2>5. Placed(Whole)
    BY <2>2, <2>3, <2>4 DEF Placed
  <2>6. QED
    BY <1>4, <2>5
<1>5. QED
  BY <1>2, <1>3, <1>4 DEF ReadLine, ReadEnd

-----------------------------------------------------------------------------
(* The chunks of a section.                                                *)

LEMMA CutWindowCuts ==
  ASSUME Inv, SectionsCut, CutWindow
  PROVE  SectionsCut'
<1> DEFINE k == Len(chunks)
           s == sections[section]
           e == WindowEnd(s)
           c == Chunk(s, e)
<1>1. /\ section \in 1..Len(sections) /\ section \in Nat /\ Len(sections) \in Nat
      /\ k \in Nat /\ chunks \in Seq(ChunkShape) /\ s.words \in Nat \ {0}
  <2>1. section \in 1..Len(sections)
    BY Types DEF Inv, CutWindow
  <2>2. QED
    BY <2>1, Types, SectionTyped DEF Inv
<1>2. /\ chunks' = Append(chunks, c) /\ sections' = sections /\ pc' = "cut"
      /\ \/ e = s.words /\ section' = section + 1
         \/ e # s.words /\ section' = section
  BY DEF CutWindow
<1>3. c.section = section /\ c.path = s.path /\ (e = s.words => c.to = s.words)
  <2>1. c.section = section /\ c.path = s.path /\ c.to = SliceAt(e, s.words)
    BY DEF Chunk
  <2>2. SliceAt(s.words, s.words) = s.words
    <3> DEFINE n == s.words
    <3>1. n \in Nat
      BY <1>1
    <3> HIDE DEF n
    <3>2. SliceAt(n, n) = n
      BY <3>1 DEF SliceAt
    <3>3. QED
      BY <3>2 DEF n
  <2>3. QED
    BY <2>1, <2>2
<1> HIDE DEF c, e
<1>4. /\ Len(chunks') = k + 1 /\ chunks'[k + 1] = c
      /\ \A i \in 1..k : chunks'[i] = chunks[i]
      /\ \A i \in 1..k + 1 : i \in 1..k \/ i = k + 1
      /\ k + 1 \in 1..k + 1 /\ \A i \in 1..k : i \in 1..k + 1
  BY <1>1, <1>2
<1> HIDE DEF k
<1>5. \A i \in 1..Len(chunks') : /\ chunks'[i].section \in 1..Len(sections)
                                 /\ chunks'[i].path = sections[chunks'[i].section].path
  BY <1>1, <1>3, <1>4 DEF SectionsCut, k
<1>6. ASSUME NEW t \in 1..section - 1
      PROVE  \E i \in 1..Len(chunks') : chunks'[i].section = t /\ chunks'[i].to = sections[t].words
  <2>1. PICK i \in 1..k : chunks[i].section = t /\ chunks[i].to = sections[t].words
    BY <1>6 DEF SectionsCut, Closes, k
  <2>2. QED
    BY <1>4, <2>1
<1>7. ASSUME e = s.words
      PROVE  \E i \in 1..Len(chunks') :
                 chunks'[i].section = section /\ chunks'[i].to = sections[section].words
  <2>1. c.section = section /\ c.to = sections[section].words
    BY <1>3, <1>7
  <2>2. QED
    BY <1>4, <2>1
<1>8. ASSUME NEW t \in 1..section' - 1
      PROVE  t \in 1..section - 1 \/ (t = section /\ e = s.words)
  <2>1. section \in Nat
    BY Types DEF Inv
  <2>2. QED
    BY <1>2, <1>8, <2>1
<1>9. ASSUME NEW t \in 1..section' - 1
      PROVE  \E i \in 1..Len(chunks') :
                 chunks'[i].section = t /\ chunks'[i].to = sections[chunks'[i].section].words
  <2>1. PICK i \in 1..Len(chunks') :
            chunks'[i].section = t /\ chunks'[i].to = sections[t].words
    <3>1. t \in 1..section - 1 \/ (t = section /\ e = s.words)
      BY <1>8
    <3>2. QED
      BY <3>1, <1>6, <1>7
  <2>2. QED
    BY <2>1
<1>10. QED
  BY <1>2, <1>5, <1>9 DEF SectionsCut, Closes

-----------------------------------------------------------------------------

Placing == LinesPlaced /\ PathPlaced /\ SectionsPlaced /\ SectionsCut

LEMMA InitPlaces == Init => Placing
<1> SUFFICES ASSUME Init PROVE Placing
  OBVIOUS
<1>1. Len(sections) = 0 /\ Len(path) = 0 /\ Len(chunks) = 0 /\ line = 0 /\ pc = "read"
      /\ body.lines = <<>> /\ body.words = 0 /\ total = 0 /\ section = 1
  BY DEF Init, Empty
<1>2. LinesPlaced
  BY <1>1 DEF LinesPlaced, In
<1>3. PathPlaced
  BY <1>1 DEF PathPlaced, Names, Ascends, Enclosing
<1>4. SectionsPlaced /\ SectionsCut
  BY <1>1 DEF SectionsPlaced, SectionsCut
<1>5. QED
  BY <1>2, <1>3, <1>4 DEF Placing

LEMMA NextPlaces ==
  ASSUME Inv, Placing, [Next]_vars
  PROVE  Placing'
<1> USE DEF Placing
<1>1. CASE ReadLine
  <2>1. chunks = <<>> /\ chunks' = <<>> /\ section = 1 /\ section' = 1 /\ pc' = "read"
    BY <1>1 DEF ReadLine, Inv, Position
  <2>2. SectionsCut'
    BY <2>1 DEF SectionsCut
  <2>3. QED
    BY <1>1, <2>2, ReadLinePlaces, ReadLinePath, ReadingPlacesSections DEF Inv
<1>2. CASE ReadEnd
  <2>1. /\ chunks = <<>> /\ chunks' = <<>> /\ section = 1 /\ section' = 1
        /\ pc' \in {"failed", "cut"}
    BY <1>2 DEF ReadEnd, Inv, Position
  <2>2. SectionsCut'
    BY <2>1 DEF SectionsCut
  <2>3. PathPlaced'
    BY <2>1 DEF PathPlaced
  <2>4. QED
    BY <1>2, <2>2, <2>3, ReadEndPlaces, ReadingPlacesSections DEF Inv
<1>3. CASE CutWindow
  <2>1. pc = "cut" /\ pc' = "cut" /\ UNCHANGED <<document, policy, sections>>
    BY <1>3 DEF CutWindow
  <2>2. LinesPlaced' /\ PathPlaced'
    BY <2>1 DEF LinesPlaced, PathPlaced, Kept, IsHeading
  <2>3. SectionsPlaced'
    BY <2>1 DEF SectionsPlaced, Placed, NoLevelSkipped, Enclosing, IsHeading
  <2>4. QED
    BY <1>3, <2>2, <2>3, CutWindowCuts
<1>4. CASE Return
  <2>1. /\ pc = "cut" /\ pc' \in {"failed", "returned"} /\ section > Len(sections)
        /\ UNCHANGED <<document, policy, sections, section, chunks>>
    BY <1>4 DEF Return
  <2>2. LinesPlaced' /\ PathPlaced'
    BY <2>1 DEF LinesPlaced, PathPlaced, Kept, IsHeading
  <2>3. SectionsPlaced'
    BY <2>1 DEF SectionsPlaced, Placed, NoLevelSkipped, Enclosing, IsHeading
  <2>4. SectionsCut'
    BY <2>1 DEF SectionsCut, Closes
  <2>5. QED
    BY <2>2, <2>3, <2>4
<1>5. CASE UNCHANGED vars
  <2>1. UNCHANGED <<document, policy, pc, line, total, path, body, sections, section, chunks>>
    BY <1>5 DEF vars
  <2>2. LinesPlaced'
    BY <2>1 DEF LinesPlaced, Kept, IsHeading
  <2>3. PathPlaced'
    <3>1. (NoLevelSkipped <=> NoLevelSkipped') /\ (\A l : Enclosing(l)' = Enclosing(l))
          /\ (\A l : IsHeading(l)' <=> IsHeading(l))
      BY <2>1 DEF NoLevelSkipped, Enclosing, IsHeading
    <3>2. Names(path)' = Names(path) /\ (Ascends(path)' <=> Ascends(path))
      BY <2>1 DEF Names, Ascends
    <3>3. QED
      BY <2>1, <3>1, <3>2 DEF PathPlaced, Names, Ascends, Enclosing, IsHeading
  <2>4. SectionsPlaced'
    BY <2>1 DEF SectionsPlaced, Placed, NoLevelSkipped, Enclosing, IsHeading
  <2>5. SectionsCut'
    BY <2>1 DEF SectionsCut, Closes
  <2>6. QED
    BY <2>2, <2>3, <2>4, <2>5
<1>6. QED
  BY <1>1, <1>2, <1>3, <1>4, <1>5 DEF Next

\* What chunk_document returns holds the whole text, and each chunk has the
\* headings its text is under, for every text that skips no level (_sections,
\* chunking.py).
THEOREM HeadingsAlways == Spec => []TextUnderItsHeadings
<1>1. Inv /\ Placing => TextUnderItsHeadings
  <2> SUFFICES ASSUME Inv, Placing, pc = "returned"
               PROVE  TextUnderItsHeadings
    BY DEF TextUnderItsHeadings
  <2>1. Kept
    BY DEF Placing, LinesPlaced
  <2>2. \A s \in 1..Len(sections) : \E i \in 1..Len(chunks) :
            chunks[i].section = s /\ Closes(i)
    <3>1. section > Len(sections)
      BY DEF Placing, SectionsCut
    <3>2. 1..Len(sections) \subseteq 1..section - 1
      BY <3>1, Types DEF Inv
    <3>3. QED
      BY <3>2 DEF Placing, SectionsCut
  <2>3. ASSUME NoLevelSkipped, NEW i \in 1..Len(chunks)
        PROVE  Placed(sections[chunks[i].section])
               /\ chunks[i].path = sections[chunks[i].section].path
    BY <2>3 DEF Placing, SectionsPlaced, SectionsCut
  <2>4. ASSUME NoLevelSkipped, NEW i \in 1..Len(chunks),
               ~IsHeading(sections[chunks[i].section].lines[1])
        PROVE  /\ Names(chunks[i].path) = Enclosing(sections[chunks[i].section].lines[1])
               /\ Ascends(chunks[i].path)
    BY <2>3, <2>4 DEF Placed
  <2>5. QED
    BY <2>1, <2>2, <2>4 DEF TextUnderItsHeadings, Names, Ascends
<1>2. QED
  BY <1>1, InvAlways, InitPlaces, NextPlaces, PTL DEF Spec
=============================================================================
