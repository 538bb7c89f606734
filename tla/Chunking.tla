------------------------------ MODULE Chunking ------------------------------
(***************************************************************************)
(* ingestion/chunking.py: one canonical document is read line by line into *)
(* sections under their headings, and each section is cut into windows of  *)
(* at most max_tokens words, a window starting overlap_tokens before the   *)
(* end of the one before.  A line is its heading level and its number of   *)
(* words; a heading is named by its line, a word by its place in its       *)
(* section.  Page numbers, ids and metadata are left out.                  *)
(***************************************************************************)
EXTENDS Integers, Sequences

CONSTANTS
    Document,       \* canonical texts: sequences of lines
    MaxTokens,      \* values of max_tokens
    Overlap,        \* values given for overlap_tokens
    DefaultOverlap, \* its default, which the validator never sees
    MaxChunks       \* bound: chunks, for the policies that never end

\* A line: level 0 is body text, blank when it has no words.  Headings have the
\* levels 1 to 6 in Markdown and HTML and 1 to 9 in the styles of Word, where
\* a style of one's own may end in any number (level 0 as a heading is left
\* out).
Line == [level : Nat, words : Nat]

\* The policies the validator lets pass.
Policy ==
    {p \in [max_tokens : MaxTokens, overlap_tokens : Overlap, respect_headings : BOOLEAN] :
        p.overlap_tokens < p.max_tokens}
    \cup [max_tokens : MaxTokens, overlap_tokens : {DefaultOverlap}, respect_headings : BOOLEAN]

ASSUME ChunkingAssumption ==
    /\ Document \subseteq Seq(Line)
    /\ MaxTokens \subseteq Nat \ {0} /\ Overlap \subseteq Nat /\ DefaultOverlap \in Nat
    /\ MaxChunks \in Nat

VARIABLES
    document, policy,
    pc,       \* "read": in _sections; "cut": in the loops over its result
    line,     \* lines read
    total,    \* words in them
    path,     \* the headings above the last line read
    body,     \* the lines since the last heading, and their words
    sections,
    section,  \* the section being cut
    start,    \* where its next window starts
    chunks

vars == <<document, policy, pc, line, total, path, body, sections, section, start, chunks>>

Empty == [lines |-> <<>>, words |-> 0]

Init ==
    /\ document \in Document /\ policy \in Policy
    /\ pc = "read" /\ line = 0 /\ total = 0
    /\ path = <<>> /\ body = Empty /\ sections = <<>>
    /\ section = 1 /\ start = 0 /\ chunks = <<>>

IsHeading(l) == policy.respect_headings /\ document[l].level > 0

Section(p, b) == [path |-> p, lines |-> b.lines, words |-> b.words]

\* The sections once the body read so far is closed; a blank one is dropped.
Closed == IF body.words > 0 THEN Append(sections, Section(path, body)) ELSE sections

\* Mutant: the heading of the same level stays.
UnderOneMore(heading) ==
    LET kept == document[heading].level
    IN  Append(IF kept < Len(path) THEN SubSeq(path, 1, kept) ELSE path, heading)

\* path[: level - 1] and the heading itself.
Under(heading) ==
    LET kept == document[heading].level - 1
    IN  Append(IF kept < Len(path) THEN SubSeq(path, 1, kept) ELSE path, heading)

ReadLine ==
    /\ pc = "read" /\ line < Len(document)
    /\ line' = line + 1 /\ total' = total + document[line'].words
    /\ \/ /\ IsHeading(line')
          /\ sections' = Closed /\ path' = Under(line') /\ body' = Empty
       \/ /\ ~IsHeading(line')
          /\ body' = [lines |-> Append(body.lines, line'),
                      words |-> body.words + document[line'].words]
          /\ UNCHANGED <<sections, path>>
    /\ UNCHANGED <<document, policy, pc, section, start, chunks>>

\* A document of headings alone is one section, its headings the text.
Whole == [path |-> <<>>, lines |-> [l \in 1..Len(document) |-> l], words |-> total]

ReadEnd ==
    /\ pc = "read" /\ line = Len(document)
    /\ \/ total = 0 /\ pc' = "failed" /\ UNCHANGED sections
       \/ /\ total > 0 /\ pc' = "cut"
          /\ sections' = IF Closed = <<>> THEN <<Whole>> ELSE Closed
    /\ UNCHANGED <<document, policy, line, total, path, body, section, start, chunks>>

\* Where the slice bound i of a list of n falls.
SliceAt(i, n) == IF i < 0 THEN (IF n + i < 0 THEN 0 ELSE n + i) ELSE IF i < n THEN i ELSE n

\* words[start:end]; from..to - 1 are its places, none when to <= from.
Chunk(s, end) ==
    [section |-> section, path |-> s.path, ordinal |-> Len(chunks),
     from |-> SliceAt(start, s.words), to |-> SliceAt(end, s.words),
     token_count |-> end - start]

WindowEnd(s) ==
    IF start + policy.max_tokens < s.words THEN start + policy.max_tokens ELSE s.words

\* Mutant: off by one.
NextStartShort(end) == end - policy.overlap_tokens + 1

NextStart(end) == end - policy.overlap_tokens

\* Mutant: without the break, the loop ends only by its condition.
CutWindowOnAndOn ==
    /\ pc = "cut" /\ section <= Len(sections)
    /\ Len(chunks) < MaxChunks
    /\ LET s == sections[section]
           end == WindowEnd(s)
       IN  /\ chunks' = Append(chunks, Chunk(s, end))
           /\ \/ NextStart(end) >= s.words /\ section' = section + 1 /\ start' = 0
              \/ NextStart(end) < s.words /\ start' = NextStart(end) /\ UNCHANGED section
    /\ UNCHANGED <<document, policy, pc, line, total, path, body, sections>>

CutWindow ==
    /\ pc = "cut" /\ section <= Len(sections)
    /\ Len(chunks) < MaxChunks
    /\ LET s == sections[section]
           end == WindowEnd(s)
       IN  /\ chunks' = Append(chunks, Chunk(s, end))
           /\ \/ end = s.words /\ section' = section + 1 /\ start' = 0
              \/ end # s.words /\ start' = NextStart(end) /\ UNCHANGED section
    /\ UNCHANGED <<document, policy, pc, line, total, path, body, sections>>

Return ==
    /\ pc = "cut" /\ section > Len(sections)
    /\ pc' = IF chunks = <<>> THEN "failed" ELSE "returned"
    /\ UNCHANGED <<document, policy, line, total, path, body, sections, section, start, chunks>>

Next == ReadLine \/ ReadEnd \/ CutWindow \/ Return

Spec == Init /\ [][Next]_vars

\* One call that nothing interrupts.
FairSpec == Spec /\ WF_vars(Next)

-----------------------------------------------------------------------------

\* Each variable holds what the code can put there; windows may start below 0.
TypeOK ==
    /\ document \in Document /\ policy \in Policy
    /\ pc \in {"read", "cut", "returned", "failed"}
    /\ line \in 0..Len(document) /\ total \in Nat
    /\ path \in Seq(Nat)
    /\ body \in [lines : Seq(Nat), words : Nat]
    /\ sections \in Seq([path : Seq(Nat), lines : Seq(Nat), words : Nat \ {0}])
    /\ section \in 1..Len(sections) + 1 /\ start \in Int
    /\ chunks \in Seq([section : Nat, path : Seq(Nat), ordinal : Nat,
                       from : Nat, to : Nat, token_count : Int])

Advances == policy.overlap_tokens < policy.max_tokens

\* Chunk i begins its section.
Opens(i) == i = 1 \/ chunks[i - 1].section # chunks[i].section

\* Chunk i ends its section.
Closes(i) == chunks[i].to = sections[chunks[i].section].words

(***************************************************************************)
(* Under a policy that advances, the chunks tile the sections: they come   *)
(* in the order of the text, number themselves by their places, hold       *)
(* between one and max_tokens words, and each shares exactly               *)
(* overlap_tokens words with the one before it in its section, so that     *)
(* from the first word to the last none is left out.                       *)
(***************************************************************************)
WindowsTile ==
    Advances =>
        \A i \in 1..Len(chunks) :
            LET c == chunks[i]
            IN  /\ c.ordinal = i - 1
                /\ c.from < c.to /\ c.to - c.from = c.token_count
                /\ c.token_count <= policy.max_tokens
                /\ IF Opens(i)
                   THEN /\ c.from = 0
                        /\ c.section = (IF i = 1 THEN 1 ELSE chunks[i - 1].section + 1)
                        /\ i > 1 => Closes(i - 1)
                   ELSE c.from = chunks[i - 1].to - policy.overlap_tokens

\* The headings an outline puts above line l: those with no heading after them,
\* up to l, of the same level or a higher one.
Enclosing(l) ==
    {h \in 1..l : /\ IsHeading(h)
                  /\ \A k \in h + 1..l : IsHeading(k) => document[k].level > document[h].level}

\* No heading is more than one level below the heading before it.
NoLevelSkipped ==
    \A h \in 1..Len(document) : IsHeading(h) =>
        \/ document[h].level = 1
        \/ \E k \in 1..h - 1 : /\ IsHeading(k) /\ document[h].level <= document[k].level + 1
                               /\ \A j \in k + 1..h - 1 : ~IsHeading(j)

\* Every line of text with words is in exactly one section.
Kept ==
    \A l \in 1..Len(document) : (~IsHeading(l) /\ document[l].words > 0) =>
        \E s \in 1..Len(sections) :
            /\ \E i \in 1..Len(sections[s].lines) : sections[s].lines[i] = l
            /\ \A t \in 1..Len(sections) : t # s =>
                   \A i \in 1..Len(sections[t].lines) : sections[t].lines[i] # l

(***************************************************************************)
(* What is returned holds the whole text, each line of it under the        *)
(* headings that enclose it, provided no level is skipped: a heading of    *)
(* level 3 right under one of level 1 stays on the path of the next        *)
(* heading of level 3.                                                     *)
(***************************************************************************)
TextUnderItsHeadings ==
    pc = "returned" /\ Advances =>
        /\ Kept
        /\ \A s \in 1..Len(sections) : \E i \in 1..Len(chunks) :
               chunks[i].section = s /\ Closes(i)
        /\ NoLevelSkipped => \A i \in 1..Len(chunks) :
               LET c == chunks[i]
                   lines == sections[c.section].lines
               IN  ~IsHeading(lines[1]) =>
                   /\ {c.path[k] : k \in 1..Len(c.path)} = Enclosing(lines[1])
                   /\ \A k \in 1..Len(c.path) - 1 : c.path[k] < c.path[k + 1]

\* Every section fits in one window.
OneWindowEach == \A s \in 1..Len(sections) : sections[s].words <= policy.max_tokens

(***************************************************************************)
(* The call ends: always when the overlap is smaller than the window, and  *)
(* under the default overlap, which the validator lets pass unseen, when   *)
(* the whole text fits in one window.                                      *)
(***************************************************************************)
ChunkingEnds ==
    /\ Advances ~> pc \in {"returned", "failed"}
    /\ (pc = "cut" /\ OneWindowEach) ~> pc = "returned"
=============================================================================
