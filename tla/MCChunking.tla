----------------------------- MODULE MCChunking -----------------------------
(* Instances of Chunking.                                                   *)
EXTENDS Chunking

Text(n) == [level |-> 0, words |-> n]
Heading(n) == [level |-> n, words |-> 1]

\* Every text of up to four lines: blank, short, long, and three levels.
MCDocument ==
    UNION {[1..n -> {Text(0), Text(1), Text(5), Heading(1), Heading(2), Heading(3)}] : n \in 1..4}
=============================================================================
