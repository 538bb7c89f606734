-------------------------- MODULE MCHybridRetrieval --------------------------
(* Instances of HybridRetrieval.                                            *)
EXTENDS HybridRetrieval

CONSTANTS acme, globex, staff, finance

\* Two documents for everybody, three for finance, one of another tenant.
MCDoc == 1..6
MCOwner == [d \in MCDoc |-> IF d = 6 THEN globex ELSE acme]
MCAcl == [d \in MCDoc |-> IF d \in {2, 3, 4} THEN {finance} ELSE {}]

\* Below the budget of 4, exactly the rest of it, and above all of it.
MCSize == <<3, 1, 1, 2, 1, 1>>

MCRequest ==
    [caller : {"api", "tool"}, tenant : {acme}, acl : {{staff}, {staff, finance}},
     limit : {1, 2}, documents : {Null, {}, {1, 5}}, generate : {TRUE}]

\* A multiple of every rrf_k + rank that occurs.
MCUnit == 61 * 62

\* Orders in which the hidden documents come first and in between; the
\* second version of a document comes next to the first, or far from it.
Beside(order) == [r \in Row |-> 2 * order[r.doc] + r.version - 1]
Apart(order) == [r \in Row |-> IF r.version = 1 THEN 2 * order[r.doc] ELSE 11 - 2 * order[r.doc]]
MCRanking ==
    {Beside(<<0, 1, 2, 3, 4, 5>>), Beside(<<3, 2, 1, 0, 4, 5>>), Apart(<<2, 4, 0, 3, 1, 5>>)}
=============================================================================
