---------------------------- MODULE MCToolCalls -----------------------------
(* Instances of ToolCalls.                                                  *)
EXTENDS ToolCalls

Plain == [tool |-> "web", deadline |-> Null, fetcher |-> "async",
          url |-> [plain |-> TRUE, listed |-> TRUE, private |-> FALSE], max_retries |-> 2, timeout_seconds |-> 2, executor |-> "session",
          max_rows |-> 2, tenantValid |-> TRUE]

\* Deadlines that fall within an attempt, between two, and after all of them.
MCSetup ==
    {[Plain EXCEPT !.deadline = d, !.fetcher = f, !.max_retries = r, !.timeout_seconds = t] :
        d \in {Null} \cup 1..7, f \in {"async", "sync"}, r \in 0..2, t \in 1..3}
    \cup {[Plain EXCEPT !.url = u] : u \in [plain : BOOLEAN, listed : BOOLEAN, private : BOOLEAN]}
    \cup {[Plain EXCEPT !.tool = "sql", !.deadline = d, !.executor = x, !.max_rows = n,
                        !.tenantValid = v] :
        d \in {Null, 2}, x \in {"session", "execute", "callable"}, n \in {0, 2}, v \in BOOLEAN}
    \cup {[Plain EXCEPT !.tool = "parametric", !.deadline = d] : d \in {Null, 2}}

Table(name, outer, schema) ==
    [named |-> TRUE, name |-> name, qualifier |-> name, cte |-> FALSE, outer |-> outer,
     schema |-> schema]
Cte(name, as) == [Table(name, TRUE, "none") EXCEPT !.qualifier = as, !.cte = TRUE]

From(tables, ctes, derived) == [tables |-> tables, ctes |-> ctes, derived |-> derived]

\* One table, or two; a table and a CTE; a table of a subquery, shadowed by
\* another, by a CTE's or by a subquery's alias, or not; a table with the name of
\* a CTE; a schema that is not listed; no name (a function in FROM); none.
MCFrom ==
    {From({Table("a", TRUE, "allowed")}, {}, {}),
     From({Table("a", TRUE, "none"), Table("b", TRUE, "allowed")}, {}, {}),
     From({Table("a", TRUE, "none"), Cte("b", "b")}, {"b"}, {}),
     From({Table("a", TRUE, "none"), Table("b", FALSE, "none")}, {}, {}),
     From({Table("a", FALSE, "none"), Cte("b", "a")}, {"b"}, {}),
     From({Table("a", FALSE, "none")}, {}, {"a"}),
     From({Table("a", TRUE, "none"), Table("b", TRUE, "allowed")}, {"b"}, {}),
     From({Table("a", TRUE, "none"),
           [Table("b", FALSE, "none") EXCEPT !.qualifier = "a"]}, {}, {}),
     From({Table("a", TRUE, "other")}, {}, {}), From({Cte("b", "b")}, {"b"}, {}),
     From({[Table("a", TRUE, "none") EXCEPT !.named = FALSE]}, {}, {}), From({}, {}, {})}

Select(f, writes, where, limit) ==
    [form |-> "select", writes |-> writes, tables |-> f.tables, ctes |-> f.ctes,
     derived |-> f.derived, where |-> where, limit |-> limit]

Limits == {[given |-> g, rows |-> n] : g \in {"none", "expression"}, n \in {0}}
          \cup {[given |-> "literal", rows |-> n] : n \in 0..3}

MCStatement ==
    [form : {"empty", "unparsable", "several", "other"}, writes : {FALSE}, tables : {{}},
     ctes : {{}}, derived : {{}}, where : {"none"}, limit : {[given |-> "none", rows |-> 0]}]
    \cup
    {Select(f, w, where, limit) :
        f \in MCFrom, w \in BOOLEAN, where \in {"none", "or", "other"}, limit \in Limits}
=============================================================================
