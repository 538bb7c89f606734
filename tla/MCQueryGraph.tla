---------------------------- MODULE MCQueryGraph ----------------------------
(***************************************************************************)
(* Instances of QueryGraph for TLC: two scopes, of which one reads a       *)
(* document the other may not, and three tools, one of them not wired.     *)
(***************************************************************************)
EXTENDS QueryGraph, TLC

CONSTANTS a1, a2, s1, s2, m1, d1, vector, parametric, sql

Tools == {vector, parametric, sql}

Similar == {<<a1, a1>>, <<a2, a2>>, <<a1, a2>>, <<a2, a1>>}

Rights == (s1 :> {d1}) @@ (s2 :> {})

Ask(topic, scope, policy) ==
    [topic |-> topic, scope |-> scope, mode |-> m1, policy |-> policy]

Forcing(depth, tool) == [depth |-> depth, tool |-> tool, escalation |-> "multi_hop"]

Escalating(depth) == [depth |-> Null, tool |-> Null, escalation |-> depth]

\* Similar questions of one scope, one to be routed under a policy that
\* escalates to parametric depth and one with a forced tool, and the same
\* question from the other scope, answered by the model alone whatever tool
\* is forced with that depth.
Mixed == {Ask(a1, s1, Escalating("parametric")),
          Ask(a2, s1, Forcing(Null, vector)),
          Ask(a1, s2, Forcing("parametric", vector))}

One == {Ask(a1, s1, Escalating("multi_hop"))}
=============================================================================
