---------------------------- MODULE MCIngestion -----------------------------
(***************************************************************************)
(* Instances of Ingestion for TLC: the upload requests each run chooses    *)
(* from.                                                                   *)
(***************************************************************************)
EXTENDS Ingestion

CONSTANTS t1, t2, h1, h2, p1

Request(tenant, hash, acl) ==
    [tenant |-> tenant, hash |-> hash, acl |-> acl, named |-> FALSE]

\* Two contents for one tenant, one access scope.
TwoContents == {Request(t1, h1, {}), Request(t1, h2, {})}

\* The same content over and over.
OneContent == {Request(t1, h1, {})}

\* Two contents, one of them by a caller with a principal the other lacks,
\* and one with a filename in its metadata.
MixedScopes ==
    {Request(t1, h1, {p1}), Request(t1, h2, {}),
     [tenant |-> t1, hash |-> h1, acl |-> {}, named |-> TRUE]}

\* A tenant with a row in the tenants table and one without.
TwoTenants == {Request(t1, h1, {}), Request(t1, h2, {}), Request(t2, h1, {})}
=============================================================================
