------------------------------ MODULE MCPlatform ------------------------------
(***************************************************************************)
(* Instances of Tenancy for TLC.  A behaviour is one of the API over a     *)
(* database at the head version, in one of MCScopes.                       *)
(***************************************************************************)
EXTENDS Tenancy, TLC

CONSTANTS d1, d2, d3, hn, own, verdict, swot, seed, u1, u2

\* d3 is created with the slug d2 had: a successor under the same name.
MCSlug == d1 :> "default" @@ d2 :> "b" @@ d3 :> "b"

\* Which routes meet which, small enough together.
MCScopes == {
    {"members"}, {"members", "overlap"},
    {"users"}, {"users", "overlap", "crash"},
    {"members", "departments"},
    {"departments", "frameworks", "overlap"}, {"departments", "overlap", "crash"},
    {"access", "departments"}, {"access", "nopat"},
    {"sources", "overlap"}, {"sources", "crawls", "topics"},
    {"sources", "crawls", "departments"},
    {"topics", "netview", "overlap", "crash"}}

\* Requests in flight are interchangeable.
Symmetry == Permutations(Editors)

=============================================================================
