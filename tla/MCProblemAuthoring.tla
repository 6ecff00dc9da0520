------------------------- MODULE MCProblemAuthoring -------------------------
(***************************************************************************)
(* Bodies of authoring requests: full problems with no, one or two tests   *)
(* under two slugs, with and without orders, and single tests.             *)
(***************************************************************************)
EXTENDS ProblemAuthoring, TLC

Case(v, n) == [visibility |-> v, sort_order |-> n]

Full(slug, status, cases) == [kind |-> "full", slug |-> slug, status |-> status, cases |-> cases]
Test(tc) == [kind |-> "test", slug |-> "", status |-> "DRAFT", cases |-> <<tc>>]

Bodies ==
  {Full(slug, "PUBLISHED", <<Case("PUBLIC", 0), Case("HIDDEN", 0)>>) : slug \in {"x", "y"}}
  \cup {Full("x", "PUBLISHED", <<>>), Full("y", "DRAFT", <<Case("HIDDEN", 0)>>),
        Full("x", "PUBLISHED", <<Case("PUBLIC", 2), Case("HIDDEN", 0)>>)}
  \cup {Test(Case(v, n)) : v \in Visibility, n \in {0, 1}}

\* Requests differ only in their bodies.
AuthorSymmetry == Permutations(Author)
=============================================================================
