------------------------- MODULE MCMemoryPagination -------------------------
(***************************************************************************)
(* Small stores for the paginated reads.  Rows 1 and 2 share a workspace;  *)
(* JavaScript orders rows 2 and 3 the other way round.                     *)
(***************************************************************************)
EXTENDS MemoryPagination

TwoWorkspaces == [i \in Ids |-> IF i <= 2 THEN "w1" ELSE "w2"]
OneWorkspace == [i \in Ids |-> "w1"]
SwappedCodeUnits == [i \in Ids |-> IF i = 2 THEN 3 ELSE IF i = 3 THEN 2 ELSE i]
SameCodeUnits == [i \in Ids |-> i]

\* All rows are there and have the tags; row 1 is not newer than row 3; the query is in the
\* title of two.
InTitle == [i \in Ids |-> [q \in Queries |-> IF i = 2 THEN "content" ELSE "title"]]
FullTable == {[present |-> Ids, created |-> c, match |-> InTitle, tagged |-> [i \in Ids |-> TRUE]] :
                c \in {d \in [Ids -> Times] : d[1] <= d[3]}}

NoFilter == [query |-> "q", tags |-> FALSE, createdAfter |-> 0, createdBefore |-> 9]
TagFilter == [query |-> "q", tags |-> TRUE, createdAfter |-> 0, createdBefore |-> 9]
SinceFilter == [query |-> "q", tags |-> FALSE, createdAfter |-> 2, createdBefore |-> 9]
Unfiltered == {NoFilter}
SomeFilters == {NoFilter, TagFilter, SinceFilter}
=============================================================================
