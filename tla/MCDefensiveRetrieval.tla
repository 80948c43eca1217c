------------------------ MODULE MCDefensiveRetrieval ------------------------
(***************************************************************************)
(* A retrieval over two rows, with a query that has a normal form of its   *)
(* own.                                                                    *)
(***************************************************************************)
EXTENDS DefensiveRetrieval

OneWorkspace == [i \in Ids |-> "w"]
NormalForm == [q \in Queries |-> "q x"]

\* All rows are there, and match one, both or neither form of the query.
Tables == {[present |-> Ids, created |-> [i \in Ids |-> i], match |-> m,
            tagged |-> [i \in Ids |-> TRUE]] :
             m \in [Ids -> [Queries -> {"content", "neither"}]]}

AnyRow(q) == [query |-> q, tags |-> FALSE, createdAfter |-> 0, createdBefore |-> 9]
BothForms == {AnyRow(q) : q \in Queries}
\* The cursor of the newer row, from a search of the form that is not normal, or none: it
\* fits one of the two queries and is refused under the other.
SomeCursors == {<<2, 2, "q  x">>, NoCursor}
=============================================================================
