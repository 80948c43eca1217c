-------------------------- MODULE MemoryPagination --------------------------
(***************************************************************************)
(* Callers that page through memory_list_recent and memory_search with the *)
(* cursors they are given, while rows and authority change.  A page is one *)
(* call of authorized_memory_list_recent_v1 or authorized_memory_search_v1 *)
(* and what the tool makes of it (packages/server/src/memory-list-recent.ts*)
(* and memory-search.ts).                                                  *)
(***************************************************************************)
EXTENDS MemoryStore

CONSTANTS
    Walks,      \* callers
    Limits,     \* page sizes they ask for
    CodeUnits   \* place of each memory_id in the order of JavaScript strings

ASSUME PaginationAssumption ==
    /\ Limits \subseteq Nat \ {0}
    /\ CodeUnits \in [Ids -> Nat]

VARIABLES
    status,     \* "new", "open" (has a cursor), "done", "refused" or "failed"
    kind,       \* which tool the walk pages through
    criteria,   \* what it asks for
    cursor,     \* the nextCursor of the last page
    returned,   \* history: the rows returned so far, as <<memory_id, created_at>>
    repeated,   \* history: the memory_ids returned twice with one created_at
    steady,     \* history: rows eligible, with unchanged key, since the first page
    reranked    \* history: the row of the cursor changed its rank while it was that

walk == <<status, kind, criteria, cursor, returned, repeated, steady, reranked>>
vars == <<present, created, match, tagged, effective, changes, walk>>

\* RecentFiltersSchema of memory_list_recent has tags only.
Askable(k, c) ==
    k = "list" => c.createdAfter = 0 /\ \A t \in Times : t <= c.createdBefore

Init ==
    /\ StoreInit
    /\ status = [w \in Walks |-> "new"]
    /\ kind \in [Walks -> {"list", "search"}]
    /\ criteria \in [Walks -> Criteria]
    /\ \A w \in Walks : Askable(kind[w], criteria[w])
    /\ cursor = [w \in Walks |-> NoCursor]
    /\ returned = [w \in Walks |-> {}]
    /\ repeated = [w \in Walks |-> {}]
    /\ steady = [w \in Walks |-> {}]
    /\ reranked = [w \in Walks |-> FALSE]

Eligible(w) == eligible(kind[w], criteria[w])
Token(w, i) == cursor_token(kind[w], criteria[w], i)

\* Mutant: rows of one created_at are out of order.
isStrictlyNewer(w, rowSet) ==
    kind[w] = "list" =>
        \A i, j \in rowSet : i # j /\ Before("list", criteria[w], i, j) => created[i] > created[j]

\* isOrdered of memory_list_recent: the order of the page as JavaScript sees it (the code
\* compares neighbours, and its comparison is transitive).
isOrdered(w, rowSet) ==
    kind[w] = "list" =>
        \A i, j \in rowSet : i # j /\ Before("list", criteria[w], i, j) =>
            created[i] > created[j] \/ CodeUnits[i] >= CodeUnits[j]

\* The cursor is missing or its row is still eligible: the next page.
ReadPage(w, limit) ==
    LET p == page(kind[w], criteria[w], cursor[w], limit) IN
    /\ status[w] \in {"new", "open"}
    /\ anchor_exists(kind[w], criteria[w], cursor[w])
    /\ isOrdered(w, p)
    /\ returned' = [returned EXCEPT ![w] = @ \cup {Token(w, i) : i \in p}]
    /\ repeated' = [repeated EXCEPT ![w] = @ \cup {i \in p : Token(w, i) \in returned[w]}]
    /\ \/ /\ has_more(kind[w], criteria[w], cursor[w], limit)
          /\ \E token \in next_tokens(kind[w], criteria[w], cursor[w], limit) :
               cursor' = [cursor EXCEPT ![w] = token]
          /\ status' = [status EXCEPT ![w] = "open"]
       \/ /\ ~has_more(kind[w], criteria[w], cursor[w], limit)
          /\ status' = [status EXCEPT ![w] = "done"]
          /\ UNCHANGED cursor
    /\ steady' = [steady EXCEPT ![w] = IF status[w] = "new" THEN Eligible(w) ELSE @]
    /\ UNCHANGED <<store, kind, criteria, reranked>>

\* The caller goes on with other filters.  A cursor does not carry them: the next page is
\* whatever passes the new ones after the row of the cursor.
ChangeFilters(w) ==
    /\ status[w] = "open"
    /\ \E c \in Criteria \ {criteria[w]} :
         /\ c.query = criteria[w].query
         /\ Askable(kind[w], c)
         /\ criteria' = [criteria EXCEPT ![w] = c]
         /\ steady' = [steady EXCEPT ![w] = @ \cap eligible(kind[w], c)]
    /\ UNCHANGED <<store, status, kind, cursor, returned, repeated, reranked>>

\* Mutant: the refusal leaves the walk where it is, to try again.
RetryCursor(w) ==
    /\ status[w] = "open"
    /\ ~anchor_exists(kind[w], criteria[w], cursor[w])
    /\ UNCHANGED vars

\* The row of the cursor is gone, hidden or does not pass the filter: INVALID_REQUEST.
RefuseCursor(w) ==
    /\ status[w] = "open"
    /\ ~anchor_exists(kind[w], criteria[w], cursor[w])
    /\ status' = [status EXCEPT ![w] = "refused"]
    /\ UNCHANGED <<store, kind, criteria, cursor, returned, repeated, steady, reranked>>

\* The page is not in order: INTERNAL_ERROR.
FailOrder(w, limit) ==
    /\ status[w] \in {"new", "open"}
    /\ anchor_exists(kind[w], criteria[w], cursor[w])
    /\ ~isOrdered(w, page(kind[w], criteria[w], cursor[w], limit))
    /\ status' = [status EXCEPT ![w] = "failed"]
    /\ UNCHANGED <<store, kind, criteria, cursor, returned, repeated, steady, reranked>>

SameRank(w, i) == rank(kind[w], criteria[w], i)' = rank(kind[w], criteria[w], i)

\* Rows or authority change between pages.
StoreChanges ==
    /\ StoreNext
    /\ UNCHANGED <<status, kind, criteria, cursor, returned, repeated>>
    /\ steady' = [w \in Walks |-> {i \in steady[w] \cap Eligible(w)' : SameRank(w, i)}]
    /\ reranked' = [w \in Walks |->
                      reranked[w] \/ (cursor[w] # NoCursor /\ ~SameRank(w, cursor[w][1]))]

Next ==
    \/ \E w \in Walks, limit \in Limits : ReadPage(w, limit)
    \/ \E w \in Walks : ChangeFilters(w)
    \/ \E w \in Walks : RefuseCursor(w)
    \/ \E w \in Walks, limit \in Limits : FailOrder(w, limit)
    \/ StoreChanges

Spec == Init /\ [][Next]_vars

\* A caller goes on while it has a cursor.
Continue(w) == (\E limit \in Limits : ReadPage(w, limit) \/ FailOrder(w, limit)) \/ RefuseCursor(w)

FairSpec == Spec /\ \A w \in Walks : WF_vars(Continue(w))
-----------------------------------------------------------------------------
(***************************************************************************)
(* Properties.                                                             *)
(***************************************************************************)

\* The variables hold values of their kinds.
TypeOK ==
    /\ present \subseteq Ids
    /\ created \in [Ids -> Times]
    /\ match \in [Ids -> [Queries -> Places]]
    /\ tagged \in [Ids -> BOOLEAN]
    /\ effective \subseteq AuthorityRows
    /\ changes \in 0..MaxChanges
    /\ status \in [Walks -> {"new", "open", "done", "refused", "failed"}]
    /\ kind \in [Walks -> {"list", "search"}]
    /\ criteria \in [Walks -> Criteria]
    /\ cursor \in [Walks -> {NoCursor} \cup Tokens]
    /\ returned \in [Walks -> SUBSET Tokens]
    /\ repeated \in [Walks -> SUBSET Ids]
    /\ steady \in [Walks -> SUBSET Ids]
    /\ reranked \in [Walks -> BOOLEAN]

\* docs/FEATURES.md: insertions between pages do not create unbounded duplication.  A list
\* walk returns no row twice, whatever is inserted, deleted, edited, revoked or restored
\* between its pages, and if it changes its filters (the strict row comparison with the anchor).
ListNeverRepeats == \A w \in Walks : kind[w] = "list" => repeated[w] = {}

\* A walk that ends without a cursor has returned every row that was eligible under an
\* unchanged key and under each of its filters since its first page, and none of them
\* twice.  A search promises it only if no row was re-ranked while it was the row of the
\* cursor.
SteadyRowsExactlyOnce ==
    \A w \in Walks : kind[w] = "list" \/ ~reranked[w] =>
        /\ steady[w] \cap repeated[w] = {}
        /\ status[w] = "done" => \A i \in steady[w] : Token(w, i) \in returned[w]

\* The server refuses a page of memory_list_recent as disordered only if two rows of one
\* created_at are in another order for JavaScript than for the database.
FailsOnlyOnCollation ==
    [][\A w \in Walks : status[w] # "failed" /\ status'[w] = "failed" =>
         \E i, j \in Eligible(w) : i > j /\ created[i] = created[j] /\ CodeUnits[i] < CodeUnits[j]
      ]_vars

\* A caller that goes on reaches the end or is refused: the cursor always advances.
WalksEnd == \A w \in Walks : status[w] = "open" ~> status[w] # "open"
=============================================================================
