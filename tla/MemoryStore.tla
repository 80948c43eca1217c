----------------------------- MODULE MemoryStore -----------------------------
(***************************************************************************)
(* The memories and the authority that guards them, as PostgreSQL holds    *)
(* them (supabase/migrations: policy_lab and memory_read_rpc), and what    *)
(* the three read functions of the `memory` schema compute on one          *)
(* snapshot: they are STABLE, so every statement of a call sees the state  *)
(* in which the call began.                                                *)
(*                                                                         *)
(* The server never writes.  Rows and authority are changed by others,     *)
(* between two reads of one caller.                                        *)
(***************************************************************************)
EXTENDS Integers, FiniteSets

CONSTANTS
    Ids,          \* memory_id values, numbered in the order of the database collation
    Times,        \* created_at values
    Workspaces,
    WorkspaceOf,  \* workspace_id of the row of each memory_id
    Queries,      \* search texts, trimmed
    Criteria,     \* what callers ask for: a query (for a search) and filters
    NoQuery,      \* the place of the query in the token of a list
    Populations,  \* the contents of the table at the start
    MaxChanges    \* how often rows and authority may change (bound of the model)

Places == {"title", "content", "neither"}
PopulationShape == [present : SUBSET Ids, created : [Ids -> Times],
                    match : [Ids -> [Queries -> Places]], tagged : [Ids -> BOOLEAN]]
CriteriaShape == [query : Queries, tags : BOOLEAN, createdAfter : Nat, createdBefore : Nat]

ASSUME StoreAssumption ==
    /\ Ids \subseteq Nat
    /\ IsFiniteSet(Ids)
    /\ Times \subseteq Nat
    /\ WorkspaceOf \in [Ids -> Workspaces]
    /\ NoQuery \notin Queries
    /\ Criteria \subseteq CriteriaShape
    /\ Populations \subseteq PopulationShape
    /\ MaxChanges \in Nat

VARIABLES
    present,     \* the memory_ids that have a row
    created,     \* created_at of each row
    match,       \* where the text of each query occurs in each row
    tagged,      \* whether its tags contain the tags callers ask for
    effective,   \* the authority rows that are active and within their validity
    changes

rows == <<present, created, match, tagged>>
store == <<present, created, match, tagged, effective, changes>>

(***************************************************************************)
(* Authority: the caller's principal and client, and per workspace the     *)
(* membership and the grants.  A row is effective while its state is       *)
(* active (verified, for a principal) and valid_until is in the future.    *)
(***************************************************************************)
Capabilities == {"memory:read", "memory:search"}
AuthorityRows == {<<"principal">>, <<"client">>}
                   \cup ({"membership"} \X Workspaces)
                   \cup ({"grant"} \X Workspaces \X Capabilities)

has_active_capability(capability, workspace) ==
    {<<"principal">>, <<"client">>, <<"membership", workspace>>,
     <<"grant", workspace, capability>>} \subseteq effective

\* The row-level policy of the memories table, which every read is subject to.
memory_read_intersection == {i \in present : has_active_capability("memory:read", WorkspaceOf[i])}
-----------------------------------------------------------------------------
StoreInit ==
    /\ \E population \in Populations :
        /\ present = population.present
        /\ created = population.created
        /\ match = population.match
        /\ tagged = population.tagged
    /\ effective = AuthorityRows
    /\ changes = 0

Change ==
    /\ changes < MaxChanges
    /\ changes' = changes + 1

\* What a writer may put into title, content and tags.
Write(i) ==
    /\ \E where \in [Queries -> Places] : match' = [match EXCEPT ![i] = where]
    /\ \E isTagged \in BOOLEAN : tagged' = [tagged EXCEPT ![i] = isTagged]

\* created_at is the time the inserting transaction began: the row may appear with one
\* that is older than rows already read.
Insert(i) ==
    /\ Change
    /\ i \notin present
    /\ present' = present \cup {i}
    /\ \E t \in Times : created' = [created EXCEPT ![i] = t]
    /\ Write(i)
    /\ UNCHANGED effective

Delete(i) ==
    /\ Change
    /\ i \in present
    /\ present' = present \ {i}
    /\ UNCHANGED <<created, match, tagged, effective>>

\* Title, content or tags are edited.
Edit(i) ==
    /\ Change
    /\ i \in present
    /\ Write(i)
    /\ UNCHANGED <<present, created, effective>>

\* A row of authority is revoked, expires, or is restored.
ChangeAuthority(a) ==
    /\ Change
    /\ effective' = IF a \in effective THEN effective \ {a} ELSE effective \cup {a}
    /\ UNCHANGED rows

StoreNext ==
    \/ \E i \in Ids : Insert(i)
    \/ \E i \in Ids : Delete(i)
    \/ \E i \in Ids : Edit(i)
    \/ \E a \in AuthorityRows : ChangeAuthority(a)
-----------------------------------------------------------------------------
(***************************************************************************)
(* authorized_memory_get_v1: the record, or null for what is missing and   *)
(* for what the caller may not see.                                        *)
(***************************************************************************)
NoRecord == "null"

authorized_memory_get(i) ==
    IF i \in memory_read_intersection THEN <<i, created[i]>> ELSE NoRecord

(***************************************************************************)
(* The common table expressions of the two paginated functions.            *)
(***************************************************************************)
PassesFilter(i, criteria) ==
    /\ criteria.tags => tagged[i]
    /\ created[i] >= criteria.createdAfter
    /\ created[i] <= criteria.createdBefore

eligible(kind, criteria) ==
    {i \in memory_read_intersection :
        /\ PassesFilter(i, criteria)
        /\ kind = "search" =>
             /\ has_active_capability("memory:search", WorkspaceOf[i])
             /\ match[i][criteria.query] # "neither"}

\* rank is 1.0 for a row whose title matches, 0.75 otherwise; a list has no rank.
rank(kind, criteria, i) ==
    IF kind = "search" /\ match[i][criteria.query] = "title" THEN 2 ELSE 1

\* i comes before j in the order of the pages, newest (or best ranked) first.
Before(kind, criteria, i, j) ==
    \/ rank(kind, criteria, i) > rank(kind, criteria, j)
    \/ /\ rank(kind, criteria, i) = rank(kind, criteria, j)
       /\ created[i] > created[j] \/ (created[i] = created[j] /\ i > j)

NoCursor == <<>>
Tokens == Ids \X Times \X (Queries \cup {NoQuery})

\* Mutant: the digest leaves out created_at.
id_token(kind, criteria, i) == <<i, IF kind = "search" THEN criteria.query ELSE NoQuery>>

\* A cursor is a digest of memory_id and created_at of the last row of the page and, for
\* a search, of the query, and identifies them.
cursor_token(kind, criteria, i) ==
    <<i, created[i], IF kind = "search" THEN criteria.query ELSE NoQuery>>

anchor(kind, criteria, cursor) ==
    {i \in eligible(kind, criteria) : cursor_token(kind, criteria, i) = cursor}

\* Mutant: <= in place of < in the comparison with the anchor.
remaining_with_anchor(kind, criteria, cursor) ==
    {i \in eligible(kind, criteria) :
        cursor = NoCursor
          \/ \E a \in anchor(kind, criteria, cursor) : a = i \/ Before(kind, criteria, a, i)}

\* What is left to return after the cursor.
remaining(kind, criteria, cursor) ==
    {i \in eligible(kind, criteria) :
        cursor = NoCursor
          \/ \E a \in anchor(kind, criteria, cursor) : Before(kind, criteria, a, i)}

\* order by ... desc limit n
page(kind, criteria, cursor, limit) ==
    {i \in remaining(kind, criteria, cursor) :
        Cardinality({j \in remaining(kind, criteria, cursor) :
                       Before(kind, criteria, j, i)}) < limit}

\* Mutant: one row beyond the page is not enough.
has_many_more(kind, criteria, cursor, limit) ==
    Cardinality(remaining(kind, criteria, cursor)) > limit + 1

has_more(kind, criteria, cursor, limit) ==
    Cardinality(remaining(kind, criteria, cursor)) > limit

\* The token of the last row of the page.
next_tokens(kind, criteria, cursor, limit) ==
    {cursor_token(kind, criteria, i) : i \in
        {i \in page(kind, criteria, cursor, limit) :
            \A j \in page(kind, criteria, cursor, limit) :
                j = i \/ Before(kind, criteria, j, i)}}

anchor_exists(kind, criteria, cursor) ==
    cursor = NoCursor \/ anchor(kind, criteria, cursor) # {}
=============================================================================
