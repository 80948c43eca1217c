----------------------- MODULE MemoryPaginationProofs -----------------------
(***************************************************************************)
(* Pagination, proved for any table, any changes of rows and authority,    *)
(* any page sizes and any number of callers: a list repeats nothing, and a *)
(* row that stays what it was is returned exactly once.                    *)
(***************************************************************************)
EXTENDS MemoryPagination, MemoryStoreProofs, TLAPS

-----------------------------------------------------------------------------
(***************************************************************************)
(* Types.                                                                  *)
(***************************************************************************)
\* The token of a row is a token.
LEMMA TokenOK ==
    ASSUME TypeOK, NEW w \in Walks, NEW i \in Ids
    PROVE  /\ Token(w, i) \in Tokens
           /\ Token(w, i)[1] = i /\ Token(w, i)[2] = created[i]
           /\ Token(w, i) # NoCursor
<1>1. criteria[w] \in CriteriaShape
  BY StoreAssumption DEF TypeOK
<1>2. criteria[w].query \in Queries /\ created[i] \in Times
  BY <1>1 DEF CriteriaShape, TypeOK
<1>3. QED
  BY <1>2 DEF Token, cursor_token, Tokens, NoCursor

\* The part of the type invariant about the table.
LEMMA StoreTyped == TypeOK => StoreOK
BY DEF TypeOK, StoreOK

\* Callers start with nothing.
LEMMA InitTyped == Init => TypeOK
<1> SUFFICES ASSUME Init PROVE TypeOK
  OBVIOUS
<1>1. StoreOK
  BY StoreInitOK DEF Init
<1>2. /\ status \in [Walks -> {"new", "open", "done", "refused", "failed"}]
      /\ kind \in [Walks -> {"list", "search"}]
      /\ criteria \in [Walks -> Criteria]
      /\ cursor \in [Walks -> {NoCursor} \cup Tokens]
      /\ returned \in [Walks -> SUBSET Tokens]
      /\ repeated \in [Walks -> SUBSET Ids]
      /\ steady \in [Walks -> SUBSET Ids]
  BY DEF Init
<1>3. reranked \in [Walks -> BOOLEAN]
  BY DEF Init
<1>4. QED
  BY <1>1, <1>2, <1>3 DEF TypeOK, StoreOK

\* Every step keeps the types.
LEMMA StepTyped == TypeOK /\ [Next]_vars => TypeOK'
<1> SUFFICES ASSUME TypeOK, [Next]_vars PROVE TypeOK'
  OBVIOUS
<1>0. StoreOK
  BY StoreTyped
<1>1. ASSUME NEW w \in Walks, NEW limit \in Limits, ReadPage(w, limit) PROVE TypeOK'
  <2> DEFINE p == page(kind[w], criteria[w], cursor[w], limit)
  <2>1. p \subseteq Ids /\ Eligible(w) \subseteq Ids
    BY <1>0, RowsAreIds DEF Eligible
  <2>2. \A i \in Ids : Token(w, i) \in Tokens
    BY TokenOK
  <2>3. {Token(w, i) : i \in p} \subseteq Tokens
    BY <2>1, <2>2
  <2>4. returned' \in [Walks -> SUBSET Tokens]
    <3>1. returned' = [returned EXCEPT ![w] = @ \cup {Token(w, i) : i \in p}]
      BY <1>1 DEF ReadPage
    <3>2. QED
      BY <2>3, <3>1 DEF TypeOK
  <2>5. repeated' \in [Walks -> SUBSET Ids]
    <3>1. repeated' = [repeated EXCEPT ![w] = @ \cup {i \in p : Token(w, i) \in returned[w]}]
      BY <1>1 DEF ReadPage
    <3>2. QED
      BY <2>1, <3>1 DEF TypeOK
  <2>6. steady' \in [Walks -> SUBSET Ids]
    <3>1. steady' = [steady EXCEPT ![w] = IF status[w] = "new" THEN Eligible(w) ELSE @]
      BY <1>1 DEF ReadPage
    <3>2. QED
      BY <2>1, <3>1 DEF TypeOK
  <2>7. status' \in [Walks -> {"new", "open", "done", "refused", "failed"}]
    BY <1>1 DEF ReadPage, TypeOK
  <2>8. cursor' \in [Walks -> {NoCursor} \cup Tokens]
    <3>1. next_tokens(kind[w], criteria[w], cursor[w], limit) \subseteq Tokens
      BY <2>1, <2>2 DEF next_tokens, Token
    <3>2. \/ cursor' = cursor
          \/ \E token \in next_tokens(kind[w], criteria[w], cursor[w], limit) :
               cursor' = [cursor EXCEPT ![w] = token]
      BY <1>1 DEF ReadPage
    <3>3. QED
      BY <3>1, <3>2 DEF TypeOK
  <2>9. /\ kind' = kind /\ criteria' = criteria /\ reranked' = reranked
        /\ present' = present /\ created' = created /\ match' = match /\ tagged' = tagged
        /\ effective' = effective /\ changes' = changes
    BY <1>1 DEF ReadPage, store
  <2>10. QED
    BY <2>4, <2>5, <2>6, <2>7, <2>8, <2>9 DEF TypeOK
<1>2. ASSUME NEW w \in Walks, ChangeFilters(w) PROVE TypeOK'
  <2>1. criteria' \in [Walks -> Criteria]
    BY <1>2 DEF ChangeFilters, TypeOK
  <2>2. steady' \in [Walks -> SUBSET Ids]
    <3>1. PICK c : steady' = [steady EXCEPT ![w] = @ \cap eligible(kind[w], c)]
      BY <1>2 DEF ChangeFilters
    <3>2. QED
      BY <3>1 DEF TypeOK
  <2>3. QED
    BY <1>2, <2>1, <2>2 DEF ChangeFilters, TypeOK, store
<1>3. ASSUME NEW w \in Walks, RefuseCursor(w) PROVE TypeOK'
  BY <1>3 DEF RefuseCursor, TypeOK, store
<1>4. ASSUME NEW w \in Walks, NEW limit \in Limits, FailOrder(w, limit) PROVE TypeOK'
  BY <1>4 DEF FailOrder, TypeOK, store
<1>5. CASE StoreChanges
  <2>1. StoreOK'
    BY <1>0, <1>5, StoreStepOK DEF StoreChanges
  <2>2. steady' \in [Walks -> SUBSET Ids]
    <3>1. \A v \in Walks : {i \in steady[v] \cap Eligible(v)' : SameRank(v, i)} \subseteq Ids
      BY DEF TypeOK
    <3>2. QED
      BY <1>5, <3>1 DEF StoreChanges
  <2>3. reranked' \in [Walks -> BOOLEAN]
    <3>1. \A v \in Walks : (reranked[v] \/ (cursor[v] # NoCursor /\ ~SameRank(v, cursor[v][1])))
                             \in BOOLEAN
      OBVIOUS
    <3>2. QED
      BY <1>5, <3>1 DEF StoreChanges
  <2>4. /\ status' = status /\ kind' = kind /\ criteria' = criteria /\ cursor' = cursor
        /\ returned' = returned /\ repeated' = repeated
    BY <1>5 DEF StoreChanges
  <2>5. QED
    BY <2>1, <2>2, <2>3, <2>4 DEF TypeOK, StoreOK
<1>6. CASE UNCHANGED vars
  BY <1>6 DEF TypeOK, vars, walk
<1>7. QED
  BY <1>1, <1>2, <1>3, <1>4, <1>5, <1>6 DEF Next

\* The variables hold values of their kinds, whatever is written and asked.
THEOREM TypeCorrect == Spec => []TypeOK
<1>1. QED
  BY InitTyped, StepTyped, PTL DEF Spec
-----------------------------------------------------------------------------
(***************************************************************************)
(* The inductive invariant.  The cursor is compared with rows by the key   *)
(* its row had when it was issued, so that the comparison survives the     *)
(* deletion of the row and the insertion of another one under its id.      *)
(***************************************************************************)

\* Row i comes after the cursor.
After(w, i) ==
    \/ rank(kind[w], criteria[w], cursor[w][1]) > rank(kind[w], criteria[w], i)
    \/ /\ rank(kind[w], criteria[w], cursor[w][1]) = rank(kind[w], criteria[w], i)
       /\ \/ cursor[w][2] > created[i]
          \/ cursor[w][2] = created[i] /\ cursor[w][1] > i

\* A new walk has nothing, an open one a cursor.
Opened(w) ==
    /\ status[w] = "new" => /\ cursor[w] = NoCursor /\ returned[w] = {} /\ repeated[w] = {}
                            /\ steady[w] = {}
    /\ status[w] = "open" => cursor[w] \in Tokens

\* All a list has returned is at or before its cursor.
ListInv(w) ==
    kind[w] = "list" =>
        /\ repeated[w] = {}
        /\ status[w] = "open" =>
             \A t \in returned[w] : t[2] > cursor[w][2] \/ (t[2] = cursor[w][2] /\ t[1] >= cursor[w][1])

\* The steady rows are returned up to the cursor, and not beyond.
SteadyInv(w) ==
    /\ steady[w] \subseteq Eligible(w)
    /\ kind[w] = "list" \/ ~reranked[w] =>
         /\ steady[w] \cap repeated[w] = {}
         /\ status[w] = "open" => \A i \in steady[w] : Token(w, i) \in returned[w] <=> ~After(w, i)
         /\ status[w] = "done" => \A i \in steady[w] : Token(w, i) \in returned[w]

WalkInv(w) == Opened(w) /\ ListInv(w) /\ SteadyInv(w)

IInv == TypeOK /\ \A w \in Walks : WalkInv(w)

\* While the row of the cursor is eligible, to come after it is to come after the cursor.
LEMMA AnchorIsCursor ==
    ASSUME TypeOK, NEW w \in Walks, cursor[w] \in Tokens,
           anchor_exists(kind[w], criteria[w], cursor[w])
    PROVE  /\ cursor[w][1] \in Eligible(w)
           /\ created[cursor[w][1]] = cursor[w][2]
           /\ \A i : After(w, i) <=> Before(kind[w], criteria[w], cursor[w][1], i)
           /\ remaining(kind[w], criteria[w], cursor[w]) =
                {i \in Eligible(w) : Before(kind[w], criteria[w], cursor[w][1], i)}
<1>1. cursor[w] # NoCursor
  <2>1. PICK a \in Ids, t \in Times, q \in Queries \cup {NoQuery} : cursor[w] = <<a, t, q>>
    BY DEF Tokens
  <2>2. QED
    BY <2>1 DEF NoCursor
<1>2. \A a \in anchor(kind[w], criteria[w], cursor[w]) :
        a \in Eligible(w) /\ a = cursor[w][1] /\ created[a] = cursor[w][2]
  BY DEF anchor, cursor_token, Eligible
<1>3. cursor[w][1] \in anchor(kind[w], criteria[w], cursor[w])
  BY <1>1, <1>2 DEF anchor_exists
<1>4. cursor[w][1] \in Eligible(w) /\ created[cursor[w][1]] = cursor[w][2]
  BY <1>2, <1>3
<1>5. \A i : After(w, i) <=> Before(kind[w], criteria[w], cursor[w][1], i)
  BY <1>4 DEF After, Before
<1>6. remaining(kind[w], criteria[w], cursor[w]) =
        {i \in Eligible(w) : Before(kind[w], criteria[w], cursor[w][1], i)}
  BY <1>1, <1>2, <1>3 DEF remaining, Eligible
<1>7. QED
  BY <1>4, <1>5, <1>6

\* In a list the order is that of created_at and memory_id.
LEMMA ListOrder ==
    ASSUME NEW c, NEW i, NEW j
    PROVE  Before("list", c, i, j) <=> created[i] > created[j] \/ (created[i] = created[j] /\ i > j)
BY DEF Before, rank

\* Two rows have two tokens.
LEMMA TokensDiffer ==
    ASSUME TypeOK, NEW w \in Walks, NEW i \in Ids, NEW j \in Ids, Token(w, i) = Token(w, j)
    PROVE  i = j
BY TokenOK

\* The table is left alone.
SameStore ==
    /\ present' = present
    /\ created' = created
    /\ match' = match
    /\ tagged' = tagged
    /\ effective' = effective

\* Walk v is left alone.
SameWalk(v) ==
    /\ status'[v] = status[v]
    /\ kind'[v] = kind[v]
    /\ criteria'[v] = criteria[v]
    /\ cursor'[v] = cursor[v]
    /\ returned'[v] = returned[v]
    /\ repeated'[v] = repeated[v]
    /\ steady'[v] = steady[v]
    /\ reranked'[v] = reranked[v]

\* What is computed for a walk depends on the table and its question.
LEMMA SameView ==
    ASSUME SameStore, NEW v, kind'[v] = kind[v], criteria'[v] = criteria[v]
    PROVE  /\ Eligible(v)' = Eligible(v)
           /\ \A i : Token(v, i)' = Token(v, i)
           /\ \A i : rank(kind[v], criteria[v], i)' = rank(kind[v], criteria[v], i)
<1>1. Eligible(v)' = Eligible(v)
  BY DEF SameStore, Eligible, eligible, PassesFilter, memory_read_intersection,
         has_active_capability
<1>2. \A i : Token(v, i)' = Token(v, i)
  BY DEF SameStore, Token, cursor_token
<1>3. \A i : rank(kind[v], criteria[v], i)' = rank(kind[v], criteria[v], i)
  BY DEF SameStore, rank
<1>4. QED
  BY <1>1, <1>2, <1>3

\* A walk that is left alone keeps what is known of it.
LEMMA OtherWalk ==
    ASSUME SameStore, NEW v, SameWalk(v), WalkInv(v)
    PROVE  WalkInv(v)'
<1>1. /\ Eligible(v)' = Eligible(v)
      /\ \A i : Token(v, i)' = Token(v, i)
      /\ \A i : rank(kind[v], criteria[v], i)' = rank(kind[v], criteria[v], i)
  BY SameView DEF SameWalk
<1>2. \A i : After(v, i)' <=> After(v, i)
  BY <1>1 DEF After, SameWalk, SameStore
<1>3. Opened(v)' /\ ListInv(v)'
  BY DEF WalkInv, Opened, ListInv, SameWalk
<1>4. SteadyInv(v)'
  BY <1>1, <1>2 DEF WalkInv, SteadyInv, SameWalk
<1>5. QED
  BY <1>3, <1>4 DEF WalkInv

\* What a page does to its walk.
LEMMA PageEffect ==
    ASSUME TypeOK, NEW w \in Walks, NEW limit \in Limits, ReadPage(w, limit)
    PROVE  /\ SameStore
           /\ kind' = kind /\ criteria' = criteria /\ reranked' = reranked
           /\ returned'[w] = returned[w] \cup
                {Token(w, i) : i \in page(kind[w], criteria[w], cursor[w], limit)}
           /\ repeated'[w] = repeated[w] \cup
                {i \in page(kind[w], criteria[w], cursor[w], limit) : Token(w, i) \in returned[w]}
           /\ steady'[w] = IF status[w] = "new" THEN Eligible(w) ELSE steady[w]
           /\ \/ /\ status'[w] = "open"
                 /\ \E last \in page(kind[w], criteria[w], cursor[w], limit) :
                      /\ cursor'[w] = Token(w, last)
                      /\ \A j \in page(kind[w], criteria[w], cursor[w], limit) :
                           j = last \/ Before(kind[w], criteria[w], j, last)
              \/ /\ status'[w] = "done"
                 /\ ~has_more(kind[w], criteria[w], cursor[w], limit)
                 /\ cursor' = cursor
           /\ \A v \in Walks \ {w} : SameWalk(v)
<1> DEFINE p == page(kind[w], criteria[w], cursor[w], limit)
<1>1. /\ SameStore /\ kind' = kind /\ criteria' = criteria /\ reranked' = reranked
  BY DEF ReadPage, store, SameStore
<1>2. /\ returned' = [returned EXCEPT ![w] = @ \cup {Token(w, i) : i \in p}]
      /\ repeated' = [repeated EXCEPT ![w] = @ \cup {i \in p : Token(w, i) \in returned[w]}]
      /\ steady' = [steady EXCEPT ![w] = IF status[w] = "new" THEN Eligible(w) ELSE @]
  BY DEF ReadPage
<1>3. /\ returned'[w] = returned[w] \cup {Token(w, i) : i \in p}
      /\ \A v \in Walks \ {w} : returned'[v] = returned[v]
  BY <1>2 DEF TypeOK
<1>4. /\ repeated'[w] = repeated[w] \cup {i \in p : Token(w, i) \in returned[w]}
      /\ \A v \in Walks \ {w} : repeated'[v] = repeated[v]
  BY <1>2 DEF TypeOK
<1>5. /\ steady'[w] = IF status[w] = "new" THEN Eligible(w) ELSE steady[w]
      /\ \A v \in Walks \ {w} : steady'[v] = steady[v]
  BY <1>2 DEF TypeOK
<1>6. CASE /\ status' = [status EXCEPT ![w] = "open"]
           /\ \E token \in next_tokens(kind[w], criteria[w], cursor[w], limit) :
                cursor' = [cursor EXCEPT ![w] = token]
  <2>1. PICK token \in next_tokens(kind[w], criteria[w], cursor[w], limit) :
           cursor' = [cursor EXCEPT ![w] = token]
    BY <1>6
  <2>2. PICK last \in p : /\ token = Token(w, last)
                          /\ \A j \in p : j = last \/ Before(kind[w], criteria[w], j, last)
    BY DEF next_tokens, Token
  <2>3. cursor'[w] = Token(w, last) /\ \A v \in Walks \ {w} : cursor'[v] = cursor[v]
    BY <2>1, <2>2 DEF TypeOK
  <2>4. status'[w] = "open" /\ \A v \in Walks \ {w} : status'[v] = status[v]
    BY <1>6 DEF TypeOK
  <2>5. \A v \in Walks \ {w} : SameWalk(v)
    BY <1>1, <1>3, <1>4, <1>5, <2>3, <2>4 DEF SameWalk
  <2>6. \E l \in p : cursor'[w] = Token(w, l)
                     /\ \A j \in p : j = l \/ Before(kind[w], criteria[w], j, l)
    BY <2>2, <2>3
  <2> HIDE DEF p
  <2>7. QED
    BY <1>1, <1>3, <1>4, <1>5, <2>4, <2>5, <2>6 DEF p
<1>7. CASE /\ ~has_more(kind[w], criteria[w], cursor[w], limit)
           /\ status' = [status EXCEPT ![w] = "done"] /\ cursor' = cursor
  <2>1. status'[w] = "done" /\ \A v \in Walks \ {w} : status'[v] = status[v]
    BY <1>7 DEF TypeOK
  <2>2. \A v \in Walks \ {w} : SameWalk(v)
    BY <1>1, <1>3, <1>4, <1>5, <1>7, <2>1 DEF SameWalk
  <2>3. QED
    BY <1>1, <1>3, <1>4, <1>5, <1>7, <2>1, <2>2
<1>8. QED
  BY <1>6, <1>7 DEF ReadPage

\* A page keeps the invariant of its walk.
LEMMA PageKeeps ==
    ASSUME TypeOK, NEW w \in Walks, NEW limit \in Limits, ReadPage(w, limit), WalkInv(w)
    PROVE  WalkInv(w)'
<1> DEFINE k == kind[w]
           c == criteria[w]
           R == remaining(k, c, cursor[w])
           p == page(k, c, cursor[w], limit)
<1>0. StoreOK /\ limit \in Nat
  BY StoreTyped, PaginationAssumption
<1>1. p \subseteq R /\ R \subseteq Eligible(w) /\ Eligible(w) \subseteq Ids
  BY <1>0, RowsAreIds DEF Eligible
<1>2. status[w] \in {"new", "open"} /\ anchor_exists(k, c, cursor[w])
  BY DEF ReadPage
<1>3. /\ SameStore /\ kind' = kind /\ criteria' = criteria /\ reranked' = reranked
      /\ returned'[w] = returned[w] \cup {Token(w, i) : i \in p}
      /\ repeated'[w] = repeated[w] \cup {i \in p : Token(w, i) \in returned[w]}
      /\ steady'[w] = IF status[w] = "new" THEN Eligible(w) ELSE steady[w]
      /\ \/ /\ status'[w] = "open"
            /\ \E last \in p : /\ cursor'[w] = Token(w, last)
                               /\ \A j \in p : j = last \/ Before(k, c, j, last)
         \/ /\ status'[w] = "done"
            /\ ~has_more(k, c, cursor[w], limit)
  BY PageEffect
<1>4. /\ Eligible(w)' = Eligible(w)
      /\ \A i : Token(w, i)' = Token(w, i)
      /\ \A i : rank(kind[w], criteria[w], i)' = rank(kind[w], criteria[w], i)
  BY <1>3, SameView
<1>5. \A i \in Ids : /\ i \in Nat /\ created[i] \in Nat
                     /\ Token(w, i) \in Tokens
                     /\ Token(w, i)[1] = i /\ Token(w, i)[2] = created[i]
  BY StoreAssumption, TokenOK DEF TypeOK
<1>6. ~has_more(k, c, cursor[w], limit) => p = R
  BY <1>0, PageIsInitial
<1>7. ASSUME NEW last \in p, \A j \in p : j = last \/ Before(k, c, j, last), NEW i \in R
      PROVE  i \in p <=> ~Before(k, c, last, i)
  BY <1>0, <1>7, PageIsInitial
<1>8. ASSUME status[w] = "new" PROVE R = Eligible(w) /\ returned[w] = {} /\ repeated[w] = {}
  BY <1>8 DEF WalkInv, Opened, remaining, Eligible
<1>9. ASSUME status[w] = "open"
      PROVE  /\ cursor[w] \in Tokens
             /\ cursor[w][1] \in Eligible(w)
             /\ created[cursor[w][1]] = cursor[w][2]
             /\ \A i : After(w, i) <=> Before(k, c, cursor[w][1], i)
             /\ R = {i \in Eligible(w) : Before(k, c, cursor[w][1], i)}
  <2>1. cursor[w] \in Tokens
    BY <1>9 DEF WalkInv, Opened
  <2>2. QED
    BY <1>2, <2>1, AnchorIsCursor
<1> HIDE DEF R, p
<1>10. Opened(w)'
  BY <1>1, <1>3, <1>5 DEF Opened
<1>11. ASSUME NEW last \in p, cursor'[w] = Token(w, last), NEW i \in Ids
       PROVE  After(w, i)' <=> Before(k, c, last, i)
  <2>1. last \in Ids
    BY <1>1
  <2>2. cursor'[w][1] = last /\ cursor'[w][2] = created[last]
    BY <1>5, <1>11, <2>1
  <2>3. created'[i] = created[i]
    BY <1>3 DEF SameStore
  <2>4. /\ rank(kind[w], criteria[w], cursor[w][1])' = rank(k, c, last)
        /\ rank(kind[w], criteria[w], i)' = rank(k, c, i)
    BY <1>3, <1>4, <2>2 DEF rank, SameStore
  <2>5. QED
    BY <2>2, <2>3, <2>4 DEF After, Before
<1>12. ListInv(w)'
  <2> SUFFICES ASSUME kind[w] = "list"
               PROVE  /\ repeated'[w] = {}
                      /\ status'[w] = "open" =>
                           \A t \in returned'[w] : \/ t[2] > cursor'[w][2]
                                                   \/ t[2] = cursor'[w][2] /\ t[1] >= cursor'[w][1]
    BY <1>3 DEF ListInv
  <2>0. /\ repeated[w] = {}
        /\ status[w] = "open" => \A t \in returned[w] : \/ t[2] > cursor[w][2]
                                                        \/ t[2] = cursor[w][2] /\ t[1] >= cursor[w][1]
    BY DEF WalkInv, ListInv
  <2>1. \A i, j \in Ids : Before(k, c, i, j) <=>
          created[i] > created[j] \/ (created[i] = created[j] /\ i > j)
    BY ListOrder
  <2>2. ASSUME NEW i \in p PROVE Token(w, i) \notin returned[w]
    <3>1. CASE status[w] = "new"
      BY <1>8, <3>1
    <3>2. CASE status[w] = "open"
      <4>1. Before(k, c, cursor[w][1], i) /\ cursor[w][1] \in Ids /\ i \in Ids
        BY <1>1, <1>9, <3>2
      <4>2. cursor[w][2] > created[i] \/ (cursor[w][2] = created[i] /\ cursor[w][1] > i)
        BY <1>9, <2>1, <3>2, <4>1
      <4>3. cursor[w][2] \in Nat /\ cursor[w][1] \in Nat /\ created[i] \in Nat /\ i \in Nat
        BY <1>5, <1>9, <3>2, <4>1
      <4>4. ~(created[i] > cursor[w][2] \/ (created[i] = cursor[w][2] /\ i >= cursor[w][1]))
        BY <4>2, <4>3
      <4>5. Token(w, i)[1] = i /\ Token(w, i)[2] = created[i]
        BY <1>5, <4>1
      <4>6. \A t \in returned[w] :
              t[2] > cursor[w][2] \/ (t[2] = cursor[w][2] /\ t[1] >= cursor[w][1])
        BY <2>0, <3>2
      <4>7. ASSUME Token(w, i) \in returned[w] PROVE FALSE
        <5>1. \/ Token(w, i)[2] > cursor[w][2]
              \/ Token(w, i)[2] = cursor[w][2] /\ Token(w, i)[1] >= cursor[w][1]
          BY <4>6, <4>7
        <5>2. created[i] > cursor[w][2] \/ (created[i] = cursor[w][2] /\ i >= cursor[w][1])
          BY <4>5, <5>1
        <5>3. QED
          BY <4>4, <5>2
      <4>8. QED
        BY <4>7
    <3>3. QED
      BY <1>2, <3>1, <3>2
  <2>3. repeated'[w] = {}
    BY <1>3, <2>0, <2>2
  <2>4. ASSUME status'[w] = "open", NEW t \in returned'[w]
        PROVE  \/ t[2] > cursor'[w][2]
               \/ t[2] = cursor'[w][2] /\ t[1] >= cursor'[w][1]
    <3>1. PICK last \in p : /\ cursor'[w] = Token(w, last)
                            /\ \A j \in p : j = last \/ Before(k, c, j, last)
      BY <1>3, <2>4
    <3>2. last \in Ids /\ cursor'[w][1] = last /\ cursor'[w][2] = created[last]
      BY <1>1, <1>5, <3>1
    <3>3. CASE \E j \in p : t = Token(w, j)
      <4>1. PICK j \in p : t = Token(w, j)
        BY <3>3
      <4>2. j \in Ids /\ t[1] = j /\ t[2] = created[j]
        BY <1>1, <1>5, <4>1
      <4>3. j = last \/ created[j] > created[last] \/ (created[j] = created[last] /\ j > last)
        BY <2>1, <3>1, <3>2, <4>2
      <4>4. j \in Nat /\ last \in Nat /\ created[j] \in Nat /\ created[last] \in Nat
        BY <1>5, <3>2, <4>2
      <4>5. QED
        BY <3>2, <4>2, <4>3, <4>4
    <3>4. CASE t \in returned[w]
      <4>1. status[w] = "open"
        BY <1>2, <1>8, <3>4
      <4>2. t \in Tokens
        BY <3>4 DEF TypeOK
      <4>3. t[1] \in Nat /\ t[2] \in Nat
        BY <4>2, StoreAssumption DEF Tokens
      <4>4. cursor[w][1] \in Ids /\ Before(k, c, cursor[w][1], last)
        BY <1>1, <1>9, <4>1
      <4>5. /\ cursor[w][1] \in Nat /\ cursor[w][2] \in Nat
            /\ last \in Nat /\ created[last] \in Nat
        BY <1>5, <1>9, <3>2, <4>1, <4>4
      <4>6. cursor[w][2] > created[last] \/ (cursor[w][2] = created[last] /\ cursor[w][1] > last)
        BY <1>9, <2>1, <3>2, <4>1, <4>4
      <4>7. t[2] > cursor[w][2] \/ (t[2] = cursor[w][2] /\ t[1] >= cursor[w][1])
        BY <2>0, <3>4, <4>1
      <4>8. QED
        BY <3>2, <4>3, <4>5, <4>6, <4>7
    <3>5. QED
      BY <1>3, <3>3, <3>4
  <2>5. QED
    BY <2>3, <2>4
<1>13. SteadyInv(w)'
  <2>0. steady[w] \subseteq Eligible(w)
    BY DEF WalkInv, SteadyInv
  <2>1. steady'[w] \subseteq Eligible(w)
    BY <1>3, <2>0
  <2>2. ASSUME kind[w] = "list" \/ ~reranked[w]
        PROVE  /\ steady'[w] \cap repeated'[w] = {}
               /\ status'[w] = "open" =>
                    \A i \in steady'[w] : Token(w, i) \in returned'[w] <=> ~After(w, i)'
               /\ status'[w] = "done" => \A i \in steady'[w] : Token(w, i) \in returned'[w]
    <3>0. /\ steady[w] \cap repeated[w] = {}
          /\ status[w] = "open" => \A i \in steady[w] : Token(w, i) \in returned[w] <=> ~After(w, i)
      BY <2>2 DEF WalkInv, SteadyInv
    <3>1. \A i \in Ids : Token(w, i) \in returned'[w] <=> Token(w, i) \in returned[w] \/ i \in p
      BY <1>1, <1>3, TokensDiffer
    <3>2. \* what was returned is not in what remains
          ASSUME NEW i \in steady'[w]
          PROVE  i \in Ids /\ i \in Eligible(w) /\ (Token(w, i) \in returned[w] <=> i \notin R)
      <4>1. i \in Eligible(w) /\ i \in Ids
        BY <1>1, <2>1
      <4>2. CASE status[w] = "new"
        BY <1>8, <4>1, <4>2
      <4>3. CASE status[w] = "open"
        <5>1. i \in steady[w]
          BY <1>3, <4>3
        <5>2. Token(w, i) \in returned[w] <=> ~Before(k, c, cursor[w][1], i)
          BY <1>9, <3>0, <4>3, <5>1
        <5>3. QED
          BY <1>9, <4>1, <4>3, <5>2
      <4>4. QED
        BY <1>2, <4>1, <4>2, <4>3
    <3>3. ASSUME NEW i \in steady'[w] PROVE i \notin repeated'[w]
      <4>1. i \in p => Token(w, i) \notin returned[w]
        BY <1>1, <3>2
      <4>2. i \notin repeated[w]
        BY <1>2, <1>3, <1>8, <3>0
      <4>3. QED
        BY <1>3, <4>1, <4>2
    <3>4. ASSUME status'[w] = "open", NEW i \in steady'[w]
          PROVE  Token(w, i) \in returned'[w] <=> ~After(w, i)'
      <4>1. PICK last \in p : /\ cursor'[w] = Token(w, last)
                              /\ \A j \in p : j = last \/ Before(k, c, j, last)
        BY <1>3, <3>4
      <4>2. After(w, i)' <=> Before(k, c, last, i)
        BY <1>11, <3>2, <4>1
      <4>3. CASE i \in R
        <5>1. i \in p <=> ~Before(k, c, last, i)
          BY <1>7, <4>1, <4>3
        <5>2. QED
          BY <3>1, <3>2, <4>2, <4>3, <5>1
      <4>4. CASE i \notin R
        <5>1. Token(w, i) \in returned'[w]
          BY <3>1, <3>2, <4>4
        <5>2. status[w] = "open"
          BY <1>2, <1>8, <3>2, <4>4
        <5>3. ~Before(k, c, cursor[w][1], i) /\ Before(k, c, cursor[w][1], last)
          BY <1>1, <1>9, <3>2, <4>4, <5>2
        <5>4. cursor[w][1] \in Ids /\ last \in Ids /\ i \in Ids
          BY <1>1, <1>9, <3>2, <5>2
        <5>5. ~Before(k, c, last, i)
          BY <1>0, <5>3, <5>4, StrictOrder
        <5>6. QED
          BY <4>2, <5>1, <5>5
      <4>5. QED
        BY <4>3, <4>4
    <3>5. ASSUME status'[w] = "done", NEW i \in steady'[w]
          PROVE  Token(w, i) \in returned'[w]
      <4>1. p = R
        BY <1>3, <1>6, <3>5
      <4>2. QED
        BY <3>1, <3>2, <4>1
    <3>6. QED
      BY <3>3, <3>4, <3>5
  <2>3. QED
    BY <1>3, <1>4, <2>1, <2>2 DEF SteadyInv
<1>14. QED
  BY <1>10, <1>12, <1>13 DEF WalkInv

\* Other filters keep the invariant of the walk: key and token of a row do not depend on them.
LEMMA FiltersKeep ==
    ASSUME TypeOK, NEW w \in Walks, ChangeFilters(w), WalkInv(w)
    PROVE  WalkInv(w)' /\ SameStore /\ \A v \in Walks \ {w} : SameWalk(v)
<1>1. PICK c \in Criteria :
        /\ c.query = criteria[w].query
        /\ criteria' = [criteria EXCEPT ![w] = c]
        /\ steady' = [steady EXCEPT ![w] = @ \cap eligible(kind[w], c)]
  BY DEF ChangeFilters
<1>2. /\ SameStore /\ status[w] = "open" /\ status' = status /\ kind' = kind
      /\ cursor' = cursor /\ returned' = returned /\ repeated' = repeated
      /\ reranked' = reranked
  BY DEF ChangeFilters, store, SameStore
<1>3. /\ criteria'[w] = c /\ \A v \in Walks \ {w} : criteria'[v] = criteria[v]
      /\ steady'[w] = steady[w] \cap eligible(kind[w], c)
      /\ \A v \in Walks \ {w} : steady'[v] = steady[v]
  BY <1>1 DEF TypeOK
<1>4. \A v \in Walks \ {w} : SameWalk(v)
  BY <1>2, <1>3 DEF SameWalk
<1>5. Eligible(w)' = eligible(kind[w], c)
  BY <1>2, <1>3 DEF SameStore, Eligible, eligible, PassesFilter, memory_read_intersection,
                    has_active_capability
<1>6. \A i : Token(w, i)' = Token(w, i)
  BY <1>1, <1>2, <1>3 DEF Token, cursor_token, SameStore
<1>7. \A i : rank(kind[w], criteria[w], i)' = rank(kind[w], criteria[w], i)
  BY <1>1, <1>2, <1>3 DEF rank, SameStore
<1>8. \A i : After(w, i)' <=> After(w, i)
  BY <1>2, <1>7 DEF After, SameStore
<1>9. Opened(w)' /\ ListInv(w)'
  BY <1>2 DEF WalkInv, Opened, ListInv
<1>10. SteadyInv(w)'
  BY <1>2, <1>3, <1>5, <1>6, <1>8 DEF WalkInv, SteadyInv
<1>11. QED
  BY <1>2, <1>4, <1>9, <1>10 DEF WalkInv

\* A walk that is refused or fails is over, and the others are left alone.
LEMMA EndKeeps ==
    ASSUME TypeOK, NEW w \in Walks, WalkInv(w), NEW end \in {"refused", "failed"},
           status' = [status EXCEPT ![w] = end],
           UNCHANGED <<store, kind, criteria, cursor, returned, repeated, steady, reranked>>
    PROVE  WalkInv(w)' /\ SameStore /\ \A v \in Walks \ {w} : SameWalk(v)
<1>1. /\ SameStore /\ kind' = kind /\ criteria' = criteria /\ cursor' = cursor
      /\ returned' = returned /\ repeated' = repeated /\ steady' = steady
      /\ reranked' = reranked
  BY DEF store, SameStore
<1>2. status'[w] = end /\ \A v \in Walks \ {w} : status'[v] = status[v]
  BY DEF TypeOK
<1>3. \A v \in Walks \ {w} : SameWalk(v)
  BY <1>1, <1>2 DEF SameWalk
<1>4. Eligible(w)' = Eligible(w)
  BY <1>1, SameView
<1>5. Opened(w)' /\ ListInv(w)' /\ SteadyInv(w)'
  BY <1>1, <1>2, <1>4 DEF WalkInv, Opened, ListInv, SteadyInv
<1>6. QED
  BY <1>1, <1>3, <1>5 DEF WalkInv

\* Changes of rows and authority keep the invariant of every walk.
LEMMA ChangesKeep ==
    ASSUME TypeOK, NEW w \in Walks, StoreChanges, WalkInv(w)
    PROVE  WalkInv(w)'
<1>0. StoreOK
  BY StoreTyped
<1>1. /\ status' = status /\ kind' = kind /\ criteria' = criteria
      /\ cursor' = cursor /\ returned' = returned /\ repeated' = repeated
      /\ steady'[w] = {i \in steady[w] \cap Eligible(w)' : SameRank(w, i)}
      /\ reranked'[w] = (reranked[w] \/ (cursor[w] # NoCursor /\ ~SameRank(w, cursor[w][1])))
  BY DEF StoreChanges
<1>2. Opened(w)' /\ ListInv(w)'
  BY <1>1 DEF WalkInv, Opened, ListInv
<1>3. ASSUME NEW i \in steady'[w]
      PROVE  i \in steady[w] /\ created'[i] = created[i] /\ SameRank(w, i)
  <2>1. i \in steady[w] /\ SameRank(w, i)
    BY <1>1
  <2>2. i \in present
    BY <1>0, <2>1, RowsAreIds DEF WalkInv, SteadyInv, Eligible
  <2>3. QED
    BY <1>0, <2>1, <2>2, CreatedOnce DEF StoreChanges
<1>4. ASSUME NEW i \in steady'[w] PROVE Token(w, i)' = Token(w, i)
  BY <1>1, <1>3 DEF Token, cursor_token
<1>5. ASSUME status[w] = "open", kind[w] = "list" \/ ~reranked'[w], NEW i \in steady'[w]
      PROVE  After(w, i)' <=> After(w, i)
  <2>1. cursor[w] # NoCursor
    <3>1. PICK a \in Ids, t \in Times, q \in Queries \cup {NoQuery} : cursor[w] = <<a, t, q>>
      BY <1>5 DEF WalkInv, Opened, Tokens
    <3>2. QED
      BY <3>1 DEF NoCursor
  <2>2. rank(kind[w], criteria[w], cursor[w][1])' = rank(kind[w], criteria[w], cursor[w][1])
    <3>1. CASE kind[w] = "list"
      BY <1>1, <3>1 DEF rank
    <3>2. CASE ~reranked'[w]
      BY <1>1, <2>1, <3>2 DEF SameRank
    <3>3. QED
      BY <1>5, <3>1, <3>2
  <2>3. rank(kind[w], criteria[w], i)' = rank(kind[w], criteria[w], i)
    BY <1>3 DEF SameRank
  <2>4. QED
    BY <1>1, <1>3, <2>2, <2>3 DEF After
<1>6. SteadyInv(w)'
  <2>1. steady'[w] \subseteq Eligible(w)'
    BY <1>1
  <2>2. ASSUME kind[w] = "list" \/ ~reranked'[w]
        PROVE  /\ steady'[w] \cap repeated'[w] = {}
               /\ status'[w] = "open" =>
                    \A i \in steady'[w] : Token(w, i)' \in returned'[w] <=> ~After(w, i)'
               /\ status'[w] = "done" => \A i \in steady'[w] : Token(w, i)' \in returned'[w]
    <3>1. ~reranked'[w] => ~reranked[w]
      BY <1>1
    <3>2. /\ steady[w] \cap repeated[w] = {}
          /\ status[w] = "open" => \A i \in steady[w] : Token(w, i) \in returned[w] <=> ~After(w, i)
          /\ status[w] = "done" => \A i \in steady[w] : Token(w, i) \in returned[w]
      BY <2>2, <3>1 DEF WalkInv, SteadyInv
    <3>3. QED
      BY <1>1, <1>3, <1>4, <1>5, <2>2, <3>2
  <2>3. QED
    BY <1>1, <2>1, <2>2 DEF SteadyInv
<1>7. QED
  BY <1>2, <1>6 DEF WalkInv

\* A step of one walk keeps the invariant of all.
LEMMA OneWalk ==
    ASSUME NEW w \in Walks, \A v \in Walks : WalkInv(v), WalkInv(w)', SameStore,
           \A v \in Walks \ {w} : SameWalk(v)
    PROVE  \A v \in Walks : WalkInv(v)'
<1>1. ASSUME NEW v \in Walks \ {w} PROVE WalkInv(v)'
  <2>1. WalkInv(v) /\ SameWalk(v)
    OBVIOUS
  <2>2. QED
    BY <2>1, OtherWalk
<1>2. QED
  BY <1>1

\* The walks begin with the invariant.
LEMMA InitWalks == Init => \A w \in Walks : WalkInv(w)
<1> SUFFICES ASSUME Init, NEW w \in Walks PROVE WalkInv(w)
  OBVIOUS
<1>1. /\ status[w] = "new" /\ cursor[w] = NoCursor /\ returned[w] = {} /\ repeated[w] = {}
      /\ steady[w] = {}
  BY DEF Init
<1>2. QED
  BY <1>1 DEF WalkInv, Opened, ListInv, SteadyInv

\* Every step keeps the invariant.
LEMMA StepKeeps == IInv /\ [Next]_vars => IInv'
<1> SUFFICES ASSUME IInv, [Next]_vars PROVE IInv'
  OBVIOUS
<1>0. TypeOK /\ (\A w \in Walks : WalkInv(w)) /\ TypeOK'
  BY StepTyped DEF IInv
<1>1. ASSUME NEW w \in Walks, NEW limit \in Limits, ReadPage(w, limit)
      PROVE  \A v \in Walks : WalkInv(v)'
  <2>1. WalkInv(w)'
    BY <1>0, <1>1, PageKeeps
  <2>2. SameStore /\ \A v \in Walks \ {w} : SameWalk(v)
    BY <1>0, <1>1, PageEffect
  <2>3. QED
    BY <1>0, <2>1, <2>2, OneWalk
<1>2. ASSUME NEW w \in Walks, ChangeFilters(w) PROVE \A v \in Walks : WalkInv(v)'
  <2>1. WalkInv(w)' /\ SameStore /\ \A v \in Walks \ {w} : SameWalk(v)
    BY <1>0, <1>2, FiltersKeep
  <2>2. QED
    BY <1>0, <2>1, OneWalk
<1>3. ASSUME NEW w \in Walks, NEW end \in {"refused", "failed"},
             status' = [status EXCEPT ![w] = end],
             UNCHANGED <<store, kind, criteria, cursor, returned, repeated, steady, reranked>>
      PROVE  \A v \in Walks : WalkInv(v)'
  <2>1. WalkInv(w)' /\ SameStore /\ \A v \in Walks \ {w} : SameWalk(v)
    BY <1>0, <1>3, EndKeeps
  <2>2. QED
    BY <1>0, <2>1, OneWalk
<1>4. ASSUME NEW w \in Walks, RefuseCursor(w) PROVE \A v \in Walks : WalkInv(v)'
  BY <1>3, <1>4 DEF RefuseCursor
<1>5. ASSUME NEW w \in Walks, NEW limit \in Limits, FailOrder(w, limit)
      PROVE  \A v \in Walks : WalkInv(v)'
  BY <1>3, <1>5 DEF FailOrder
<1>6. ASSUME StoreChanges PROVE \A v \in Walks : WalkInv(v)'
  BY <1>0, <1>6, ChangesKeep
<1>7. ASSUME UNCHANGED vars PROVE \A v \in Walks : WalkInv(v)'
  <2>1. SameStore /\ \A v \in Walks : SameWalk(v)
    BY <1>7 DEF vars, walk, SameStore, SameWalk
  <2>2. QED
    BY <1>0, <2>1, OtherWalk
<1>8. \A v \in Walks : WalkInv(v)'
  BY <1>1, <1>2, <1>4, <1>5, <1>6, <1>7 DEF Next
<1>9. QED
  BY <1>0, <1>8 DEF IInv

\* The invariant holds throughout.
LEMMA Inductive == Spec => []IInv
<1>1. Init => IInv
  BY InitTyped, InitWalks DEF IInv
<1>2. QED
  BY <1>1, StepKeeps, PTL DEF Spec

\* memory_list_recent returns no row twice, whatever rows, authority and filters do between
\* its pages.
THEOREM ListsRepeatNothing == Spec => []ListNeverRepeats
<1>1. IInv => ListNeverRepeats
  BY DEF IInv, WalkInv, ListInv, ListNeverRepeats
<1>2. QED
  BY <1>1, Inductive, PTL

\* A walk to the end returns each row that stayed eligible under its key once.
THEOREM SteadyOnce == Spec => []SteadyRowsExactlyOnce
<1>1. IInv => SteadyRowsExactlyOnce
  BY DEF IInv, WalkInv, SteadyInv, SteadyRowsExactlyOnce
<1>2. QED
  BY <1>1, Inductive, PTL

-----------------------------------------------------------------------------
\* A page fails to be in order only where the two collations differ.
LEMMA DisorderIsCollation ==
    ASSUME TypeOK, NEW w \in Walks, NEW limit \in Limits,
           ~isOrdered(w, page(kind[w], criteria[w], cursor[w], limit))
    PROVE  \E i, j \in Eligible(w) :
             i > j /\ created[i] = created[j] /\ CodeUnits[i] < CodeUnits[j]
<1> DEFINE p == page(kind[w], criteria[w], cursor[w], limit)
<1>1. p \subseteq Eligible(w) /\ Eligible(w) \subseteq Ids
  BY StoreTyped, RowsAreIds DEF Eligible
<1>2. PICK i \in p, j \in p :
        /\ Before("list", criteria[w], i, j)
        /\ ~(created[i] > created[j]) /\ ~(CodeUnits[i] >= CodeUnits[j])
  BY DEF isOrdered
<1>3. i \in Ids /\ j \in Ids /\ i \in Eligible(w) /\ j \in Eligible(w)
  BY <1>1
<1>4. created[i] = created[j] /\ i > j
  BY <1>2, ListOrder
<1>5. CodeUnits[i] \in Nat /\ CodeUnits[j] \in Nat
  BY <1>3, PaginationAssumption
<1>6. CodeUnits[i] < CodeUnits[j]
  BY <1>2, <1>5
<1>7. QED
  BY <1>3, <1>4, <1>6

\* The server refuses a page of memory_list_recent as disordered only where the collations
\* of the database and of JavaScript disagree on two rows of one created_at.
THEOREM FailuresAreCollation == Spec => FailsOnlyOnCollation
<1>1. TypeOK /\ [Next]_vars =>
        [\A w \in Walks : status[w] # "failed" /\ status'[w] = "failed" =>
           \E i, j \in Eligible(w) :
             i > j /\ created[i] = created[j] /\ CodeUnits[i] < CodeUnits[j]]_vars
  <2> SUFFICES ASSUME TypeOK, Next, NEW w \in Walks,
                      status[w] # "failed", status'[w] = "failed"
               PROVE  \E i, j \in Eligible(w) :
                        i > j /\ created[i] = created[j] /\ CodeUnits[i] < CodeUnits[j]
    BY DEF vars, walk
  <2>1. ASSUME NEW v \in Walks, NEW s \in {"open", "done", "refused"},
               status' = [status EXCEPT ![v] = s]
        PROVE  FALSE
    BY <2>1 DEF TypeOK
  <2>2. ASSUME NEW v \in Walks, NEW limit \in Limits, FailOrder(v, limit)
        PROVE  v = w /\ ~isOrdered(w, page(kind[w], criteria[w], cursor[w], limit))
    BY <2>2 DEF FailOrder, TypeOK
  <2>3. ASSUME NEW v \in Walks, NEW limit \in Limits, ReadPage(v, limit) PROVE FALSE
    BY <2>1, <2>3 DEF ReadPage
  <2>4. ASSUME NEW v \in Walks, ChangeFilters(v) \/ RefuseCursor(v) PROVE FALSE
    BY <2>1, <2>4 DEF ChangeFilters, RefuseCursor
  <2>5. ~StoreChanges
    BY DEF StoreChanges
  <2>6. PICK v \in Walks, limit \in Limits : FailOrder(v, limit)
    BY <2>3, <2>4, <2>5 DEF Next
  <2>7. QED
    BY <2>2, <2>6, DisorderIsCollation
<1>2. QED
  BY <1>1, TypeCorrect, PTL DEF Spec, FailsOnlyOnCollation
=============================================================================
