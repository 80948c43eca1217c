------------------------- MODULE DefensiveRetrieval -------------------------
(***************************************************************************)
(* memory_retrieve: the search-then-get composition of                     *)
(* packages/server/src/defensive-retrieval.ts, as memory-retrieve.ts       *)
(* exposes it, over the memories of MemoryStore.  Its two or three         *)
(* upstream requests see different snapshots, and its deadline races them: *)
(* when the race is lost, run() goes on behind it.                         *)
(*                                                                         *)
(* A step is a macrotask with the microtasks it causes, or the database's  *)
(* evaluation of a request.                                                *)
(***************************************************************************)
EXTENDS MemoryStore

CONSTANTS
    Retrievals,   \* calls of memory_retrieve
    Limits,       \* the limits they ask for
    Cursors,      \* the cursors they bring, NoCursor for none
    normalized,   \* a query with its white space collapsed
    NoMemory      \* no memory_id

ASSUME RetrievalAssumption ==
    /\ Limits \subseteq Nat \ {0}
    /\ Cursors \subseteq Tokens \cup {NoCursor}
    /\ normalized \in [Queries -> Queries]
    /\ \A q \in Queries : normalized[normalized[q]] = normalized[q]
    /\ NoMemory \notin Ids

\* What a tool makes of the errors of the client.  The client takes every HTTP 400, and a
\* nextCursor it cannot read, for an invalid cursor: INVALID_REQUEST.
UpstreamFailures ==
    {"DEADLINE_EXCEEDED", "RESPONSE_LIMIT_EXCEEDED", "INVALID_REQUEST", "INTERNAL_ERROR"}
Failures == UpstreamFailures \cup {"RESOURCE_UNAVAILABLE"}
Outcomes == {"found", "ambiguous", "partial", "scoped_no_match"}

(***************************************************************************)
(* The reply to an upstream request: a page (its rows, and whether it has  *)
(* a nextCursor), a record, or what the failure of the request becomes.    *)
(***************************************************************************)
Pages == [kind : {"page"}, items : SUBSET Ids, nextCursor : BOOLEAN]
Records == [kind : {"record"}, id : Ids]
Refusals == [kind : {"failure"}, code : Failures]
Unanswered == [kind |-> "none"]

VARIABLES
    stage,            \* where run() stands: "new", "first", "second", "get" or "over"
    criteria, limit, cursor,   \* the input
    lastSearchQuery,
    candidate,        \* the one item of the search
    reply,            \* the reply on its way
    aborted,          \* controller.signal.aborted
    outcome,          \* what the retrieval returned, "none" before
    result,           \* the memory_ids of the rows it returned
    requests,         \* history: how many upstream requests were issued
    searched,         \* history: per search, the rows after the cursor in its snapshot
    readable          \* history: the rows the caller could read in the snapshot of the get

run == <<stage, criteria, limit, cursor, lastSearchQuery, candidate>>
history == <<searched, readable>>
returned == <<outcome, result>>
vars == <<store, run, reply, aborted, returned, requests, history>>

Evaluation(verdict, rest) == [verdict |-> verdict, rest |-> rest]
NotSearched == Evaluation("none", {})

Init ==
    /\ StoreInit
    /\ stage = [r \in Retrievals |-> "new"]
    /\ criteria \in [Retrievals -> Criteria]
    /\ limit \in [Retrievals -> Limits]
    /\ cursor \in [Retrievals -> Cursors]
    /\ lastSearchQuery = [r \in Retrievals |-> criteria[r].query]
    /\ candidate = [r \in Retrievals |-> NoMemory]
    /\ reply = [r \in Retrievals |-> Unanswered]
    /\ aborted = [r \in Retrievals |-> FALSE]
    /\ outcome = [r \in Retrievals |-> "none"]
    /\ result = [r \in Retrievals |-> {}]
    /\ requests = [r \in Retrievals |-> 0]
    /\ searched = [r \in Retrievals |-> [s \in {"first", "second"} |-> NotSearched]]
    /\ readable = [r \in Retrievals |-> {}]
-----------------------------------------------------------------------------
Searching(r) == stage[r] \in {"first", "second"}
InFlight(r) == Searching(r) \/ stage[r] = "get"

\* The criteria of the search under way.
Asked(r) == [criteria[r] EXCEPT !.query = lastSearchQuery[r]]

\* An upstream request is issued, and run() awaits it.
Request(r, next) ==
    /\ stage' = [stage EXCEPT ![r] = next]
    /\ requests' = [requests EXCEPT ![r] = @ + 1]
    /\ reply' = [reply EXCEPT ![r] = Unanswered]

\* run() ends, and the retrieval returns what it gives unless the race is over.
End(r, code, items) ==
    /\ stage' = [stage EXCEPT ![r] = "over"]
    /\ outcome' = [outcome EXCEPT ![r] = IF @ = "none" THEN code ELSE @]
    /\ result' = [result EXCEPT ![r] = IF outcome[r] = "none" THEN items ELSE @]
    /\ reply' = [reply EXCEPT ![r] = Unanswered]

Fail(r, code) == End(r, code, {})

\* finish(), and the output schema of the tool: what is too long for the wire is an error.
Finish(r, code, items) == End(r, code, items) \/ Fail(r, "RESPONSE_LIMIT_EXCEEDED")

\* The call arrives.  It may be aborted already, or its input may be unacceptable.
Refuse(r) ==
    /\ stage[r] = "new"
    /\ \/ Fail(r, "DEADLINE_EXCEEDED") /\ aborted' = [aborted EXCEPT ![r] = TRUE]
       \/ Fail(r, "INVALID_REQUEST") /\ UNCHANGED aborted
    /\ UNCHANGED <<store, criteria, limit, cursor, lastSearchQuery, candidate, requests,
                   history>>

Start(r) ==
    /\ stage[r] = "new"
    /\ Request(r, "first")
    /\ UNCHANGED <<store, criteria, limit, cursor, lastSearchQuery, candidate, aborted, returned,
                   history>>

(***************************************************************************)
(* The database evaluates a request on its snapshot.  It may do so after   *)
(* the caller has gone.                                                    *)
(***************************************************************************)
EvaluateSearch(r) ==
    LET accepted == anchor_exists("search", Asked(r), cursor[r]) IN
    /\ Searching(r)
    /\ reply[r] = Unanswered
    /\ searched' = [searched EXCEPT ![r][stage[r]] =
         IF accepted THEN Evaluation("accepted", remaining("search", Asked(r), cursor[r]))
                     ELSE Evaluation("refused", {})]
    /\ reply' = [reply EXCEPT ![r] =
         IF accepted
           THEN [kind |-> "page", items |-> page("search", Asked(r), cursor[r], limit[r]),
                 nextCursor |-> has_more("search", Asked(r), cursor[r], limit[r])]
           ELSE [kind |-> "failure", code |-> "INVALID_REQUEST"]]
    /\ UNCHANGED <<store, run, aborted, returned, requests, readable>>

EvaluateGet(r) ==
    /\ stage[r] = "get"
    /\ reply[r] = Unanswered
    /\ readable' = [readable EXCEPT ![r] = memory_read_intersection]
    /\ reply' = [reply EXCEPT ![r] =
         IF authorized_memory_get(candidate[r]) # NoRecord
           THEN [kind |-> "record", id |-> candidate[r]]
           ELSE [kind |-> "failure", code |-> "RESOURCE_UNAVAILABLE"]]
    /\ UNCHANGED <<store, run, aborted, returned, requests, searched>>

\* The request times out, the network fails, or the response is an error or unusable, even
\* if the database accepted the request; for all the server knows, a response may also hold
\* another record than the one it asked for.
UpstreamFails(r) ==
    /\ InFlight(r)
    /\ reply[r].kind # "failure"
    /\ \/ \E code \in UpstreamFailures :
            reply' = [reply EXCEPT ![r] = [kind |-> "failure", code |-> code]]
       \/ /\ stage[r] = "get"
          /\ \E i \in Ids \ {candidate[r]} :
               reply' = [reply EXCEPT ![r] = [kind |-> "record", id |-> i]]
    /\ UNCHANGED <<store, run, aborted, returned, requests, history>>
-----------------------------------------------------------------------------
\* An aborted run() looks at the signal first: it asks for nothing more.
RunAborted(r) ==
    /\ InFlight(r)
    /\ aborted[r]
    /\ reply[r] # Unanswered
    /\ Fail(r, "DEADLINE_EXCEEDED")
    /\ UNCHANGED <<store, criteria, limit, cursor, lastSearchQuery, candidate, aborted, requests,
                   history>>

\* Mutant: the signal is not looked at after an await.
SettlesAnyway(r) == UNCHANGED <<store, criteria, limit, cursor, aborted, history>>

Settles(r) ==
    /\ ~aborted[r]
    /\ UNCHANGED <<store, criteria, limit, cursor, aborted, history>>

\* A search or get that failed.
RequestFailed(r) ==
    /\ InFlight(r)
    /\ reply[r].kind = "failure"
    /\ Fail(r, reply[r].code)
    /\ Settles(r)
    /\ UNCHANGED <<lastSearchQuery, candidate, requests>>

\* Mutant: a search that was normalized is normalized again.
NormalizeAgain(r) ==
    /\ reply[r].items = {}
    /\ ~reply[r].nextCursor
    /\ cursor[r] = NoCursor
    /\ normalized[criteria[r].query] # criteria[r].query

\* Mutant: a continuation is searched under the normal form too.
NormalizeContinuation(r) ==
    /\ stage[r] = "first"
    /\ reply[r].items = {}
    /\ ~reply[r].nextCursor
    /\ normalized[criteria[r].query] # criteria[r].query

\* Mutant: the query is compared with its normal form the wrong way round.
NormalizeNormal(r) ==
    /\ stage[r] = "first"
    /\ reply[r].items = {}
    /\ ~reply[r].nextCursor
    /\ cursor[r] = NoCursor
    /\ normalized[criteria[r].query] = criteria[r].query

\* Nothing was found, and the caller's query, not a continuation of it, is written with
\* other white space than its normal form.
MayNormalize(r) ==
    /\ stage[r] = "first"
    /\ reply[r].items = {}
    /\ ~reply[r].nextCursor
    /\ cursor[r] = NoCursor
    /\ normalized[criteria[r].query] # criteria[r].query

SearchAgain(r) ==
    /\ Searching(r)
    /\ reply[r].kind = "page"
    /\ MayNormalize(r)
    /\ lastSearchQuery' = [lastSearchQuery EXCEPT ![r] = normalized[criteria[r].query]]
    /\ Request(r, "second")
    /\ Settles(r)
    /\ UNCHANGED <<candidate, returned>>

\* The page decides: there is more, nothing, or more than one.
Classify(items, nextCursor) ==
    CASE nextCursor -> "partial"
      [] ~nextCursor /\ items = {} -> "scoped_no_match"
      [] ~nextCursor /\ items # {} -> "ambiguous"

\* Mutant: a single row is taken for the only one.
IsSingle(items, nextCursor) == Cardinality(items) = 1

IsUnique(items, nextCursor) == ~nextCursor /\ Cardinality(items) = 1

SearchDecides(r) ==
    /\ Searching(r)
    /\ reply[r].kind = "page"
    /\ ~MayNormalize(r)
    /\ ~IsUnique(reply[r].items, reply[r].nextCursor)
    /\ Finish(r, Classify(reply[r].items, reply[r].nextCursor), reply[r].items)
    /\ Settles(r)
    /\ UNCHANGED <<lastSearchQuery, candidate, requests>>

GetCandidate(r) ==
    /\ Searching(r)
    /\ reply[r].kind = "page"
    /\ ~MayNormalize(r)
    /\ IsUnique(reply[r].items, reply[r].nextCursor)
    /\ \E i \in reply[r].items : candidate' = [candidate EXCEPT ![r] = i]
    /\ Request(r, "get")
    /\ Settles(r)
    /\ UNCHANGED <<lastSearchQuery, returned>>

GetSettles(r) ==
    /\ stage[r] = "get"
    /\ reply[r].kind = "record"
    /\ \/ reply[r].id = candidate[r] /\ Finish(r, "found", {reply[r].id})
       \/ reply[r].id # candidate[r] /\ Fail(r, "INTERNAL_ERROR")
    /\ Settles(r)
    /\ UNCHANGED <<lastSearchQuery, candidate, requests>>

\* Mutant: the race does not listen to the signal.
AbortRunOnly(r) ==
    /\ InFlight(r)
    /\ ~aborted[r]
    /\ aborted' = [aborted EXCEPT ![r] = TRUE]
    /\ UNCHANGED <<store, run, reply, returned, requests, history>>

\* The deadline, the governor or the caller aborts: the race is over, run() is not.
Abort(r) ==
    /\ InFlight(r)
    /\ ~aborted[r]
    /\ aborted' = [aborted EXCEPT ![r] = TRUE]
    /\ outcome' = [outcome EXCEPT ![r] = "DEADLINE_EXCEEDED"]
    /\ UNCHANGED <<store, run, reply, result, requests, history>>

StoreChanges ==
    /\ StoreNext
    /\ UNCHANGED <<run, reply, aborted, returned, requests, history>>

Step(r) == \/ Refuse(r) \/ Start(r)
           \/ EvaluateSearch(r) \/ EvaluateGet(r) \/ UpstreamFails(r)
           \/ RunAborted(r) \/ RequestFailed(r)
           \/ SearchAgain(r) \/ SearchDecides(r) \/ GetCandidate(r) \/ GetSettles(r)
           \/ Abort(r)

Next == (\E r \in Retrievals : Step(r)) \/ StoreChanges

Spec == Init /\ [][Next]_vars

\* Only the timer is fair: upstream may never answer.
FairSpec == Spec /\ \A r \in Retrievals : WF_vars(Abort(r))
-----------------------------------------------------------------------------
(***************************************************************************)
(* Properties.                                                             *)
(***************************************************************************)

\* The variables hold values of their kinds.
TypeOK ==
    /\ stage \in [Retrievals -> {"new", "first", "second", "get", "over"}]
    /\ criteria \in [Retrievals -> Criteria]
    /\ limit \in [Retrievals -> Limits]
    /\ cursor \in [Retrievals -> Cursors]
    /\ lastSearchQuery \in [Retrievals -> Queries]
    /\ candidate \in [Retrievals -> Ids \cup {NoMemory}]
    /\ reply \in [Retrievals -> Pages \cup Records \cup Refusals \cup {Unanswered}]
    /\ aborted \in [Retrievals -> BOOLEAN]
    /\ outcome \in [Retrievals -> Outcomes \cup Failures \cup {"none"}]
    /\ result \in [Retrievals -> SUBSET Ids]
    /\ requests \in [Retrievals -> 0..3]
    /\ searched \in [Retrievals -> [{"first", "second"} ->
         [verdict : {"none", "refused", "accepted"}, rest : SUBSET Ids]]]
    /\ readable \in [Retrievals -> SUBSET Ids]

LastSearch(r) ==
    searched[r][IF searched[r]["second"] # NotSearched THEN "second" ELSE "first"].rest

\* An answer is true of the snapshot of the last search: no row was left, all of several
\* or some of more were returned, or the one row there was, and that one was readable when
\* it was fetched (rows and authority may change between the search and the get).
AnswersTrueOfSnapshot ==
    \A r \in Retrievals :
        /\ outcome[r] = "scoped_no_match" => LastSearch(r) = {}
        /\ outcome[r] = "ambiguous" => result[r] = LastSearch(r) /\ Cardinality(result[r]) > 1
        /\ outcome[r] = "partial" =>
             result[r] # {} /\ result[r] \subseteq LastSearch(r) /\ result[r] # LastSearch(r)
        /\ outcome[r] = "found" => result[r] = LastSearch(r) /\ result[r] \subseteq readable[r]

\* "No match" is said only after both forms of a query have been searched in vain, unless
\* the call continues an earlier search.
NoMatchInEitherForm ==
    \A r \in Retrievals :
        /\ outcome[r] = "scoped_no_match"
        /\ cursor[r] = NoCursor
        /\ normalized[criteria[r].query] # criteria[r].query
        => \A s \in {"first", "second"} : searched[r][s] = Evaluation("accepted", {})

\* "Never reinterpret a continuation cursor under a different query": once the database has
\* accepted the cursor of a call, no later search of the call makes it refuse the cursor,
\* though rows, authority and the query searched for change in between.  (The answer may be
\* INVALID_REQUEST all the same: the client says so of any HTTP 400.)
AcceptedCursorNotRefused ==
    \A r \in Retrievals :
        searched[r]["first"].verdict = "accepted" => searched[r]["second"].verdict # "refused"

\* Once a retrieval has returned it asks upstream for nothing more, and its answer stands.
ReturnsOnce ==
    [][\A r \in Retrievals : outcome[r] # "none" =>
         requests'[r] = requests[r] /\ outcome'[r] = outcome[r]]_vars

\* A retrieval that starts returns, whatever upstream does.
RetrievalsReturn == \A r \in Retrievals : stage[r] # "new" ~> outcome[r] # "none"
=============================================================================
