---------------------- MODULE DefensiveRetrievalProofs ----------------------
(***************************************************************************)
(* memory_retrieve, proved for any table, any changes between its          *)
(* requests, any replies of upstream and any number of retrievals: what it *)
(* answers is true of a snapshot, and it answers once.                     *)
(***************************************************************************)
EXTENDS DefensiveRetrieval, MemoryStoreProofs, TLAPS

-----------------------------------------------------------------------------
(***************************************************************************)
(* The inductive invariant, of one retrieval.                              *)
(***************************************************************************)

\* Before the call nothing has happened, and each stage has its number of requests.
Counted(r) ==
    /\ stage[r] = "new" => /\ requests[r] = 0
                           /\ reply[r] = Unanswered
                           /\ outcome[r] = "none"
                           /\ ~aborted[r]
                           /\ searched[r]["first"] = NotSearched
                           /\ searched[r]["second"] = NotSearched
    /\ stage[r] = "first" => requests[r] = 1
    /\ stage[r] = "second" => requests[r] = 2
    /\ stage[r] = "get" => requests[r] \in {2, 3}

\* While run() is under way, the race is over exactly if the signal is aborted.
Raced(r) ==
    /\ InFlight(r) => outcome[r] = IF aborted[r] THEN "DEADLINE_EXCEEDED" ELSE "none"
    /\ stage[r] = "over" => outcome[r] # "none"

\* What has been searched at each stage: a second search follows a first one that was accepted
\* and found nothing, has no cursor that could be refused, and the candidate is all that the
\* last one found.
Progress(r) ==
    /\ stage[r] = "first" => /\ searched[r]["second"] = NotSearched
                             /\ reply[r] = Unanswered => searched[r]["first"] = NotSearched
    /\ stage[r] = "second" => /\ searched[r]["first"] = Evaluation("accepted", {})
                              /\ cursor[r] = NoCursor
                              /\ normalized[criteria[r].query] # criteria[r].query
                              /\ reply[r] = Unanswered => searched[r]["second"] = NotSearched
    /\ stage[r] = "get" => LastSearch(r) = {candidate[r]}
    /\ searched[r]["second"].verdict # "refused"

\* A page agrees with the snapshot of its search: all that was left, or some of it and not all.
PageOf(r, rest) ==
    /\ reply[r].items \subseteq rest
    /\ ~reply[r].nextCursor => reply[r].items = rest
    /\ reply[r].nextCursor => reply[r].items # {} /\ reply[r].items # rest

\* A reply on its way is of the request under way; a record that is the candidate was readable.
Replied(r) ==
    /\ reply[r].kind = "page" => /\ Searching(r)
                                 /\ searched[r][stage[r]].verdict = "accepted"
                                 /\ PageOf(r, searched[r][stage[r]].rest)
    /\ reply[r].kind = "record" => /\ stage[r] = "get"
                                   /\ reply[r].id = candidate[r] => candidate[r] \in readable[r]

\* The properties, of one retrieval that answers with a code and these rows.
Tells(r, code, items) ==
    /\ code = "scoped_no_match" => LastSearch(r) = {}
    /\ code = "ambiguous" => items = LastSearch(r) /\ Cardinality(items) > 1
    /\ code = "partial" =>
         items # {} /\ items \subseteq LastSearch(r) /\ items # LastSearch(r)
    /\ code = "found" => items = LastSearch(r) /\ items \subseteq readable[r]
    /\ /\ code = "scoped_no_match"
       /\ cursor[r] = NoCursor
       /\ normalized[criteria[r].query] # criteria[r].query
       => \A s \in {"first", "second"} : searched[r][s] = Evaluation("accepted", {})

Told(r) == Tells(r, outcome[r], result[r])

RunInv(r) == Counted(r) /\ Raced(r) /\ Progress(r) /\ Replied(r) /\ Told(r)

IInv == StoreOK /\ TypeOK /\ \A r \in Retrievals : RunInv(r)

-----------------------------------------------------------------------------
(***************************************************************************)
(* Steps.                                                                  *)
(***************************************************************************)

\* Retrieval v is left alone.
SameRun(v) ==
    /\ stage'[v] = stage[v]
    /\ criteria'[v] = criteria[v]
    /\ limit'[v] = limit[v]
    /\ cursor'[v] = cursor[v]
    /\ lastSearchQuery'[v] = lastSearchQuery[v]
    /\ candidate'[v] = candidate[v]
    /\ reply'[v] = reply[v]
    /\ aborted'[v] = aborted[v]
    /\ outcome'[v] = outcome[v]
    /\ result'[v] = result[v]
    /\ requests'[v] = requests[v]
    /\ searched'[v] = searched[v]
    /\ readable'[v] = readable[v]

\* A retrieval that is left alone keeps what is known of it: it does not depend on the table.
LEMMA SameKeeps ==
    ASSUME NEW v, SameRun(v), RunInv(v)
    PROVE  RunInv(v)'
<1>1. Counted(v)' /\ Raced(v)'
  BY DEF RunInv, Counted, Raced, InFlight, Searching, SameRun
<1>2. LastSearch(v)' = LastSearch(v)
  BY DEF LastSearch, SameRun
<1>3. Progress(v)'
  BY <1>2 DEF RunInv, Progress, SameRun
<1>4. Replied(v)'
  BY DEF RunInv, Replied, PageOf, Searching, SameRun
<1>5. Told(v)'
  BY <1>2 DEF RunInv, Told, Tells, SameRun
<1>6. QED
  BY <1>1, <1>3, <1>4, <1>5 DEF RunInv

\* A step of one retrieval leaves the others alone.
LEMMA OthersSame ==
    ASSUME TypeOK, NEW r \in Retrievals, Step(r), NEW v \in Retrievals \ {r}
    PROVE  SameRun(v)
<1>1. CASE Refuse(r)
  BY <1>1 DEF Refuse, Fail, End, SameRun, history, TypeOK
<1>2. CASE Start(r)
  BY <1>2 DEF Start, Request, returned, history, SameRun, TypeOK
<1>3. CASE EvaluateSearch(r)
  BY <1>3 DEF EvaluateSearch, run, returned, SameRun, TypeOK
<1>4. CASE EvaluateGet(r)
  BY <1>4 DEF EvaluateGet, run, returned, SameRun, TypeOK
<1>5. CASE UpstreamFails(r)
  BY <1>5 DEF UpstreamFails, run, returned, history, SameRun, TypeOK
<1>6. CASE RunAborted(r)
  BY <1>6 DEF RunAborted, Fail, End, history, SameRun, TypeOK
<1>7. CASE RequestFailed(r)
  BY <1>7 DEF RequestFailed, Settles, Fail, End, history, SameRun, TypeOK
<1>8. CASE SearchAgain(r)
  BY <1>8 DEF SearchAgain, Settles, Request, returned, history, SameRun, TypeOK
<1>9. CASE SearchDecides(r)
  BY <1>9 DEF SearchDecides, Settles, Finish, Fail, End, history, SameRun, TypeOK
<1>10. CASE GetCandidate(r)
  BY <1>10 DEF GetCandidate, Settles, Request, returned, history, SameRun, TypeOK
<1>11. CASE GetSettles(r)
  BY <1>11 DEF GetSettles, Settles, Finish, Fail, End, history, SameRun, TypeOK
<1>12. CASE Abort(r)
  BY <1>12 DEF Abort, run, history, SameRun, TypeOK
<1>13. QED
  BY <1>1, <1>2, <1>3, <1>4, <1>5, <1>6, <1>7, <1>8, <1>9, <1>10, <1>11, <1>12 DEF Step

\* Callers start with nothing.
LEMMA InitIInv == Init => IInv
<1> SUFFICES ASSUME Init PROVE IInv
  OBVIOUS
<1>1. StoreOK
  BY StoreInitOK DEF Init
<1>2. criteria \in [Retrievals -> CriteriaShape]
  BY StoreAssumption DEF Init
<1>3. lastSearchQuery \in [Retrievals -> Queries]
  BY <1>2 DEF Init, CriteriaShape
<1>4. searched \in [Retrievals -> [{"first", "second"} ->
         [verdict : {"none", "refused", "accepted"}, rest : SUBSET Ids]]]
  BY DEF Init, NotSearched, Evaluation
<1>5. aborted \in [Retrievals -> BOOLEAN]
  BY DEF Init
<1>6. TypeOK
  BY <1>3, <1>4, <1>5 DEF Init, TypeOK
<1>7. ASSUME NEW r \in Retrievals PROVE RunInv(r)
  <2>1. /\ stage[r] = "new" /\ requests[r] = 0 /\ reply[r] = Unanswered /\ outcome[r] = "none"
        /\ ~aborted[r]
        /\ searched[r]["first"] = NotSearched /\ searched[r]["second"] = NotSearched
    BY DEF Init
  <2>2. reply[r].kind = "none"
    BY <2>1 DEF Unanswered
  <2>3. searched[r]["second"].verdict = "none"
    BY <2>1 DEF NotSearched, Evaluation
  <2>4. QED
    BY <2>1, <2>2, <2>3 DEF RunInv, Counted, Raced, Progress, Replied, Told, Tells, InFlight,
                            Searching
<1>8. QED
  BY <1>1, <1>6, <1>7 DEF IInv

\* The end of run() has its type.
LEMMA EndTyped ==
    ASSUME TypeOK, NEW r \in Retrievals, NEW code \in Outcomes \cup Failures,
           NEW items \in SUBSET Ids, End(r, code, items)
    PROVE  /\ stage' \in [Retrievals -> {"new", "first", "second", "get", "over"}]
           /\ outcome' \in [Retrievals -> Outcomes \cup Failures \cup {"none"}]
           /\ result' \in [Retrievals -> SUBSET Ids]
           /\ reply' \in [Retrievals -> Pages \cup Records \cup Refusals \cup {Unanswered}]
<1>1. stage' \in [Retrievals -> {"new", "first", "second", "get", "over"}]
  BY DEF End, TypeOK
<1>2. outcome' \in [Retrievals -> Outcomes \cup Failures \cup {"none"}]
  BY DEF End, TypeOK
<1>3. result' \in [Retrievals -> SUBSET Ids]
  BY DEF End, TypeOK
<1>4. reply' \in [Retrievals -> Pages \cup Records \cup Refusals \cup {Unanswered}]
  BY DEF End, TypeOK
<1>5. QED
  BY <1>1, <1>2, <1>3, <1>4

\* So has a request.
LEMMA RequestTyped ==
    ASSUME TypeOK, NEW r \in Retrievals, NEW next \in {"first", "second", "get"},
           requests[r] \in 0..2, Request(r, next)
    PROVE  /\ stage' \in [Retrievals -> {"new", "first", "second", "get", "over"}]
           /\ requests' \in [Retrievals -> 0..3]
           /\ reply' \in [Retrievals -> Pages \cup Records \cup Refusals \cup {Unanswered}]
<1>1. stage' \in [Retrievals -> {"new", "first", "second", "get", "over"}]
  BY DEF Request, TypeOK
<1>2. requests[r] + 1 \in 0..3
  OBVIOUS
<1>3. requests' \in [Retrievals -> 0..3]
  BY <1>2 DEF Request, TypeOK
<1>4. reply' \in [Retrievals -> Pages \cup Records \cup Refusals \cup {Unanswered}]
  BY DEF Request, TypeOK
<1>5. QED
  BY <1>1, <1>3, <1>4

\* A page that has arrived is one.
LEMMA PageTyped ==
    ASSUME TypeOK, NEW r \in Retrievals, reply[r].kind = "page"
    PROVE  /\ reply[r] \in Pages
           /\ reply[r].items \subseteq Ids
           /\ reply[r].nextCursor \in BOOLEAN
<1>1. reply[r] \in Pages \cup Records \cup Refusals \cup {Unanswered}
  BY DEF TypeOK
<1>2. reply[r] \in Pages
  BY <1>1 DEF Pages, Records, Refusals, Unanswered
<1>3. QED
  BY <1>2 DEF Pages

\* The evaluation of a search has its type.
LEMMA EvaluateSearchTyped ==
    ASSUME StoreOK, TypeOK, NEW r \in Retrievals, EvaluateSearch(r)
    PROVE  TypeOK'
<1> DEFINE acc == anchor_exists("search", Asked(r), cursor[r])
           ev == IF acc THEN Evaluation("accepted", remaining("search", Asked(r), cursor[r]))
                 ELSE Evaluation("refused", {})
           rep == IF acc
                  THEN [kind |-> "page", items |-> page("search", Asked(r), cursor[r], limit[r]),
                        nextCursor |-> has_more("search", Asked(r), cursor[r], limit[r])]
                  ELSE [kind |-> "failure", code |-> "INVALID_REQUEST"]
<1>1. /\ remaining("search", Asked(r), cursor[r]) \subseteq Ids
      /\ page("search", Asked(r), cursor[r], limit[r]) \subseteq Ids
  BY RowsAreIds
<1>2. has_more("search", Asked(r), cursor[r], limit[r]) \in BOOLEAN
  BY DEF has_more
<1>3. ev \in [verdict : {"none", "refused", "accepted"}, rest : SUBSET Ids]
  BY <1>1 DEF Evaluation
<1>4. rep \in Pages \cup Refusals
  <2>1. CASE acc
    BY <1>1, <1>2, <2>1 DEF Pages
  <2>2. CASE ~acc
    BY <2>2 DEF Refusals, Failures, UpstreamFailures
  <2>3. QED
    BY <2>1, <2>2
<1>5. /\ stage[r] \in {"first", "second"}
      /\ searched' = [searched EXCEPT ![r][stage[r]] = ev]
      /\ reply' = [reply EXCEPT ![r] = rep]
  BY DEF EvaluateSearch, Searching
<1> HIDE DEF ev, rep, acc
<1>6. searched' \in [Retrievals -> [{"first", "second"} ->
        [verdict : {"none", "refused", "accepted"}, rest : SUBSET Ids]]]
  BY <1>3, <1>5 DEF TypeOK
<1>7. reply' \in [Retrievals -> Pages \cup Records \cup Refusals \cup {Unanswered}]
  BY <1>4, <1>5 DEF TypeOK
<1>8. QED
  BY <1>6, <1>7 DEF TypeOK, EvaluateSearch, run, returned

\* Every step of a retrieval keeps the types.
LEMMA StepTyped ==
    ASSUME StoreOK, TypeOK, NEW r \in Retrievals, RunInv(r), Step(r)
    PROVE  TypeOK'
<1>1. CASE Refuse(r)
  <2>1. {"DEADLINE_EXCEEDED", "INVALID_REQUEST"} \subseteq Outcomes \cup Failures
    BY DEF Failures, UpstreamFailures
  <2>2. aborted' \in [Retrievals -> BOOLEAN]
    BY <1>1 DEF Refuse, TypeOK
  <2>3. PICK code \in {"DEADLINE_EXCEEDED", "INVALID_REQUEST"} : End(r, code, {})
    BY <1>1 DEF Refuse, Fail
  <2>4. QED
    BY <1>1, <2>1, <2>2, <2>3, EndTyped DEF Refuse, history, TypeOK
<1>2. CASE Start(r)
  <2>1. requests[r] \in 0..2
    BY <1>2 DEF Start, RunInv, Counted
  <2>2. Request(r, "first")
    BY <1>2 DEF Start
  <2>3. QED
    BY <1>2, <2>1, <2>2, RequestTyped DEF Start, returned, history, TypeOK
<1>3. CASE EvaluateSearch(r)
  BY <1>3, EvaluateSearchTyped
<1>4. CASE EvaluateGet(r)
  <2>1. memory_read_intersection \subseteq Ids
    BY DEF memory_read_intersection, StoreOK
  <2>2. authorized_memory_get(candidate[r]) # NoRecord => candidate[r] \in Ids
    BY <2>1 DEF authorized_memory_get
  <2>3. readable' \in [Retrievals -> SUBSET Ids]
    BY <1>4, <2>1 DEF EvaluateGet, TypeOK
  <2>4. PICK rep \in Records \cup Refusals : reply' = [reply EXCEPT ![r] = rep]
    <3>1. CASE authorized_memory_get(candidate[r]) # NoRecord
      <4>1. [kind |-> "record", id |-> candidate[r]] \in Records
        BY <2>2, <3>1 DEF Records
      <4>2. QED
        BY <1>4, <3>1, <4>1 DEF EvaluateGet
    <3>2. CASE ~(authorized_memory_get(candidate[r]) # NoRecord)
      <4>1. [kind |-> "failure", code |-> "RESOURCE_UNAVAILABLE"] \in Refusals
        BY DEF Refusals, Failures
      <4>2. QED
        BY <1>4, <3>2, <4>1 DEF EvaluateGet
    <3>3. QED
      BY <3>1, <3>2
  <2>5. reply' \in [Retrievals -> Pages \cup Records \cup Refusals \cup {Unanswered}]
    BY <2>4 DEF TypeOK
  <2>6. QED
    BY <1>4, <2>3, <2>5 DEF EvaluateGet, run, returned, TypeOK
<1>5. CASE UpstreamFails(r)
  <2>1. PICK rep \in Records \cup Refusals : reply' = [reply EXCEPT ![r] = rep]
    BY <1>5 DEF UpstreamFails, Records, Refusals, Failures
  <2>2. reply' \in [Retrievals -> Pages \cup Records \cup Refusals \cup {Unanswered}]
    BY <2>1 DEF TypeOK
  <2>3. QED
    BY <1>5, <2>2 DEF UpstreamFails, run, returned, history, TypeOK
<1>6. CASE RunAborted(r)
  <2>1. "DEADLINE_EXCEEDED" \in Outcomes \cup Failures
    BY DEF Failures, UpstreamFailures
  <2>2. End(r, "DEADLINE_EXCEEDED", {})
    BY <1>6 DEF RunAborted, Fail
  <2>3. QED
    BY <1>6, <2>1, <2>2, EndTyped DEF RunAborted, history, TypeOK
<1>7. CASE RequestFailed(r)
  <2>1. reply[r] \in Pages \cup Records \cup Refusals \cup {Unanswered}
    BY DEF TypeOK
  <2>2. reply[r].code \in Failures
    BY <1>7, <2>1 DEF RequestFailed, Pages, Records, Refusals, Unanswered
  <2>3. End(r, reply[r].code, {})
    BY <1>7 DEF RequestFailed, Fail
  <2>4. QED
    BY <1>7, <2>2, <2>3, EndTyped DEF RequestFailed, Settles, history, TypeOK
<1>8. CASE SearchAgain(r)
  <2>1. requests[r] \in 0..2
    BY <1>8 DEF SearchAgain, MayNormalize, RunInv, Counted
  <2>2. Request(r, "second")
    BY <1>8 DEF SearchAgain
  <2>3. criteria[r] \in CriteriaShape
    BY StoreAssumption DEF TypeOK
  <2>4. normalized[criteria[r].query] \in Queries
    BY <2>3, RetrievalAssumption DEF CriteriaShape
  <2>5. lastSearchQuery' \in [Retrievals -> Queries]
    BY <1>8, <2>4 DEF SearchAgain, TypeOK
  <2>6. QED
    BY <1>8, <2>1, <2>2, <2>5, RequestTyped DEF SearchAgain, Settles, returned, history, TypeOK
<1>9. CASE SearchDecides(r)
  <2>1. reply[r].items \subseteq Ids /\ reply[r].nextCursor \in BOOLEAN
    BY <1>9, PageTyped DEF SearchDecides
  <2>2. Classify(reply[r].items, reply[r].nextCursor) \in Outcomes
    BY <2>1 DEF Classify, Outcomes
  <2>3. PICK code \in Outcomes \cup Failures, items \in SUBSET Ids : End(r, code, items)
    BY <1>9, <2>1, <2>2 DEF SearchDecides, Finish, Fail, Failures, UpstreamFailures
  <2>4. QED
    BY <1>9, <2>3, EndTyped DEF SearchDecides, Settles, history, TypeOK
<1>10. CASE GetCandidate(r)
  <2>1. requests[r] \in 0..2
    BY <1>10 DEF GetCandidate, Searching, RunInv, Counted
  <2>2. Request(r, "get")
    BY <1>10 DEF GetCandidate
  <2>3. reply[r].items \subseteq Ids
    BY <1>10, PageTyped DEF GetCandidate
  <2>4. candidate' \in [Retrievals -> Ids \cup {NoMemory}]
    BY <1>10, <2>3 DEF GetCandidate, TypeOK
  <2>5. QED
    BY <1>10, <2>1, <2>2, <2>4, RequestTyped DEF GetCandidate, Settles, returned, history, TypeOK
<1>11. CASE GetSettles(r)
  <2>1. reply[r] \in Pages \cup Records \cup Refusals \cup {Unanswered}
    BY DEF TypeOK
  <2>2. reply[r].id \in Ids
    BY <1>11, <2>1 DEF GetSettles, Pages, Records, Refusals, Unanswered
  <2>3. PICK code \in Outcomes \cup Failures, items \in SUBSET Ids : End(r, code, items)
    BY <1>11, <2>2 DEF GetSettles, Finish, Fail, Failures, UpstreamFailures, Outcomes
  <2>4. QED
    BY <1>11, <2>3, EndTyped DEF GetSettles, Settles, history, TypeOK
<1>12. CASE Abort(r)
  <2>1. aborted' \in [Retrievals -> BOOLEAN]
    BY <1>12 DEF Abort, TypeOK
  <2>2. outcome' \in [Retrievals -> Outcomes \cup Failures \cup {"none"}]
    BY <1>12 DEF Abort, TypeOK, Failures, UpstreamFailures
  <2>3. QED
    BY <1>12, <2>1, <2>2 DEF Abort, run, history, TypeOK
<1>13. QED
  BY <1>1, <1>2, <1>3, <1>4, <1>5, <1>6, <1>7, <1>8, <1>9, <1>10, <1>11, <1>12 DEF Step
-----------------------------------------------------------------------------
(***************************************************************************)
(* Each step of a retrieval keeps what is known of it.                     *)
(***************************************************************************)

\* What a reply is not.
LEMMA Kinds ==
    /\ Unanswered.kind = "none"
    /\ \A rep \in Pages : rep.kind = "page" /\ rep # Unanswered
    /\ \A rep \in Records : rep.kind = "record" /\ rep # Unanswered
    /\ \A rep \in Refusals : rep.kind = "failure" /\ rep # Unanswered
BY DEF Pages, Records, Refusals, Unanswered

\* A failure tells nothing.
LEMMA FailureTells ==
    ASSUME NEW r, NEW items, NEW code \in Failures
    PROVE  Tells(r, code, items)
BY DEF Tells, Failures, UpstreamFailures

\* run() may end with a code that tells the truth, or after the race is over.
LEMMA EndKeeps ==
    ASSUME TypeOK, NEW r \in Retrievals, RunInv(r), NEW code \in Outcomes \cup Failures,
           NEW items, End(r, code, items), outcome[r] = "none" => Tells(r, code, items),
           criteria'[r] = criteria[r], cursor'[r] = cursor[r], searched'[r] = searched[r],
           readable'[r] = readable[r]
    PROVE  RunInv(r)'
<1>1. code # "none"
  BY DEF Outcomes, Failures, UpstreamFailures
<1>2. /\ stage'[r] = "over"
      /\ reply'[r] = Unanswered
      /\ outcome'[r] = IF outcome[r] = "none" THEN code ELSE outcome[r]
      /\ result'[r] = IF outcome[r] = "none" THEN items ELSE result[r]
  BY DEF End, TypeOK
<1>3. outcome'[r] # "none"
  BY <1>1, <1>2
<1>4. LastSearch(r)' = LastSearch(r)
  BY DEF LastSearch
<1>5. Tells(r, outcome'[r], result'[r])
  BY <1>2 DEF RunInv, Told
<1>6. Told(r)'
  BY <1>4, <1>5 DEF Told, Tells
<1>7. Counted(r)' /\ Raced(r)' /\ Progress(r)'
  BY <1>2, <1>3 DEF RunInv, Counted, Raced, Progress, InFlight, Searching
<1>8. Replied(r)'
  BY <1>2, Kinds DEF Replied
<1>9. QED
  BY <1>6, <1>7, <1>8 DEF RunInv

\* The call is turned away, or makes its first request.
LEMMA ArrivalKeeps ==
    ASSUME TypeOK, NEW r \in Retrievals, RunInv(r), Refuse(r) \/ Start(r)
    PROVE  RunInv(r)'
<1>1. /\ stage[r] = "new" /\ requests[r] = 0 /\ outcome[r] = "none"
      /\ searched[r]["first"] = NotSearched
      /\ searched[r]["second"] = NotSearched
  BY DEF Refuse, Start, RunInv, Counted
<1>2. CASE Refuse(r)
  <2>1. PICK code \in {"DEADLINE_EXCEEDED", "INVALID_REQUEST"} : End(r, code, {})
    BY <1>2 DEF Refuse, Fail
  <2>2. Tells(r, code, {})
    BY <1>1 DEF Tells, NotSearched, Evaluation
  <2>3. code \in Outcomes \cup Failures
    BY DEF Failures, UpstreamFailures
  <2>4. QED
    BY <1>2, <2>1, <2>2, <2>3, EndKeeps DEF Refuse, history
<1>3. CASE Start(r)
  <2>1. /\ stage'[r] = "first" /\ requests'[r] = 1 /\ reply'[r] = Unanswered
        /\ outcome' = outcome /\ searched' = searched /\ aborted' = aborted
    BY <1>1, <1>3 DEF Start, Request, returned, history, TypeOK
  <2>2. ~aborted'[r]
    BY <1>1, <2>1 DEF RunInv, Counted
  <2>3. Counted(r)' /\ Raced(r)' /\ Progress(r)'
    BY <1>1, <2>1, <2>2 DEF RunInv, Counted, Raced, Progress, InFlight, Searching
  <2>4. Replied(r)' /\ Told(r)'
    BY <1>1, <2>1, Kinds DEF Replied, Told, Tells
  <2>5. QED
    BY <2>3, <2>4 DEF RunInv
<1>4. QED
  BY <1>2, <1>3

\* The database evaluates a search: its page is what PageIsInitial, PageHasFirst and
\* PageLeavesRest say of it, and without a cursor it refuses nothing.
LEMMA EvaluateSearchKeeps ==
    ASSUME StoreOK, TypeOK, NEW r \in Retrievals, RunInv(r), EvaluateSearch(r)
    PROVE  RunInv(r)'
<1> DEFINE acc == anchor_exists("search", Asked(r), cursor[r])
           rest == remaining("search", Asked(r), cursor[r])
           items == page("search", Asked(r), cursor[r], limit[r])
           more == has_more("search", Asked(r), cursor[r], limit[r])
<1>1. limit[r] \in Nat \ {0}
  BY RetrievalAssumption DEF TypeOK
<1>2. /\ items \subseteq rest
      /\ rest \subseteq Ids
      /\ ~more => items = rest
      /\ more => items # {} /\ items # rest
  <2>1. items \subseteq rest /\ rest \subseteq Ids
    BY RowsAreIds
  <2>2. ~more => items = rest
    BY <1>1, PageIsInitial
  <2>3. ASSUME more PROVE items # {} /\ items # rest
    <3>1. items # rest
      BY <1>1, <2>3, PageLeavesRest
    <3>2. rest # {}
      BY <2>1, <3>1
    <3>3. QED
      BY <1>1, <3>1, <3>2, PageHasFirst
  <2>4. QED
    BY <2>1, <2>2, <2>3
<1>3. more \in BOOLEAN
  BY DEF has_more
<1>4. /\ Searching(r) /\ stage[r] \in {"first", "second"} /\ reply[r] = Unanswered
      /\ searched[r] \in [{"first", "second"} ->
           [verdict : {"none", "refused", "accepted"}, rest : SUBSET Ids]]
  BY DEF EvaluateSearch, Searching, TypeOK
<1>5. /\ stage'[r] = stage[r] /\ aborted'[r] = aborted[r] /\ outcome'[r] = outcome[r]
      /\ requests'[r] = requests[r] /\ cursor'[r] = cursor[r] /\ criteria'[r] = criteria[r]
  BY DEF EvaluateSearch, run, returned
<1>6. /\ acc => /\ reply'[r] = [kind |-> "page", items |-> items, nextCursor |-> more]
                /\ searched'[r] = [searched[r] EXCEPT ![stage[r]] = Evaluation("accepted", rest)]
      /\ ~acc => /\ reply'[r] = [kind |-> "failure", code |-> "INVALID_REQUEST"]
                 /\ searched'[r] = [searched[r] EXCEPT ![stage[r]] = Evaluation("refused", {})]
  BY DEF EvaluateSearch, TypeOK
<1>7. stage[r] = "second" => acc
  BY DEF RunInv, Progress, anchor_exists
<1> HIDE DEF acc, rest, items, more
<1>8. outcome[r] \in {"none", "DEADLINE_EXCEEDED"}
  BY <1>4 DEF RunInv, Raced, InFlight
<1>9. Told(r)'
  BY <1>5, <1>8 DEF Told, Tells
<1>10. Counted(r)' /\ Raced(r)'
  BY <1>4, <1>5 DEF RunInv, Counted, Raced, InFlight, Searching
<1>11. reply'[r] # Unanswered
  BY <1>6 DEF Unanswered
<1>12. Progress(r)'
  <2>1. CASE stage[r] = "first"
    BY <1>4, <1>5, <1>6, <1>11, <2>1 DEF RunInv, Progress
  <2>2. CASE stage[r] = "second"
    <3>1. searched'[r] = [searched[r] EXCEPT !["second"] = Evaluation("accepted", rest)]
      BY <1>6, <1>7, <2>2
    <3>2. searched[r] \in [{"first", "second"} ->
            [verdict : {"none", "refused", "accepted"}, rest : SUBSET Ids]]
      BY DEF TypeOK
    <3>3. searched'[r]["second"].verdict = "accepted" /\ searched'[r]["first"] = searched[r]["first"]
      BY <3>1, <3>2 DEF Evaluation
    <3>4. QED
      BY <1>4, <1>5, <1>11, <2>2, <3>3 DEF RunInv, Progress
  <2>3. QED
    BY <1>4, <2>1, <2>2
<1>13. Replied(r)'
  <2>1. CASE acc
    <3>1. /\ reply'[r].kind = "page" /\ reply'[r].items = items /\ reply'[r].nextCursor = more
      BY <1>6, <2>1
    <3>2. searched'[r][stage[r]] = Evaluation("accepted", rest)
      BY <1>4, <1>6, <2>1
    <3>3. searched'[r][stage[r]].verdict = "accepted" /\ searched'[r][stage[r]].rest = rest
      BY <3>2 DEF Evaluation
    <3>4. Searching(r)'
      BY <1>4, <1>5 DEF Searching
    <3>5. QED
      BY <1>2, <1>5, <3>1, <3>3, <3>4 DEF Replied, PageOf
  <2>2. CASE ~acc
    <3>1. stage[r] = "first"
      BY <1>4, <1>7, <2>2
    <3>2. reply'[r].kind = "failure" /\ searched'[r]["first"] = Evaluation("refused", {})
      BY <1>4, <1>6, <2>2, <3>1
    <3>3. searched'[r]["first"].verdict = "refused"
      BY <3>2 DEF Evaluation
    <3>4. QED
      BY <1>5, <3>1, <3>2, <3>3 DEF Replied
  <2>3. QED
    BY <2>1, <2>2
<1>14. QED
  BY <1>9, <1>10, <1>12, <1>13 DEF RunInv

\* The database evaluates the get, upstream fails, or the race is lost.
LEMMA UpstreamKeeps ==
    ASSUME StoreOK, TypeOK, NEW r \in Retrievals, RunInv(r),
           EvaluateGet(r) \/ UpstreamFails(r) \/ Abort(r)
    PROVE  RunInv(r)'
<1>1. InFlight(r)
  BY DEF EvaluateGet, UpstreamFails, Abort, InFlight
<1>2. /\ stage'[r] = stage[r] /\ requests'[r] = requests[r] /\ searched'[r] = searched[r]
      /\ cursor'[r] = cursor[r] /\ criteria'[r] = criteria[r] /\ candidate'[r] = candidate[r]
      /\ result'[r] = result[r]
  BY DEF EvaluateGet, UpstreamFails, Abort, run, returned, history
<1>3. LastSearch(r)' = LastSearch(r)
  BY <1>2 DEF LastSearch
<1>4. Counted(r)'
  BY <1>1, <1>2 DEF RunInv, Counted, InFlight, Searching
<1>5. CASE EvaluateGet(r)
  <2>1. /\ stage[r] = "get" /\ aborted'[r] = aborted[r] /\ outcome'[r] = outcome[r]
        /\ readable'[r] = memory_read_intersection
    BY <1>5 DEF EvaluateGet, returned, TypeOK
  <2>2. Raced(r)' /\ Progress(r)'
    BY <1>2, <1>3, <2>1 DEF RunInv, Raced, Progress, InFlight, Searching
  <2>3. Told(r)'
    BY <1>1, <2>1 DEF RunInv, Raced, Told, Tells
  <2>4. Replied(r)'
    <3>1. CASE authorized_memory_get(candidate[r]) # NoRecord
      <4>1. reply'[r] = [kind |-> "record", id |-> candidate[r]]
        BY <1>5, <3>1 DEF EvaluateGet, TypeOK
      <4>2. candidate[r] \in memory_read_intersection
        BY <3>1 DEF authorized_memory_get
      <4>3. reply'[r].kind = "record"
        BY <4>1
      <4>4. QED
        BY <1>2, <2>1, <4>2, <4>3 DEF Replied
    <3>2. CASE ~(authorized_memory_get(candidate[r]) # NoRecord)
      <4>1. reply'[r] = [kind |-> "failure", code |-> "RESOURCE_UNAVAILABLE"]
        BY <1>5, <3>2 DEF EvaluateGet, TypeOK
      <4>2. QED
        BY <4>1 DEF Replied
    <3>3. QED
      BY <3>1, <3>2
  <2>5. QED
    BY <1>4, <2>2, <2>3, <2>4 DEF RunInv
<1>6. CASE UpstreamFails(r)
  <2>1. aborted'[r] = aborted[r] /\ outcome'[r] = outcome[r] /\ readable'[r] = readable[r]
    BY <1>6 DEF UpstreamFails, returned, history
  <2>2. \/ \E code \in UpstreamFailures : reply'[r] = [kind |-> "failure", code |-> code]
        \/ /\ stage[r] = "get"
           /\ \E i \in Ids \ {candidate[r]} : reply'[r] = [kind |-> "record", id |-> i]
    BY <1>6 DEF UpstreamFails, TypeOK
  <2>3. reply'[r] # Unanswered
    <3>1. CASE \E code \in UpstreamFailures : reply'[r] = [kind |-> "failure", code |-> code]
      BY <3>1 DEF Unanswered
    <3>2. CASE \E i \in Ids \ {candidate[r]} : reply'[r] = [kind |-> "record", id |-> i]
      BY <3>2 DEF Unanswered
    <3>3. QED
      BY <2>2, <3>1, <3>2
  <2>4. Raced(r)' /\ Progress(r)'
    BY <1>2, <1>3, <2>1, <2>3 DEF RunInv, Raced, Progress, InFlight, Searching
  <2>5. Told(r)'
    BY <1>1, <2>1 DEF RunInv, Raced, Told, Tells
  <2>6. Replied(r)'
    <3>1. ASSUME NEW code \in UpstreamFailures, reply'[r] = [kind |-> "failure", code |-> code]
          PROVE  Replied(r)'
      <4>1. reply'[r].kind = "failure"
        BY <3>1
      <4>2. QED
        BY <4>1 DEF Replied
    <3>2. ASSUME NEW i \in Ids \ {candidate[r]}, stage[r] = "get",
                 reply'[r] = [kind |-> "record", id |-> i]
          PROVE  Replied(r)'
      <4>1. reply'[r].kind = "record" /\ reply'[r].id = i
        BY <3>2
      <4>2. QED
        BY <1>2, <3>2, <4>1 DEF Replied
    <3>3. QED
      BY <2>2, <3>1, <3>2
  <2>7. QED
    BY <1>4, <2>4, <2>5, <2>6 DEF RunInv
<1>7. CASE Abort(r)
  <2>1. /\ aborted'[r] = TRUE /\ outcome'[r] = "DEADLINE_EXCEEDED" /\ reply'[r] = reply[r]
        /\ readable'[r] = readable[r]
    BY <1>7 DEF Abort, history, TypeOK
  <2>2. Raced(r)' /\ Progress(r)'
    BY <1>2, <1>3, <2>1 DEF RunInv, Raced, Progress
  <2>3. Told(r)'
    BY <2>1 DEF Told, Tells
  <2>4. Replied(r)'
    BY <1>2, <2>1 DEF RunInv, Replied, PageOf, Searching
  <2>5. QED
    BY <1>4, <2>2, <2>3, <2>4 DEF RunInv
<1>8. QED
  BY <1>5, <1>6, <1>7
\* run() stops after the signal, or because its request failed.
LEMMA FailureKeeps ==
    ASSUME TypeOK, NEW r \in Retrievals, RunInv(r), RunAborted(r) \/ RequestFailed(r)
    PROVE  RunInv(r)'
<1>1. CASE RunAborted(r)
  <2>1. End(r, "DEADLINE_EXCEEDED", {})
    BY <1>1 DEF RunAborted, Fail
  <2>2. Tells(r, "DEADLINE_EXCEEDED", {})
    BY FailureTells DEF Failures, UpstreamFailures
  <2>3. "DEADLINE_EXCEEDED" \in Outcomes \cup Failures
    BY DEF Failures, UpstreamFailures
  <2>4. QED
    BY <1>1, <2>1, <2>2, <2>3, EndKeeps DEF RunAborted, history
<1>2. CASE RequestFailed(r)
  <2>1. reply[r] \in Pages \cup Records \cup Refusals \cup {Unanswered}
    BY DEF TypeOK
  <2>2. reply[r].code \in Failures
    BY <1>2, <2>1 DEF RequestFailed, Pages, Records, Refusals, Unanswered
  <2>3. End(r, reply[r].code, {})
    BY <1>2 DEF RequestFailed, Fail
  <2>4. Tells(r, reply[r].code, {})
    BY <2>2, FailureTells
  <2>5. QED
    BY <1>2, <2>2, <2>3, <2>4, EndKeeps DEF RequestFailed, Settles, history
<1>3. QED
  BY <1>1, <1>2

\* The page on its way is one of the last search.
LEMMA PageOfLast ==
    ASSUME TypeOK, NEW r \in Retrievals, RunInv(r), Searching(r), reply[r].kind = "page"
    PROVE  PageOf(r, LastSearch(r))
<1>1. /\ searched[r][stage[r]].verdict = "accepted"
      /\ PageOf(r, searched[r][stage[r]].rest)
  BY DEF RunInv, Replied
<1>2. NotSearched.verdict = "none"
  BY DEF NotSearched, Evaluation
<1>3. CASE stage[r] = "first"
  <2>1. searched[r]["second"] = NotSearched
    BY <1>3 DEF RunInv, Progress
  <2>2. QED
    BY <1>1, <1>3, <2>1 DEF LastSearch
<1>4. CASE stage[r] = "second"
  <2>1. searched[r]["second"] # NotSearched
    BY <1>1, <1>2, <1>4
  <2>2. QED
    BY <1>1, <1>4, <2>1 DEF LastSearch
<1>5. QED
  BY <1>3, <1>4 DEF Searching

\* What a search that was accepted and found nothing left is known by.
LEMMA FoundNothing ==
    ASSUME TypeOK, NEW r \in Retrievals, NEW s \in {"first", "second"},
           searched[r][s].verdict = "accepted", searched[r][s].rest = {}
    PROVE  searched[r][s] = Evaluation("accepted", {})
<1>1. searched[r][s] \in [verdict : {"none", "refused", "accepted"}, rest : SUBSET Ids]
  BY DEF TypeOK
<1>2. QED
  BY <1>1 DEF Evaluation

\* The query is searched again in its normal form.
LEMMA SearchAgainKeeps ==
    ASSUME TypeOK, NEW r \in Retrievals, RunInv(r), SearchAgain(r)
    PROVE  RunInv(r)'
<1>1. /\ stage[r] = "first" /\ reply[r].items = {} /\ ~reply[r].nextCursor /\ ~aborted[r]
      /\ cursor[r] = NoCursor /\ normalized[criteria[r].query] # criteria[r].query
      /\ reply[r].kind = "page"
  BY DEF SearchAgain, MayNormalize, Settles
<1>2. requests[r] = 1 /\ outcome[r] = "none" /\ searched[r]["second"] = NotSearched
  BY <1>1 DEF RunInv, Counted, Raced, Progress, InFlight, Searching
<1>3. searched[r]["first"] = Evaluation("accepted", {})
  BY <1>1, FoundNothing DEF RunInv, Replied, PageOf
<1>4. /\ stage'[r] = "second" /\ requests'[r] = 2 /\ reply'[r] = Unanswered
      /\ outcome'[r] = outcome[r] /\ aborted'[r] = aborted[r] /\ searched'[r] = searched[r]
      /\ cursor'[r] = cursor[r] /\ criteria'[r] = criteria[r]
  BY <1>2 DEF SearchAgain, Request, Settles, returned, history, TypeOK
<1>5. Counted(r)' /\ Raced(r)'
  BY <1>1, <1>2, <1>4 DEF Counted, Raced, InFlight, Searching
<1>6. Progress(r)'
  BY <1>1, <1>2, <1>3, <1>4 DEF RunInv, Progress
<1>7. Replied(r)' /\ Told(r)'
  BY <1>2, <1>4, Kinds DEF Replied, Told, Tells
<1>8. QED
  BY <1>5, <1>6, <1>7 DEF RunInv

\* The page decides.
LEMMA SearchDecidesKeeps ==
    ASSUME TypeOK, NEW r \in Retrievals, RunInv(r), SearchDecides(r)
    PROVE  RunInv(r)'
<1> DEFINE items == reply[r].items
           more == reply[r].nextCursor
           code == Classify(items, more)
<1>1. /\ Searching(r) /\ reply[r].kind = "page" /\ ~MayNormalize(r) /\ ~IsUnique(items, more)
      /\ criteria'[r] = criteria[r] /\ cursor'[r] = cursor[r] /\ searched'[r] = searched[r]
      /\ readable'[r] = readable[r]
  BY DEF SearchDecides, Settles, history
<1>2. items \subseteq Ids /\ more \in BOOLEAN
  BY <1>1, PageTyped
<1>3. PageOf(r, LastSearch(r))
  BY <1>1, PageOfLast
<1>4. \/ more /\ code = "partial"
      \/ ~more /\ items = {} /\ code = "scoped_no_match"
      \/ ~more /\ items # {} /\ code = "ambiguous"
  BY <1>2 DEF Classify
<1>5. Tells(r, code, items)
  <2>1. CASE code = "partial"
    BY <1>3, <1>4, <2>1 DEF Tells, PageOf
  <2>2. CASE code = "ambiguous"
    <3>1. ~more /\ items # {} /\ items = LastSearch(r)
      BY <1>3, <1>4, <2>2 DEF PageOf
    <3>2. IsFiniteSet(items)
      BY <1>2, StoreAssumption, FS_Subset
    <3>3. Cardinality(items) \in Nat /\ Cardinality(items) # 0
      BY <3>1, <3>2, FS_CardinalityType, FS_EmptySet
    <3>4. Cardinality(items) # 1
      BY <1>1, <3>1 DEF IsUnique
    <3>5. Cardinality(items) > 1
      <4> HIDE DEF items
      <4>1. QED
        BY <3>3, <3>4
    <3>6. QED
      BY <2>2, <3>1, <3>5 DEF Tells
  <2>3. CASE code = "scoped_no_match"
    <3>1. ~more /\ items = {} /\ LastSearch(r) = {}
      BY <1>3, <1>4, <2>3 DEF PageOf
    <3>2. ASSUME cursor[r] = NoCursor, normalized[criteria[r].query] # criteria[r].query
          PROVE  \A s \in {"first", "second"} : searched[r][s] = Evaluation("accepted", {})
      <4>1. stage[r] = "second"
        BY <1>1, <3>1, <3>2 DEF MayNormalize, Searching
      <4>2. searched[r]["first"] = Evaluation("accepted", {})
        BY <4>1 DEF RunInv, Progress
      <4>3. searched[r]["second"].verdict = "accepted" /\ searched[r]["second"].rest = {}
        BY <1>1, <3>1, <4>1 DEF RunInv, Replied, PageOf
      <4>4. searched[r]["second"] = Evaluation("accepted", {})
        BY <4>3, FoundNothing
      <4>5. QED
        BY <4>2, <4>4
    <3>3. QED
      BY <2>3, <3>1, <3>2 DEF Tells
  <2>4. QED
    BY <1>4, <2>1, <2>2, <2>3
<1>6. code \in Outcomes
  BY <1>4 DEF Outcomes
<1>7. "RESPONSE_LIMIT_EXCEEDED" \in Failures /\ Tells(r, "RESPONSE_LIMIT_EXCEEDED", {})
  BY FailureTells DEF Failures, UpstreamFailures
<1>8. End(r, code, items) \/ End(r, "RESPONSE_LIMIT_EXCEEDED", {})
  BY DEF SearchDecides, Finish, Fail
<1> HIDE DEF code, items, more
<1>9. QED
  BY <1>1, <1>5, <1>6, <1>7, <1>8, EndKeeps

\* The one row there was is fetched.
LEMMA GetCandidateKeeps ==
    ASSUME TypeOK, NEW r \in Retrievals, RunInv(r), GetCandidate(r)
    PROVE  RunInv(r)'
<1>1. /\ Searching(r) /\ reply[r].kind = "page" /\ ~reply[r].nextCursor
      /\ Cardinality(reply[r].items) = 1 /\ ~aborted[r]
  BY DEF GetCandidate, IsUnique, Settles
<1>2. reply[r].items = LastSearch(r) /\ reply[r].items \subseteq Ids
  BY <1>1, PageOfLast, PageTyped DEF PageOf
<1>3. PICK i \in reply[r].items : candidate' = [candidate EXCEPT ![r] = i]
  BY DEF GetCandidate
<1>4. LastSearch(r) = {i}
  <2>1. IsFiniteSet(reply[r].items)
    BY <1>2, StoreAssumption, FS_Subset
  <2>2. PICK x : reply[r].items = {x}
    BY <1>1, <2>1, FS_Singleton
  <2>3. QED
    BY <1>2, <1>3, <2>2
<1>5. requests[r] \in {1, 2} /\ outcome[r] = "none"
  BY <1>1 DEF RunInv, Counted, Raced, InFlight, Searching
<1>6. /\ stage'[r] = "get" /\ requests'[r] = requests[r] + 1 /\ reply'[r] = Unanswered
      /\ outcome'[r] = outcome[r] /\ aborted'[r] = aborted[r] /\ searched'[r] = searched[r]
      /\ candidate'[r] = i
  BY <1>3 DEF GetCandidate, Request, Settles, returned, history, TypeOK
<1>7. Counted(r)' /\ Raced(r)'
  BY <1>1, <1>5, <1>6 DEF Counted, Raced, InFlight, Searching
<1>8. Progress(r)'
  BY <1>4, <1>6 DEF RunInv, Progress, LastSearch
<1>9. Replied(r)' /\ Told(r)'
  BY <1>5, <1>6, Kinds DEF Replied, Told, Tells
<1>10. QED
  BY <1>7, <1>8, <1>9 DEF RunInv

\* The record that was asked for is found; any other is an error.
LEMMA GetSettlesKeeps ==
    ASSUME TypeOK, NEW r \in Retrievals, RunInv(r), GetSettles(r)
    PROVE  RunInv(r)'
<1>1. /\ stage[r] = "get" /\ reply[r].kind = "record"
      /\ criteria'[r] = criteria[r] /\ cursor'[r] = cursor[r] /\ searched'[r] = searched[r]
      /\ readable'[r] = readable[r]
  BY DEF GetSettles, Settles, history
<1>2. LastSearch(r) = {candidate[r]}
  BY <1>1 DEF RunInv, Progress
<1>3. /\ {"RESPONSE_LIMIT_EXCEEDED", "INTERNAL_ERROR"} \subseteq Failures
      /\ "found" \in Outcomes
      /\ Tells(r, "RESPONSE_LIMIT_EXCEEDED", {})
      /\ Tells(r, "INTERNAL_ERROR", {})
  BY FailureTells DEF Failures, UpstreamFailures, Outcomes
<1>4. reply[r].id = candidate[r] => Tells(r, "found", {reply[r].id})
  BY <1>1, <1>2 DEF Tells, RunInv, Replied
<1>5. \/ reply[r].id = candidate[r] /\ End(r, "found", {reply[r].id})
      \/ End(r, "RESPONSE_LIMIT_EXCEEDED", {})
      \/ End(r, "INTERNAL_ERROR", {})
  BY DEF GetSettles, Finish, Fail
<1>6. QED
  BY <1>1, <1>3, <1>4, <1>5, EndKeeps

-----------------------------------------------------------------------------
(***************************************************************************)
(* The theorems.                                                           *)
(***************************************************************************)

\* Every step of the specification keeps the invariant.
LEMMA StepIInv == IInv /\ [Next]_vars => IInv'
<1> SUFFICES ASSUME IInv, [Next]_vars PROVE IInv'
  OBVIOUS
<1>1. StoreOK /\ TypeOK /\ \A v \in Retrievals : RunInv(v)
  BY DEF IInv
<1>2. ASSUME NEW r \in Retrievals, Step(r) PROVE IInv'
  <2>1. RunInv(r)'
    BY <1>1, <1>2, ArrivalKeeps, EvaluateSearchKeeps, UpstreamKeeps, FailureKeeps,
       SearchAgainKeeps, SearchDecidesKeeps, GetCandidateKeeps, GetSettlesKeeps DEF Step
  <2>2. ASSUME NEW v \in Retrievals \ {r} PROVE RunInv(v)'
    <3>1. SameRun(v)
      BY <1>1, <1>2, OthersSame
    <3>2. QED
      BY <1>1, <3>1, SameKeeps
  <2>3. UNCHANGED store
    BY <1>2 DEF Step, Refuse, Start, EvaluateSearch, EvaluateGet, UpstreamFails, RunAborted,
                RequestFailed, SearchAgain, SearchDecides, GetCandidate, GetSettles, Abort,
                Settles
  <2>4. StoreOK'
    BY <1>1, <2>3 DEF StoreOK, store
  <2>5. TypeOK'
    BY <1>1, <1>2, StepTyped
  <2>6. QED
    BY <2>1, <2>2, <2>4, <2>5 DEF IInv
<1>3. ASSUME UNCHANGED <<run, reply, aborted, returned, requests, history>>, StoreOK'
      PROVE  IInv'
  <2>1. TypeOK'
    BY <1>1, <1>3 DEF TypeOK, run, returned, history
  <2>2. ASSUME NEW v \in Retrievals PROVE RunInv(v)'
    <3>1. SameRun(v)
      BY <1>3 DEF SameRun, run, returned, history
    <3>2. QED
      BY <1>1, <3>1, SameKeeps
  <2>3. QED
    BY <1>3, <2>1, <2>2 DEF IInv
<1>4. CASE StoreChanges
  BY <1>1, <1>3, <1>4, StoreStepOK DEF StoreChanges
<1>5. CASE UNCHANGED vars
  <2>1. StoreOK'
    BY <1>1, <1>5 DEF StoreOK, store, vars
  <2>2. QED
    BY <1>3, <1>5, <2>1 DEF vars
<1>6. QED
  BY <1>2, <1>4, <1>5 DEF Next

\* What is known of every retrieval holds in every state.
LEMMA Inductive == Spec => []IInv
<1>1. Init => IInv
  BY InitIInv
<1>2. IInv /\ [Next]_vars => IInv'
  BY StepIInv
<1>3. QED
  BY <1>1, <1>2, PTL DEF Spec

\* The variables of memory_retrieve hold values of their kinds; it makes at most three
\* upstream requests.
THEOREM TypeCorrect == Spec => []TypeOK
<1>1. IInv => TypeOK
  BY DEF IInv
<1>2. QED
  BY <1>1, Inductive, PTL

\* What memory_retrieve answers is true of the snapshot of its last search, whatever is written
\* and revoked between its requests.
THEOREM AnswersTrue == Spec => []AnswersTrueOfSnapshot
<1>1. IInv => AnswersTrueOfSnapshot
  BY DEF IInv, RunInv, Told, Tells, AnswersTrueOfSnapshot
<1>2. QED
  BY <1>1, Inductive, PTL

\* "No match" follows a vain search for each form of the query.
THEOREM NoMatchTrue == Spec => []NoMatchInEitherForm
<1>1. IInv => NoMatchInEitherForm
  BY DEF IInv, RunInv, Told, Tells, NoMatchInEitherForm
<1>2. QED
  BY <1>1, Inductive, PTL

\* A cursor that the database accepts in the first search of a call is not refused by it in a
\* later one: only a call without a cursor searches twice.
THEOREM CursorNotRefused == Spec => []AcceptedCursorNotRefused
<1>1. IInv => AcceptedCursorNotRefused
  BY DEF IInv, RunInv, Progress, AcceptedCursorNotRefused
<1>2. QED
  BY <1>1, Inductive, PTL

\* After its answer a retrieval asks upstream for nothing more and answers nothing else: run(),
\* which goes on behind a race that is lost, looks at the signal before each request.
THEOREM AnswersOnce == Spec => ReturnsOnce
<1>1. ASSUME IInv, [Next]_vars
      PROVE  \A r \in Retrievals : outcome[r] # "none" =>
               requests'[r] = requests[r] /\ outcome'[r] = outcome[r]
  <2> SUFFICES ASSUME NEW v \in Retrievals, outcome[v] # "none"
               PROVE  requests'[v] = requests[v] /\ outcome'[v] = outcome[v]
    OBVIOUS
  <2>1. TypeOK /\ RunInv(v)
    BY <1>1 DEF IInv
  <2>2. stage[v] # "new" /\ (InFlight(v) => aborted[v])
    BY <2>1 DEF RunInv, Counted, Raced
  <2>3. ASSUME NEW code, NEW items, End(v, code, items) PROVE outcome'[v] = outcome[v]
    BY <2>1, <2>3 DEF End, TypeOK
  <2>4. ASSUME Step(v) PROVE requests'[v] = requests[v] /\ outcome'[v] = outcome[v]
    <3>1. ~Start(v) /\ ~Refuse(v) /\ ~Abort(v)
      BY <2>2 DEF Start, Refuse, Abort
    <3>2. ~SearchAgain(v) /\ ~GetCandidate(v)
      BY <2>2 DEF SearchAgain, GetCandidate, Settles, InFlight
    <3>3. CASE EvaluateSearch(v) \/ EvaluateGet(v) \/ UpstreamFails(v)
      BY <3>3 DEF EvaluateSearch, EvaluateGet, UpstreamFails, returned
    <3>4. CASE RunAborted(v)
      BY <2>3, <3>4 DEF RunAborted, Fail
    <3>5. CASE RequestFailed(v)
      BY <2>3, <3>5 DEF RequestFailed, Fail
    <3>6. CASE SearchDecides(v)
      BY <2>3, <3>6 DEF SearchDecides, Finish, Fail
    <3>7. CASE GetSettles(v)
      BY <2>3, <3>7 DEF GetSettles, Finish, Fail
    <3>8. QED
      BY <2>4, <3>1, <3>2, <3>3, <3>4, <3>5, <3>6, <3>7 DEF Step
  <2>5. ASSUME NEW r \in Retrievals \ {v}, Step(r)
        PROVE  requests'[v] = requests[v] /\ outcome'[v] = outcome[v]
    <3>1. SameRun(v)
      BY <2>1, <2>5, OthersSame
    <3>2. QED
      BY <3>1 DEF SameRun
  <2>6. CASE StoreChanges
    BY <2>6 DEF StoreChanges, returned
  <2>7. CASE UNCHANGED vars
    BY <2>7 DEF vars, returned
  <2>8. QED
    BY <1>1, <2>4, <2>5, <2>6, <2>7 DEF Next
<1>2. QED
  BY <1>1, Inductive, PTL DEF Spec, ReturnsOnce
=============================================================================
