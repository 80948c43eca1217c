-------------------------- MODULE ReadToolGovernor --------------------------
(***************************************************************************)
(* The in-process read governor (packages/server/src/read-tool-governor.ts)*)
(* that every memory read tool goes through: a process-global map from     *)
(* limiter scopes to limiter states, a sliding request window, a           *)
(* concurrency ceiling and a deadline.                                     *)
(*                                                                         *)
(* A step is a run-to-completion stretch of JavaScript: an executor runs   *)
(* without interruption up to `await execute(...)` (the actions Reject*    *)
(* and Admit) and again from the settlement of that promise to the end of  *)
(* its `finally` (Settle).  Other calls, the deadline timer and the caller *)
(* interleave only between those stretches.                                *)
(*                                                                         *)
(* A limiter state is an object with an identity: an executor keeps the    *)
(* reference it obtained at admission and releases its slot through it,    *)
(* whatever the map holds by then.  An object is named by the call that    *)
(* created it.                                                             *)
(***************************************************************************)
EXTENDS Integers, FiniteSets

CONSTANTS
    Calls,                   \* invocations the process receives
    Principals, Clients,     \* identities the controller may supply
    Operations,              \* tool names
    Nobody,                  \* an absent principalId or clientId
    NoState,                 \* `undefined` in place of a limiter state
    MAX_TRACKED_SCOPES,      \* bound on limiterStates
    maxConcurrentExecutions, \* the policy shared by the executors
    maxRequestsPerWindow,
    requestWindow,
    ToolSettlements,         \* the ways execute() settles in this instance
    MaxTime                  \* the clock stops here (bound of the model)

(***************************************************************************)
(* Codes.  "ok" stands for a schema-valid success output.                  *)
(***************************************************************************)
Denials == {"INVALID_REQUEST", "RESOURCE_UNAVAILABLE", "RESPONSE_LIMIT_EXCEEDED",
            "DEADLINE_EXCEEDED", "INTERNAL_ERROR"}
Codes == Denials \cup {"ok"}

(***************************************************************************)
(* How execute() may settle.  A returned value may fail the output schema, *)
(* be an error output with a code of its own, exceed the row or the byte   *)
(* ceiling, or be within bounds; a thrown cause may carry a client code.   *)
(***************************************************************************)
Returned == {"malformed", "tooManyRows", "tooManyBytes", "withinBounds"}
Thrown == {"TIMEOUT", "RESPONSE_TOO_LARGE", "INVALID", "other"}
Settlements == [kind : {"output"}, what : Returned]
                 \cup [kind : {"error output"}, what : Denials]
                 \cup [kind : {"throw"}, what : Thrown]

ASSUME GovernorAssumption ==
    /\ IsFiniteSet(Calls)
    /\ NoState \notin Calls
    /\ Nobody \notin Principals \cup Clients
    /\ MAX_TRACKED_SCOPES \in Nat \ {0}
    \* the TypeError of createReadToolExecutor (lines 221-230)
    /\ maxConcurrentExecutions \in Nat \ {0}
    /\ maxRequestsPerWindow \in Nat \ {0}
    /\ requestWindow \in Nat \ {0}
    /\ ToolSettlements \subseteq Settlements
    /\ MaxTime \in Nat

VARIABLES
    now,            \* the clock, in the unit of requestWindow
    limiterStates,  \* the Map: scope -> limiter state object, NoState if absent
    active,         \* the fields of each limiter state object
    requestTimestamps,
    lastTouchedAt,
    status,         \* where each call stands
    scope,          \* the scope of each call
    state,          \* the limiter state object each call holds
    aborted,        \* controller.signal.aborted of each running call
    response,       \* the code each settled call returned
    charged,        \* history: the calls that were charged to a window
    stamp           \* history: when each charged call was charged

objects == <<active, requestTimestamps, lastTouchedAt>>

vars == <<now, limiterStates, active, requestTimestamps, lastTouchedAt, status, scope,
          state, aborted, response, charged, stamp>>

-----------------------------------------------------------------------------
(***************************************************************************)
(* Identity.  The context carries controller-supplied identities only.     *)
(***************************************************************************)
Contexts == [principalId : Principals \cup {Nobody},
             clientId    : Clients \cup {Nobody},
             operation   : Operations]

deriveLimiterScope(context) ==
    IF context.principalId # Nobody THEN <<"principal", context.principalId>>
    ELSE IF context.clientId # Nobody THEN <<"client", context.clientId>>
    ELSE <<"operation", context.operation>>

Scopes == ({"principal"} \X Principals) \cup ({"client"} \X Clients)
            \cup ({"operation"} \X Operations)

NoScope == <<"none", Nobody>>

Tracked == {s \in Scopes : limiterStates[s] # NoState}
Running(s) == {c \in Calls : status[c] = "running" /\ scope[c] = s}

(***************************************************************************)
(* What getLimiterState may give a call c of scope s: the map after it and *)
(* the object.  Array.prototype.toSorted leaves entries touched in the     *)
(* same millisecond in insertion order; here any of them may be the        *)
(* victim.                                                                 *)
(***************************************************************************)
\* Mutant: the `active === 0` filter is missing.
EvictableEvenBusy == Tracked

Evictable == {v \in Tracked : active[limiterStates[v]] = 0}

\* Mutant: the idle entries are not sorted.
AnyEvictable == Evictable

LeastRecentlyTouched ==
    {v \in Evictable : \A w \in Evictable :
        lastTouchedAt[limiterStates[v]] <= lastTouchedAt[limiterStates[w]]}

Obtained(map, object) == [map |-> map, object |-> object]

\* Mutant: a full map is never evicted from.
getStateWithoutEviction(c, s) ==
    IF limiterStates[s] # NoState
        THEN {Obtained(limiterStates, limiterStates[s])}
    ELSE IF Cardinality(Tracked) < MAX_TRACKED_SCOPES
        THEN {Obtained([limiterStates EXCEPT ![s] = c], c)}
        ELSE {Obtained(limiterStates, NoState)}

getLimiterState(c, s) ==
    IF limiterStates[s] # NoState
        THEN {Obtained(limiterStates, limiterStates[s])}
    ELSE IF Cardinality(Tracked) < MAX_TRACKED_SCOPES
        THEN {Obtained([limiterStates EXCEPT ![s] = c], c)}
    ELSE IF Evictable = {}
        THEN {Obtained(limiterStates, NoState)}
    ELSE {Obtained([limiterStates EXCEPT ![v] = NoState, ![s] = c], c) :
            v \in LeastRecentlyTouched}

(***************************************************************************)
(* requestTimestamps is kept as the set of the calls whose charge is       *)
(* recorded; stamp gives the timestamp of each.  Live is what the filter   *)
(* of enforceWindow keeps.                                                 *)
(***************************************************************************)
Live(o) == {d \in requestTimestamps[o] : stamp[d] > now - requestWindow}

\* Mutant: one request too many passes the window.
WindowHasRoomForOneMore(o) == Cardinality(Live(o)) <= maxRequestsPerWindow

WindowHasRoom(o) == Cardinality(Live(o)) < maxRequestsPerWindow
-----------------------------------------------------------------------------
\* The fields an object has when it comes into being; enforceWindow then touches it
\* in the same step (lastTouchedAt).
createDefaultState ==
    /\ active = [c \in Calls |-> 0]
    /\ requestTimestamps = [c \in Calls |-> {}]
    /\ lastTouchedAt = [c \in Calls |-> 0]

Init ==
    /\ now = 0
    /\ limiterStates = [s \in Scopes |-> NoState]
    /\ createDefaultState
    /\ status = [c \in Calls |-> "idle"]
    /\ scope = [c \in Calls |-> NoScope]
    /\ state = [c \in Calls |-> NoState]
    /\ aborted = [c \in Calls |-> FALSE]
    /\ response = [c \in Calls |-> "none"]
    /\ charged = {}
    /\ stamp = [c \in Calls |-> 0]

(***************************************************************************)
(* A call ends: it returns a code.  The operational event it emits carries *)
(* the same code as its denial class (none for "ok"), and a sink that      *)
(* throws is ignored, so response stands for both.                         *)
(***************************************************************************)
Finish(c, code) ==
    /\ status' = [status EXCEPT ![c] = "settled"]
    /\ response' = [response EXCEPT ![c] = code]

Arrives(c, context) ==
    /\ status[c] = "idle"
    /\ scope' = [scope EXCEPT ![c] = deriveLimiterScope(context)]

\* The input does not match the tool's schema: the limiter is not consulted.
RejectInvalid(c, context) ==
    /\ Arrives(c, context)
    /\ Finish(c, "INVALID_REQUEST")
    /\ UNCHANGED <<now, limiterStates, objects, state, aborted, charged, stamp>>

\* Every tracked scope is busy and the map is full: getLimiterState gives up.
RejectExhausted(c, context) ==
    /\ Arrives(c, context)
    /\ \E got \in getLimiterState(c, deriveLimiterScope(context)) : got.object = NoState
    /\ Finish(c, "RESOURCE_UNAVAILABLE")
    /\ UNCHANGED <<now, limiterStates, objects, state, aborted, charged, stamp>>

\* The call obtains a limiter state object, and enforceWindow touches it.
Obtains(c, context, o) ==
    /\ Arrives(c, context)
    /\ o # NoState
    /\ \E got \in getLimiterState(c, deriveLimiterScope(context)) :
        /\ got.object = o
        /\ limiterStates' = got.map
    /\ state' = [state EXCEPT ![c] = o]
    /\ lastTouchedAt' = [lastTouchedAt EXCEPT ![o] = now]

\* The window is full: expired timestamps are dropped, nothing is charged.
RejectWindow(c, context) ==
    /\ \E o \in Calls :
        /\ Obtains(c, context, o)
        /\ ~WindowHasRoom(o)
        /\ requestTimestamps' = [requestTimestamps EXCEPT ![o] = Live(o)]
    /\ Finish(c, "RESOURCE_UNAVAILABLE")
    /\ UNCHANGED <<now, active, aborted, charged, stamp>>

\* enforceWindow has room: the call is charged now.
Charge(c, o) ==
    /\ WindowHasRoom(o)
    /\ requestTimestamps' = [requestTimestamps EXCEPT ![o] = Live(o) \cup {c}]
    /\ charged' = charged \cup {c}
    /\ stamp' = [stamp EXCEPT ![c] = now]

\* The window had room, and was charged, but no slot is free.
RejectConcurrency(c, context) ==
    /\ \E o \in Calls :
        /\ Obtains(c, context, o)
        /\ Charge(c, o)
        /\ active[o] >= maxConcurrentExecutions
    /\ Finish(c, "RESOURCE_UNAVAILABLE")
    /\ UNCHANGED <<now, active, aborted>>

\* A slot is taken, the deadline timer and the caller's signal are armed (the
\* caller may already have aborted) and execute() is called.
Admit(c, context) ==
    /\ \E o \in Calls :
        /\ Obtains(c, context, o)
        /\ Charge(c, o)
        /\ active[o] < maxConcurrentExecutions
        /\ active' = [active EXCEPT ![o] = @ + 1]
    /\ status' = [status EXCEPT ![c] = "running"]
    /\ \E already \in BOOLEAN : aborted' = [aborted EXCEPT ![c] = already]
    /\ UNCHANGED <<now, response>>

\* Mutant: the timer fires and does not abort the controller.
AbortNothing(c) ==
    /\ status[c] = "running"
    /\ ~aborted[c]
    /\ UNCHANGED vars

\* The maxExecutionMs timer fires, or the caller's signal aborts.
Abort(c) ==
    /\ status[c] = "running"
    /\ ~aborted[c]
    /\ aborted' = [aborted EXCEPT ![c] = TRUE]
    /\ UNCHANGED <<now, limiterStates, objects, status, scope, state, response, charged,
                   stamp>>

OutputCode(what) ==
    CASE what = "malformed" -> "INTERNAL_ERROR"
      [] what \in {"tooManyRows", "tooManyBytes"} -> "RESPONSE_LIMIT_EXCEEDED"
      [] what = "withinBounds" -> "ok"

\* causeToFailureCode, and the order in which the catch clause consults it: a
\* client TIMEOUT without an abort of this controller is an unexpected failure.
ThrownCode(c, what) ==
    CASE aborted[c] -> "DEADLINE_EXCEEDED"
      [] ~aborted[c] /\ what = "INVALID" -> "INVALID_REQUEST"
      [] ~aborted[c] /\ what = "RESPONSE_TOO_LARGE" -> "RESPONSE_LIMIT_EXCEEDED"
      [] ~aborted[c] /\ what \in {"TIMEOUT", "other"} -> "INTERNAL_ERROR"

SettledCode(c, settlement) ==
    CASE settlement.kind = "output" -> OutputCode(settlement.what)
      [] settlement.kind = "error output" -> settlement.what
      [] settlement.kind = "throw" -> ThrownCode(c, settlement.what)

releaseConcurrency(o) ==
    active' = [active EXCEPT ![o] = IF @ > 0 THEN @ - 1 ELSE @]

\* execute() settles: the outcome is classified and `finally` gives back the
\* slot through the object obtained at admission.
Settle(c) ==
    /\ status[c] = "running"
    /\ \E settlement \in ToolSettlements : Finish(c, SettledCode(c, settlement))
    /\ releaseConcurrency(state[c])
    /\ UNCHANGED <<now, limiterStates, requestTimestamps, lastTouchedAt, scope, state,
                   aborted, charged, stamp>>

Tick ==
    /\ \E t \in (now + 1)..MaxTime : now' = t
    /\ UNCHANGED <<limiterStates, objects, status, scope, state, aborted, response, charged,
                   stamp>>

Invoke(c, context) ==
    \/ RejectInvalid(c, context)
    \/ RejectExhausted(c, context)
    \/ RejectWindow(c, context)
    \/ RejectConcurrency(c, context)
    \/ Admit(c, context)

Next ==
    \/ \E c \in Calls, context \in Contexts : Invoke(c, context)
    \/ \E c \in Calls : Abort(c)
    \/ \E c \in Calls : Settle(c)
    \/ Tick

Spec == Init /\ [][Next]_vars

(***************************************************************************)
(* The timer of a running call fires, and what a tool executes settles     *)
(* once its signal is aborted (every executor the server registers passes  *)
(* the signal down to fetch or races against it).  Nothing else is fair:   *)
(* an upstream call that is not aborted may hang forever.                  *)
(***************************************************************************)
SettleAborted(c) == aborted[c] /\ Settle(c)

Fairness == \A c \in Calls : WF_vars(Abort(c)) /\ WF_vars(SettleAborted(c))

FairSpec == Spec /\ Fairness
-----------------------------------------------------------------------------
(***************************************************************************)
(* Properties.                                                             *)
(***************************************************************************)

\* The variables hold values of their kinds.
TypeOK ==
    /\ now \in Nat
    /\ limiterStates \in [Scopes -> Calls \cup {NoState}]
    /\ active \in [Calls -> Nat]
    /\ requestTimestamps \in [Calls -> SUBSET Calls]
    /\ lastTouchedAt \in [Calls -> Nat]
    /\ status \in [Calls -> {"idle", "running", "settled"}]
    /\ scope \in [Calls -> Scopes \cup {NoScope}]
    /\ state \in [Calls -> Calls \cup {NoState}]
    /\ aborted \in [Calls -> BOOLEAN]
    /\ response \in [Calls -> Codes \cup {"none"}]
    /\ charged \in SUBSET Calls
    /\ stamp \in [Calls -> Nat]

\* No two scopes share a limiter state object, and an object stays with the scope
\* of the call that created it: one principal's load never counts against another
\* (deriveLimiterScope, limiterStates.set).
OwnObjects ==
    \A s \in Tracked : /\ status[limiterStates[s]] # "idle"
                       /\ scope[limiterStates[s]] = s

\* A running call still holds the object that the map has for its scope: eviction
\* (the `active === 0` filter of getLimiterState) never orphans a slot.
HeldObjectsTracked ==
    \A c \in Calls : status[c] = "running" =>
        /\ scope[c] \in Scopes
        /\ state[c] # NoState
        /\ limiterStates[scope[c]] = state[c]

\* The counter of a tracked scope is the number of its running calls: no path
\* through createReadToolExecutor leaks a slot or gives one back twice.
SlotAccounting ==
    \A s \in Tracked : active[limiterStates[s]] = Cardinality(Running(s))

\* No slot of an object is taken before the object exists.
FreshObjects == \A c \in Calls : status[c] = "idle" => active[c] = 0

\* The four facts about slots together: inductive with TypeOK.
SlotInv == OwnObjects /\ HeldObjectsTracked /\ SlotAccounting /\ FreshObjects

\* At most maxConcurrentExecutions calls of one scope run at a time, whatever was
\* evicted and recreated meanwhile.
ConcurrencyBound == \A s \in Scopes : Cardinality(Running(s)) <= maxConcurrentExecutions

\* The map never outgrows MAX_TRACKED_SCOPES.
TrackingBound == Cardinality(Tracked) <= MAX_TRACKED_SCOPES

\* The calls an object was charged for during the last window (running, settled
\* and concurrency-denied ones alike).
RecentCharges(o) == {c \in charged : state[c] = o /\ stamp[c] > now - requestWindow}

\* The charges that still count are recorded in their object.
ChargesRecorded == \A o \in Calls : RecentCharges(o) \subseteq requestTimestamps[o]

\* An object never records more charges than the policy allows.
RecordBounded ==
    \A o \in Calls : Cardinality(requestTimestamps[o]) <= maxRequestsPerWindow

\* A call that has not arrived was not charged, and nobody holds the object it may create.
UnusedObjects ==
    \A c \in Calls : status[c] = "idle" =>
        /\ c \notin charged
        /\ requestTimestamps[c] = {}
        /\ \A d \in Calls : state[d] # c

\* The three facts about the request window together: inductive with TypeOK and SlotInv.
WindowInv == ChargesRecorded /\ RecordBounded /\ UnusedObjects

\* Every limiter state admits at most maxRequestsPerWindow calls in any window:
\* the pruning of enforceWindow never forgets a charge that still counts.
WindowBudget ==
    \A o \in Calls : Cardinality(RecentCharges(o)) <= maxRequestsPerWindow

\* A step never takes a scope with a running call, or one touched after another idle
\* scope, out of the map (getLimiterState's choice of the entry to delete).
EvictsOnlyLeastRecentlyUsed ==
    [][\A s \in Tracked : limiterStates'[s] # limiterStates[s] =>
         /\ Running(s) = {}
         /\ \A t \in Tracked : Running(t) = {} =>
              lastTouchedAt[limiterStates[s]] <= lastTouchedAt[limiterStates[t]]
      ]_vars

\* A well-formed call of a scope that is not tracked is turned away for lack of a
\* limiter state only when the map is full of scopes with running calls.
DeniesFreshScopeOnlyWhenAllBusy ==
    [][\A c \in Calls :
         /\ status[c] = "idle"
         /\ status'[c] = "settled"
         /\ response'[c] = "RESOURCE_UNAVAILABLE"
         /\ limiterStates[scope'[c]] = NoState
         => /\ Cardinality(Tracked) = MAX_TRACKED_SCOPES
            /\ \A t \in Tracked : Running(t) # {}
      ]_vars

\* Every admitted call settles, and so gives back its slot (deadline timer, abort
\* propagation and `finally`).
AdmittedCallsSettle ==
    \A c \in Calls : status[c] = "running" ~> status[c] = "settled"
=============================================================================
