----------------------- MODULE ReadToolGovernorProofs -----------------------
(***************************************************************************)
(* Theorems about the read governor, for every number of calls, every set  *)
(* of identities, every policy and every bound on the tracked scopes.      *)
(***************************************************************************)
EXTENDS ReadToolGovernor, FiniteSetTheorems, TLAPS

-----------------------------------------------------------------------------
(***************************************************************************)
(* Operators.                                                              *)
(***************************************************************************)

\* The scope deriveLimiterScope computes is one of Scopes.
LEMMA DerivedScope ==
    ASSUME NEW context \in Contexts
    PROVE  deriveLimiterScope(context) \in Scopes
BY DEF Contexts, deriveLimiterScope, Scopes

\* Every settlement of execute() is answered with a code (the return paths and the
\* catch clause of createReadToolExecutor).
LEMMA SettledCodeType ==
    ASSUME TypeOK, NEW c \in Calls, NEW settlement \in ToolSettlements
    PROVE  SettledCode(c, settlement) \in Codes
<1>1. settlement \in Settlements
  BY GovernorAssumption
<1>2. CASE settlement \in [kind : {"output"}, what : Returned]
  BY <1>2 DEF SettledCode, OutputCode, Codes, Denials, Returned
<1>3. CASE settlement \in [kind : {"error output"}, what : Denials]
  BY <1>3 DEF SettledCode, Codes
<1>4. CASE settlement \in [kind : {"throw"}, what : Thrown]
  <2>1. aborted[c] \in BOOLEAN
    BY DEF TypeOK
  <2>2. ThrownCode(c, settlement.what) \in Codes
    BY <1>4, <2>1 DEF ThrownCode, Codes, Denials, Thrown
  <2>3. QED
    BY <1>4, <2>2 DEF SettledCode
<1>5. QED
  BY <1>1, <1>2, <1>3, <1>4 DEF Settlements

(***************************************************************************)
(* What a call obtains from getLimiterState: the object the map has for    *)
(* its scope, or a fresh one after the eviction of at most one idle scope. *)
(***************************************************************************)
ObtainsExisting(s, o) == limiterStates[s] = o /\ limiterStates' = limiterStates

ObtainsFresh(c, s, o) ==
    /\ limiterStates[s] = NoState
    /\ o = c
    /\ \/ /\ Cardinality(Tracked) < MAX_TRACKED_SCOPES
          /\ limiterStates' = [limiterStates EXCEPT ![s] = c]
       \/ \E v \in LeastRecentlyTouched :
            /\ v \in Evictable
            /\ v # s
            /\ limiterStates' = [limiterStates EXCEPT ![v] = NoState, ![s] = c]

\* getLimiterState gives the existing object or a fresh one.
LEMMA ObtainsCases ==
    ASSUME TypeOK, NEW c \in Calls, NEW context \in Contexts, NEW o \in Calls,
           NEW s, s = deriveLimiterScope(context), Obtains(c, context, o)
    PROVE  ObtainsExisting(s, o) \/ ObtainsFresh(c, s, o)
<1>1. s \in Scopes
  BY DerivedScope
<1>2. PICK got \in getLimiterState(c, s) : got.object = o /\ limiterStates' = got.map
  BY DEF Obtains
<1>3. CASE limiterStates[s] # NoState
  <2>1. got = Obtained(limiterStates, limiterStates[s])
    BY <1>2, <1>3 DEF getLimiterState
  <2>2. QED
    BY <1>2, <2>1 DEF Obtained, ObtainsExisting
<1>4. CASE limiterStates[s] = NoState /\ Cardinality(Tracked) < MAX_TRACKED_SCOPES
  <2>1. got = Obtained([limiterStates EXCEPT ![s] = c], c)
    BY <1>2, <1>4 DEF getLimiterState
  <2>2. QED
    BY <1>2, <1>4, <2>1 DEF Obtained, ObtainsFresh
<1>5. CASE /\ limiterStates[s] = NoState
           /\ ~(Cardinality(Tracked) < MAX_TRACKED_SCOPES)
           /\ Evictable # {}
  <2>1. PICK v \in LeastRecentlyTouched :
           got = Obtained([limiterStates EXCEPT ![v] = NoState, ![s] = c], c)
    BY <1>2, <1>5 DEF getLimiterState
  <2>2. v \in Evictable /\ v # s
    BY <1>5, <2>1 DEF LeastRecentlyTouched, Evictable, Tracked
  <2>3. o = c /\ limiterStates' = [limiterStates EXCEPT ![v] = NoState, ![s] = c]
    BY <1>2, <2>1 DEF Obtained
  <2>4. QED
    BY <1>5, <2>2, <2>3 DEF ObtainsFresh
<1>6. CASE /\ limiterStates[s] = NoState
           /\ ~(Cardinality(Tracked) < MAX_TRACKED_SCOPES)
           /\ Evictable = {}
  <2>1. got.object = NoState
    BY <1>2, <1>6 DEF getLimiterState, Obtained
  <2>2. QED
    BY <1>2, <2>1, GovernorAssumption
<1>7. QED
  BY <1>3, <1>4, <1>5, <1>6

\* After getLimiterState the map is well-typed and holds the object under the scope.
LEMMA ObtainsType ==
    ASSUME TypeOK, NEW c \in Calls, NEW context \in Contexts, NEW o \in Calls,
           Obtains(c, context, o)
    PROVE  /\ limiterStates' \in [Scopes -> Calls \cup {NoState}]
           /\ limiterStates'[deriveLimiterScope(context)] = o
           /\ state' \in [Calls -> Calls \cup {NoState}]
           /\ scope' \in [Calls -> Scopes \cup {NoScope}]
           /\ lastTouchedAt' \in [Calls -> Nat]
<1>1. PICK s : s = deriveLimiterScope(context)
  OBVIOUS
<1>2. s \in Scopes
  BY <1>1, DerivedScope
<1>3. /\ state' \in [Calls -> Calls \cup {NoState}]
      /\ scope' \in [Calls -> Scopes \cup {NoScope}]
      /\ lastTouchedAt' \in [Calls -> Nat]
  BY <1>1, <1>2 DEF Obtains, Arrives, TypeOK
<1>4. limiterStates \in [Scopes -> Calls \cup {NoState}]
  BY DEF TypeOK
<1>5. limiterStates' \in [Scopes -> Calls \cup {NoState}] /\ limiterStates'[s] = o
  <2>1. CASE ObtainsExisting(s, o)
    BY <1>2, <1>4, <2>1 DEF ObtainsExisting
  <2>2. CASE ObtainsFresh(c, s, o)
    BY <1>2, <1>4, <2>2 DEF ObtainsFresh
  <2>3. QED
    BY <1>1, <2>1, <2>2, ObtainsCases
<1>6. QED
  BY <1>1, <1>3, <1>5

\* What the end of a call does to its status and its code is well-typed.
LEMMA FinishType ==
    ASSUME TypeOK, NEW c \in Calls, NEW code \in Codes, Finish(c, code)
    PROVE  /\ status' \in [Calls -> {"idle", "running", "settled"}]
           /\ response' \in [Calls -> Codes \cup {"none"}]
BY DEF TypeOK, Finish
-----------------------------------------------------------------------------
(***************************************************************************)
(* Type correctness.                                                       *)
(***************************************************************************)

\* The state variables keep their types (read-tool-governor.ts as a whole).
THEOREM TypeCorrect == Spec => []TypeOK
<1>1. Init => TypeOK
  BY GovernorAssumption DEF Init, TypeOK, createDefaultState, Codes
<1>2. TypeOK /\ [Next]_vars => TypeOK'
  <2> SUFFICES ASSUME TypeOK, [Next]_vars
               PROVE  TypeOK'
    OBVIOUS
  <2>1. ASSUME NEW c \in Calls, NEW context \in Contexts, RejectInvalid(c, context)
        PROVE  TypeOK'
    <3>1. "INVALID_REQUEST" \in Codes
      BY DEF Codes, Denials
    <3>2. QED
      BY <2>1, <3>1, DerivedScope, FinishType DEF TypeOK, RejectInvalid, Arrives, objects
  <2>0. "RESOURCE_UNAVAILABLE" \in Codes
    BY DEF Codes, Denials
  <2>2. ASSUME NEW c \in Calls, NEW context \in Contexts, RejectExhausted(c, context)
        PROVE  TypeOK'
    BY <2>2, <2>0, DerivedScope, FinishType DEF TypeOK, RejectExhausted, Arrives, objects
  <2>3. ASSUME NEW c \in Calls, NEW context \in Contexts, RejectWindow(c, context)
        PROVE  TypeOK'
    <3>1. PICK o \in Calls :
             /\ Obtains(c, context, o)
             /\ requestTimestamps' = [requestTimestamps EXCEPT ![o] = Live(o)]
      BY <2>3 DEF RejectWindow
    <3>2. requestTimestamps' \in [Calls -> SUBSET Calls]
      BY <3>1 DEF TypeOK, Live
    <3>3. QED
      BY <2>3, <2>0, <3>1, <3>2, ObtainsType, FinishType DEF TypeOK, RejectWindow
  <2>4. ASSUME NEW c \in Calls, NEW o \in Calls, Charge(c, o)
        PROVE  /\ requestTimestamps' \in [Calls -> SUBSET Calls]
               /\ charged' \in SUBSET Calls
               /\ stamp' \in [Calls -> Nat]
    BY <2>4 DEF Charge, Live, TypeOK
  <2>5. ASSUME NEW c \in Calls, NEW context \in Contexts, RejectConcurrency(c, context)
        PROVE  TypeOK'
    <3>1. PICK o \in Calls : Obtains(c, context, o) /\ Charge(c, o)
      BY <2>5 DEF RejectConcurrency
    <3>2. QED
      BY <2>4, <2>5, <2>0, <3>1, ObtainsType, FinishType DEF TypeOK, RejectConcurrency
  <2>6. ASSUME NEW c \in Calls, NEW context \in Contexts, Admit(c, context)
        PROVE  TypeOK'
    <3>1. PICK o \in Calls : /\ Obtains(c, context, o)
                             /\ Charge(c, o)
                             /\ active' = [active EXCEPT ![o] = @ + 1]
      BY <2>6 DEF Admit
    <3>2. active' \in [Calls -> Nat]
      BY <3>1 DEF TypeOK
    <3>3. aborted' \in [Calls -> BOOLEAN]
      BY <2>6 DEF TypeOK, Admit
    <3>4. status' \in [Calls -> {"idle", "running", "settled"}]
      BY <2>6 DEF TypeOK, Admit
    <3>5. QED
      BY <2>4, <2>6, <3>1, <3>2, <3>3, <3>4, ObtainsType DEF TypeOK, Admit
  <2>7. ASSUME NEW c \in Calls, Abort(c)
        PROVE  TypeOK'
    BY <2>7 DEF TypeOK, Abort, objects
  <2>8. ASSUME NEW c \in Calls, Settle(c)
        PROVE  TypeOK'
    <3>1. PICK settlement \in ToolSettlements : Finish(c, SettledCode(c, settlement))
      BY <2>8 DEF Settle
    <3>2. SettledCode(c, settlement) \in Codes
      BY SettledCodeType
    <3>3. active \in [Calls -> Nat]
      BY DEF TypeOK
    <3>4. active' \in [Calls -> Nat]
      <4>1. active' = [active EXCEPT ![state[c]] = IF active[state[c]] > 0
                                                     THEN active[state[c]] - 1
                                                     ELSE active[state[c]]]
        BY <2>8 DEF Settle, releaseConcurrency
      <4>2. CASE state[c] \in Calls
        BY <3>3, <4>1, <4>2
      <4>3. CASE state[c] \notin Calls
        BY <3>3, <4>1, <4>3
      <4>4. QED
        BY <4>2, <4>3
    <3>5. QED
      BY <2>8, <3>1, <3>2, <3>4, FinishType DEF TypeOK, Settle
  <2>9. CASE Tick
    BY <2>9, GovernorAssumption DEF TypeOK, Tick, objects
  <2>10. CASE UNCHANGED vars
    BY <2>10 DEF TypeOK, vars
  <2>11. QED
    BY <2>1, <2>2, <2>3, <2>5, <2>6, <2>7, <2>8, <2>9, <2>10 DEF Next, Invoke
<1>3. QED
  BY <1>1, <1>2, PTL DEF Spec
-----------------------------------------------------------------------------
(***************************************************************************)
(* Slots: active counts the running calls of a scope, through evictions.   *)
(***************************************************************************)

\* Only finitely many calls of a scope run, and none when the counter says zero.
LEMMA RunningFinite ==
    ASSUME NEW s
    PROVE  /\ IsFiniteSet(Running(s))
           /\ Cardinality(Running(s)) \in Nat
           /\ Cardinality(Running(s)) = 0 <=> Running(s) = {}
<1>1. Running(s) \subseteq Calls
  BY DEF Running
<1>2. IsFiniteSet(Running(s))
  BY <1>1, FS_Subset, GovernorAssumption
<1>3. QED
  BY <1>2, FS_CardinalityType, FS_EmptySet

\* An evicted scope (the `active === 0` filter) has no running call.
LEMMA EvictableIdle ==
    ASSUME TypeOK, SlotInv, NEW v \in Evictable
    PROVE  v \in Tracked /\ Running(v) = {}
<1>1. v \in Tracked /\ active[limiterStates[v]] = 0
  BY DEF Evictable
<1>2. Cardinality(Running(v)) = 0
  BY <1>1 DEF SlotInv, SlotAccounting
<1>3. QED
  BY <1>1, <1>2, RunningFinite

\* A scope without a limiter state has no running call.
LEMMA UntrackedIdle ==
    ASSUME TypeOK, SlotInv, NEW s, s \notin Tracked
    PROVE  Running(s) = {}
BY DEF SlotInv, HeldObjectsTracked, Tracked, Running, TypeOK

(***************************************************************************)
(* getLimiterState keeps every object with a running call where it was,    *)
(* and a call that obtains one finds it under its own scope.               *)
(***************************************************************************)
ObtainsKeeps(s, o) ==
    /\ OwnObjects'
    /\ \A t \in Scopes : t # s /\ limiterStates'[t] # NoState =>
          limiterStates'[t] = limiterStates[t]
    /\ \A d \in Calls : status[d] = "running" => limiterStates'[scope[d]] = state[d]
    /\ active[o] = Cardinality(Running(s))
    /\ \A t \in Scopes : t # s /\ limiterStates'[t] # NoState => limiterStates[t] # o

\* What getLimiterState keeps for the scopes with running calls.
LEMMA ObtainsSlots ==
    ASSUME TypeOK, SlotInv, NEW c \in Calls, NEW context \in Contexts, NEW o \in Calls,
           NEW s, s = deriveLimiterScope(context), Obtains(c, context, o),
           \/ status' = [status EXCEPT ![c] = "running"]
           \/ status' = [status EXCEPT ![c] = "settled"]
    PROVE  ObtainsKeeps(s, o)
<1>1. s \in Scopes
  BY DerivedScope
<1>2. limiterStates \in [Scopes -> Calls \cup {NoState}]
  BY DEF TypeOK
<1>3. status[c] = "idle" /\ scope' = [scope EXCEPT ![c] = s]
  BY DEF Obtains, Arrives
<1>4. \A t \in Scopes : limiterStates[t] # c
  BY <1>2, <1>3, GovernorAssumption DEF SlotInv, OwnObjects, Tracked
<1>5. ObtainsExisting(s, o) \/ ObtainsFresh(c, s, o)
  BY ObtainsCases
<1>6. \A t \in Scopes : t # s /\ limiterStates'[t] # NoState =>
         limiterStates'[t] = limiterStates[t]
  BY <1>1, <1>2, <1>5 DEF ObtainsExisting, ObtainsFresh
<1>7. limiterStates'[s] = o
  BY ObtainsType
<1>8. \A t \in Scopes : t # s /\ limiterStates'[t] # NoState => limiterStates[t] # o
  <2>1. CASE ObtainsExisting(s, o)
    BY <1>1, <1>2, <2>1, GovernorAssumption
    DEF ObtainsExisting, SlotInv, OwnObjects, Tracked
  <2>2. CASE ObtainsFresh(c, s, o)
    BY <1>4, <2>2 DEF ObtainsFresh
  <2>3. QED
    BY <1>5, <2>1, <2>2
<1>9. OwnObjects'
  <2> SUFFICES ASSUME NEW t \in Scopes, limiterStates'[t] # NoState
               PROVE  status'[limiterStates'[t]] # "idle" /\ scope'[limiterStates'[t]] = t
    BY DEF OwnObjects, Tracked
  <2>1. status \in [Calls -> {"idle", "running", "settled"}]
    BY DEF TypeOK
  <2>2. scope \in [Calls -> Scopes \cup {NoScope}]
    BY DEF TypeOK
  <2>3. CASE limiterStates[t] = limiterStates'[t]
    <3>1. limiterStates[t] \in Calls /\ limiterStates[t] # c
      BY <1>2, <1>4, <2>3
    <3>2. status[limiterStates[t]] # "idle" /\ scope[limiterStates[t]] = t
      BY <2>3 DEF SlotInv, OwnObjects, Tracked
    <3>3. QED
      BY <1>3, <2>1, <2>2, <2>3, <3>1, <3>2
  <2>4. CASE t = s /\ o = c
    BY <1>3, <1>7, <2>1, <2>2, <2>4
  <2>5. t = s /\ o # c => limiterStates[t] = limiterStates'[t]
    BY <1>5 DEF ObtainsExisting, ObtainsFresh
  <2>6. QED
    BY <1>6, <2>3, <2>4, <2>5
<1>10. ASSUME NEW d \in Calls, status[d] = "running"
       PROVE  limiterStates'[scope[d]] = state[d]
  <2>1. scope[d] \in Scopes /\ state[d] # NoState /\ limiterStates[scope[d]] = state[d]
    BY <1>10 DEF SlotInv, HeldObjectsTracked
  <2>2. CASE ObtainsExisting(s, o)
    BY <2>1, <2>2 DEF ObtainsExisting
  <2>3. CASE ObtainsFresh(c, s, o)
    <3>1. scope[d] # s
      BY <2>1, <2>3 DEF ObtainsFresh
    <3>2. \A v \in Evictable : scope[d] # v
      BY <1>10, EvictableIdle DEF Running
    <3>3. QED
      BY <1>2, <2>1, <2>3, <3>1, <3>2 DEF ObtainsFresh
  <2>4. QED
    BY <1>5, <2>2, <2>3
<1>11. active[o] = Cardinality(Running(s))
  <2>1. CASE ObtainsExisting(s, o)
    BY <1>1, <2>1, GovernorAssumption DEF ObtainsExisting, SlotInv, SlotAccounting, Tracked
  <2>2. CASE ObtainsFresh(c, s, o)
    <3>1. active[o] = 0
      BY <1>3, <2>2 DEF ObtainsFresh, SlotInv, FreshObjects
    <3>2. Running(s) = {}
      BY <2>2, UntrackedIdle DEF ObtainsFresh, Tracked
    <3>3. QED
      BY <3>1, <3>2, FS_EmptySet
  <2>3. QED
    BY <1>5, <2>1, <2>2
<1>12. QED
  BY <1>6, <1>8, <1>9, <1>10, <1>11 DEF ObtainsKeeps

\* A call that obtains a limiter state and is then refused leaves the slots alone.
LEMMA RefusedSlots ==
    ASSUME TypeOK, SlotInv, NEW c \in Calls, NEW context \in Contexts, NEW o \in Calls,
           Obtains(c, context, o), status' = [status EXCEPT ![c] = "settled"],
           active' = active
    PROVE  SlotInv'
<1>1. PICK s : s = deriveLimiterScope(context)
  OBVIOUS
<1>2. /\ status[c] = "idle"
      /\ scope' = [scope EXCEPT ![c] = s]
      /\ state' = [state EXCEPT ![c] = o]
  BY <1>1 DEF Obtains, Arrives
<1>3. status \in [Calls -> {"idle", "running", "settled"}]
  BY DEF TypeOK
<1>4. ObtainsKeeps(s, o)
  BY <1>1, ObtainsSlots
<1>5. limiterStates'[s] = o
  BY <1>1, ObtainsType
<1>6. \A d \in Calls : status'[d] = "running" <=> status[d] = "running" /\ d # c
  BY <1>2, <1>3
<1>7. \A d \in Calls : d # c => scope'[d] = scope[d] /\ state'[d] = state[d]
  BY <1>2 DEF TypeOK
<1>8. HeldObjectsTracked'
  BY <1>4, <1>6, <1>7 DEF ObtainsKeeps, HeldObjectsTracked, SlotInv
<1>9. \A t : Running(t)' = Running(t)
  BY <1>2, <1>6, <1>7 DEF Running
<1>10. SlotAccounting'
  BY <1>4, <1>5, <1>9 DEF ObtainsKeeps, SlotAccounting, SlotInv, Tracked
<1>11. FreshObjects'
  BY <1>3 DEF FreshObjects, SlotInv
<1>12. QED
  BY <1>4, <1>8, <1>10, <1>11 DEF ObtainsKeeps, SlotInv

\* A call that is admitted takes exactly one slot of its scope.
LEMMA AdmittedSlots ==
    ASSUME TypeOK, SlotInv, NEW c \in Calls, NEW context \in Contexts, NEW o \in Calls,
           Obtains(c, context, o), status' = [status EXCEPT ![c] = "running"],
           active' = [active EXCEPT ![o] = @ + 1]
    PROVE  /\ SlotInv'
           /\ \A t : t # deriveLimiterScope(context) => Running(t)' = Running(t)
           /\ Cardinality(Running(deriveLimiterScope(context))') = active[o] + 1
<1>1. PICK s : s = deriveLimiterScope(context)
  OBVIOUS
<1>2. /\ status[c] = "idle"
      /\ scope' = [scope EXCEPT ![c] = s]
      /\ state' = [state EXCEPT ![c] = o]
  BY <1>1 DEF Obtains, Arrives
<1>3. status \in [Calls -> {"idle", "running", "settled"}]
  BY DEF TypeOK
<1>4. ObtainsKeeps(s, o)
  BY <1>1, ObtainsSlots
<1>5. limiterStates'[s] = o
  BY <1>1, ObtainsType
<1>6. \A d \in Calls : status'[d] = "running" <=> status[d] = "running" \/ d = c
  BY <1>2, <1>3
<1>7. \A d \in Calls : d # c => scope'[d] = scope[d] /\ state'[d] = state[d]
  BY <1>2 DEF TypeOK
<1>8. scope'[c] = s /\ state'[c] = o /\ s \in Scopes
  BY <1>1, <1>2, DerivedScope DEF TypeOK
<1>9. HeldObjectsTracked'
  BY <1>4, <1>5, <1>6, <1>7, <1>8, GovernorAssumption
  DEF ObtainsKeeps, HeldObjectsTracked, SlotInv
<1>10. ASSUME NEW t, t # s
       PROVE  Running(t)' = Running(t)
  BY <1>2, <1>6, <1>7, <1>8, <1>10 DEF Running
<1>11. Running(s)' = Running(s) \cup {c} /\ c \notin Running(s)
  BY <1>2, <1>6, <1>7, <1>8 DEF Running
<1>12. Cardinality(Running(s)') = Cardinality(Running(s)) + 1
  BY <1>11, RunningFinite, FS_AddElement
<1>13. active \in [Calls -> Nat]
  BY DEF TypeOK
<1>14. SlotAccounting'
  <2> SUFFICES ASSUME NEW t \in Scopes, limiterStates'[t] # NoState
               PROVE  active'[limiterStates'[t]] = Cardinality(Running(t)')
    BY DEF SlotAccounting, Tracked
  <2>1. CASE t = s
    BY <1>4, <1>5, <1>12, <1>13, <2>1 DEF ObtainsKeeps
  <2>2. CASE t # s
    <3>1. limiterStates'[t] = limiterStates[t] /\ limiterStates[t] # o
      BY <1>4, <2>2 DEF ObtainsKeeps
    <3>2. active[limiterStates[t]] = Cardinality(Running(t))
      BY <3>1 DEF SlotInv, SlotAccounting, Tracked
    <3>3. limiterStates[t] \in Calls
      BY <3>1 DEF TypeOK
    <3>4. QED
      BY <1>10, <1>13, <2>2, <3>1, <3>2, <3>3
  <2>3. QED
    BY <2>1, <2>2
<1>15. o = c \/ status[o] # "idle"
  <2>1. ObtainsExisting(s, o) \/ ObtainsFresh(c, s, o)
    BY <1>1, ObtainsCases
  <2>2. QED
    BY <1>8, <2>1, GovernorAssumption
    DEF ObtainsExisting, ObtainsFresh, SlotInv, OwnObjects, Tracked
<1>16. FreshObjects'
  BY <1>3, <1>13, <1>15 DEF FreshObjects, SlotInv
<1>17. QED
  BY <1>1, <1>4, <1>9, <1>10, <1>12, <1>14, <1>16 DEF ObtainsKeeps, SlotInv

\* `finally` gives back the slot of the call, and no other.
LEMMA SettledSlots ==
    ASSUME TypeOK, SlotInv, NEW c \in Calls, Settle(c)
    PROVE  /\ SlotInv'
           /\ \A t : Running(t)' \subseteq Running(t)
<1>0. limiterStates' = limiterStates /\ scope' = scope /\ state' = state
  BY DEF Settle
<1>1. /\ status[c] = "running"
      /\ status' = [status EXCEPT ![c] = "settled"]
  BY DEF Settle, Finish
<1>2. PICK s \in Scopes : s = scope[c] /\ state[c] # NoState /\ limiterStates[s] = state[c]
  BY <1>1 DEF SlotInv, HeldObjectsTracked
<1>3. PICK o \in Calls : o = state[c]
  BY <1>2 DEF TypeOK
<1>4. active \in [Calls -> Nat]
  BY DEF TypeOK
<1>5. ASSUME NEW d \in Calls
      PROVE  /\ d # c => status'[d] = status[d]
             /\ status'[c] = "settled"
  BY <1>1 DEF TypeOK
<1>6. Running(s)' = Running(s) \ {c} /\ c \in Running(s)
  BY <1>0, <1>1, <1>2, <1>5 DEF Running
<1>7. \A t : t # s => Running(t)' = Running(t)
  BY <1>0, <1>1, <1>2, <1>5 DEF Running
<1>8. Cardinality(Running(s)') = Cardinality(Running(s)) - 1
  BY <1>6, RunningFinite, FS_RemoveElement
<1>9. active[o] = Cardinality(Running(s)) /\ active[o] > 0
  <2>1. active[o] = Cardinality(Running(s))
    BY <1>2, <1>3 DEF SlotInv, SlotAccounting, Tracked
  <2>2. QED
    BY <1>6, <2>1, RunningFinite
<1>10. active' = [active EXCEPT ![o] = @ - 1]
  BY <1>3, <1>9 DEF Settle, releaseConcurrency
<1>11. \A t \in Tracked : t # s => limiterStates[t] \in Calls /\ limiterStates[t] # o
  BY <1>2, <1>3 DEF SlotInv, OwnObjects, Tracked, TypeOK
<1>12. OwnObjects'
  BY <1>0, <1>1, <1>5 DEF SlotInv, OwnObjects, Tracked, TypeOK
<1>13. HeldObjectsTracked'
  BY <1>0, <1>1, <1>5 DEF SlotInv, HeldObjectsTracked
<1>14. SlotAccounting'
  BY <1>0, <1>2, <1>3, <1>4, <1>7, <1>8, <1>9, <1>10, <1>11
  DEF SlotInv, SlotAccounting, Tracked
<1>15. FreshObjects'
  <2>1. status[o] # "idle"
    BY <1>2, <1>3 DEF SlotInv, OwnObjects, Tracked
  <2>2. QED
    BY <1>1, <1>4, <1>5, <1>10, <2>1 DEF SlotInv, FreshObjects
<1>16. QED
  BY <1>6, <1>7, <1>12, <1>13, <1>14, <1>15 DEF SlotInv

\* A call refused before it obtains a limiter state leaves the slots alone.
LEMMA TurnedAwaySlots ==
    ASSUME TypeOK, SlotInv, NEW c \in Calls, NEW context \in Contexts,
           Arrives(c, context), status' = [status EXCEPT ![c] = "settled"],
           limiterStates' = limiterStates, active' = active, state' = state
    PROVE  SlotInv' /\ \A t : Running(t)' = Running(t)
<1>1. status[c] = "idle" /\ \A d \in Calls : d # c => scope'[d] = scope[d]
  BY DEF Arrives, TypeOK
<1>2. status'[c] = "settled" /\ \A d \in Calls : d # c => status'[d] = status[d]
  BY DEF TypeOK
<1>3. \A t : Running(t)' = Running(t)
  BY <1>1, <1>2 DEF Running
<1>4. \A t \in Tracked : limiterStates[t] \in Calls /\ limiterStates[t] # c
  BY <1>1 DEF Tracked, TypeOK, SlotInv, OwnObjects
<1>5. OwnObjects'
  BY <1>1, <1>2, <1>4 DEF SlotInv, OwnObjects, Tracked
<1>6. HeldObjectsTracked'
  BY <1>1, <1>2 DEF SlotInv, HeldObjectsTracked
<1>7. SlotAccounting'
  BY <1>3 DEF SlotInv, SlotAccounting, Tracked
<1>8. FreshObjects'
  BY <1>2 DEF SlotInv, FreshObjects
<1>9. QED
  BY <1>3, <1>5, <1>6, <1>7, <1>8 DEF SlotInv

\* A refusal after getLimiterState changes no scope's running calls.
LEMMA RefusedRunning ==
    ASSUME TypeOK, NEW c \in Calls, NEW context \in Contexts, NEW o \in Calls,
           Obtains(c, context, o), status' = [status EXCEPT ![c] = "settled"]
    PROVE  \A t : Running(t)' = Running(t)
<1>1. status[c] = "idle" /\ \A d \in Calls : d # c => scope'[d] = scope[d]
  BY DEF Obtains, Arrives, TypeOK
<1>2. status'[c] = "settled" /\ \A d \in Calls : d # c => status'[d] = status[d]
  BY DEF TypeOK
<1>3. QED
  BY <1>1, <1>2 DEF Running

\* The slot invariant and the ceiling are inductive.
LEMMA SlotStep ==
    ASSUME TypeOK, SlotInv, ConcurrencyBound, [Next]_vars
    PROVE  SlotInv' /\ ConcurrencyBound'
<1>1. ASSUME NEW c \in Calls, NEW context \in Contexts,
             RejectInvalid(c, context) \/ RejectExhausted(c, context)
      PROVE  SlotInv' /\ ConcurrencyBound'
  <2>1. /\ Arrives(c, context)
        /\ status' = [status EXCEPT ![c] = "settled"]
        /\ limiterStates' = limiterStates
        /\ active' = active
        /\ state' = state
    BY <1>1 DEF RejectInvalid, RejectExhausted, Finish, objects
  <2>2. SlotInv' /\ \A t : Running(t)' = Running(t)
    BY <2>1, TurnedAwaySlots
  <2>3. QED
    BY <2>2 DEF ConcurrencyBound
<1>2. ASSUME NEW c \in Calls, NEW context \in Contexts,
             RejectWindow(c, context) \/ RejectConcurrency(c, context)
      PROVE  SlotInv' /\ ConcurrencyBound'
  <2>1. PICK o \in Calls : /\ Obtains(c, context, o)
                           /\ status' = [status EXCEPT ![c] = "settled"]
                           /\ active' = active
    BY <1>2 DEF RejectWindow, RejectConcurrency, Finish
  <2>2. SlotInv'
    BY <2>1, RefusedSlots
  <2>3. \A t : Running(t)' = Running(t)
    BY <2>1, RefusedRunning
  <2>4. QED
    BY <2>2, <2>3 DEF ConcurrencyBound
<1>3. ASSUME NEW c \in Calls, NEW context \in Contexts, Admit(c, context)
      PROVE  SlotInv' /\ ConcurrencyBound'
  <2>1. PICK o \in Calls : /\ Obtains(c, context, o)
                           /\ status' = [status EXCEPT ![c] = "running"]
                           /\ active' = [active EXCEPT ![o] = @ + 1]
                           /\ active[o] < maxConcurrentExecutions
    BY <1>3 DEF Admit
  <2>2. /\ SlotInv'
        /\ \A t : t # deriveLimiterScope(context) => Running(t)' = Running(t)
        /\ Cardinality(Running(deriveLimiterScope(context))') = active[o] + 1
    BY <2>1, AdmittedSlots
  <2>3. active[o] + 1 <= maxConcurrentExecutions
    BY <2>1, GovernorAssumption DEF TypeOK
  <2>4. QED
    BY <2>2, <2>3 DEF ConcurrencyBound
<1>4. ASSUME NEW c \in Calls, Settle(c)
      PROVE  SlotInv' /\ ConcurrencyBound'
  <2>1. SlotInv' /\ \A t : Running(t)' \subseteq Running(t)
    BY <1>4, SettledSlots
  <2>2. ASSUME NEW t \in Scopes
        PROVE  Cardinality(Running(t)') <= maxConcurrentExecutions
    <3>1. /\ IsFiniteSet(Running(t))
          /\ Cardinality(Running(t)) \in Nat
          /\ Cardinality(Running(t)) <= maxConcurrentExecutions
      BY RunningFinite DEF ConcurrencyBound
    <3>2. Running(t)' \subseteq Running(t)
      BY <2>1
    <3>3. /\ Cardinality(Running(t)') <= Cardinality(Running(t))
          /\ Cardinality(Running(t)') \in Nat
      BY <3>1, <3>2, FS_Subset, FS_CardinalityType
    <3>4. QED
      BY <3>1, <3>3, GovernorAssumption
  <2>3. QED
    BY <2>1, <2>2 DEF ConcurrencyBound
<1>5. ASSUME UNCHANGED <<limiterStates, active, status, scope, state>>
      PROVE  SlotInv' /\ ConcurrencyBound'
  <2>1. \A t : Running(t)' = Running(t)
    BY <1>5 DEF Running
  <2>2. QED
    BY <1>5, <2>1
    DEF SlotInv, OwnObjects, HeldObjectsTracked, SlotAccounting, FreshObjects, Tracked,
        ConcurrencyBound
<1>6. ASSUME NEW c \in Calls, Abort(c)
      PROVE  SlotInv' /\ ConcurrencyBound'
  BY <1>5, <1>6 DEF Abort, objects
<1>7. CASE Tick
  BY <1>5, <1>7 DEF Tick, objects
<1>8. CASE UNCHANGED vars
  BY <1>5, <1>8 DEF vars
<1>9. QED
  BY <1>1, <1>2, <1>3, <1>4, <1>6, <1>7, <1>8 DEF Next, Invoke

\* Initially nothing is tracked and nothing runs.
LEMMA SlotInit == Init => SlotInv /\ ConcurrencyBound
<1> SUFFICES ASSUME Init
             PROVE  SlotInv /\ ConcurrencyBound
  OBVIOUS
<1>1. \A s : Running(s) = {}
  BY DEF Init, Running
<1>2. ConcurrencyBound
  BY <1>1, FS_EmptySet, GovernorAssumption DEF ConcurrencyBound
<1>3. SlotInv
  BY DEF Init, createDefaultState, SlotInv, OwnObjects, HeldObjectsTracked, SlotAccounting,
         FreshObjects, Tracked
<1>4. QED
  BY <1>2, <1>3

\* Slots are neither leaked nor returned twice nor orphaned by an eviction, for every
\* number of scopes and calls (getLimiterState, releaseConcurrency, `finally`).
THEOREM SlotsAccounted == Spec => []SlotInv
<1>1. TypeOK /\ SlotInv /\ ConcurrencyBound /\ [Next]_vars => (SlotInv /\ ConcurrencyBound)'
  BY SlotStep
<1>2. QED
  BY <1>1, SlotInit, TypeCorrect, PTL DEF Spec

\* No scope ever has more than maxConcurrentExecutions calls running, whatever is
\* evicted and recreated meanwhile.
THEOREM ConcurrencyBounded == Spec => []ConcurrencyBound
<1>1. TypeOK /\ SlotInv /\ ConcurrencyBound /\ [Next]_vars => (SlotInv /\ ConcurrencyBound)'
  BY SlotStep
<1>2. QED
  BY <1>1, SlotInit, TypeCorrect, PTL DEF Spec
-----------------------------------------------------------------------------
(***************************************************************************)
(* The map of limiter states.                                              *)
(***************************************************************************)

\* Only finitely many scopes are tracked, however many identities there are.
LEMMA TrackedFinite ==
    ASSUME TypeOK, SlotInv
    PROVE  IsFiniteSet(Tracked) /\ Cardinality(Tracked) \in Nat
<1>1. PICK f : f = [s \in Tracked |-> limiterStates[s]]
  OBVIOUS
<1>2. f \in [Tracked -> Calls]
  BY <1>1 DEF Tracked, TypeOK
<1>3. \A s, t \in Tracked : f[s] = f[t] => s = t
  BY <1>1 DEF SlotInv, OwnObjects
<1>4. f \in Injection(Tracked, Calls)
  BY <1>2, <1>3 DEF Injection, IsInjective
<1>5. IsFiniteSet(Tracked)
  BY <1>4, FS_Injection, GovernorAssumption
<1>6. QED
  BY <1>5, FS_CardinalityType

\* getLimiterState adds a scope only below the bound or in place of another one.
LEMMA ObtainsTracked ==
    ASSUME TypeOK, SlotInv, TrackingBound, NEW c \in Calls, NEW context \in Contexts,
           NEW o \in Calls, Obtains(c, context, o)
    PROVE  TrackingBound'
<1>1. PICK s : s = deriveLimiterScope(context)
  OBVIOUS
<1>2. s \in Scopes /\ limiterStates \in [Scopes -> Calls \cup {NoState}]
  BY <1>1, DerivedScope DEF TypeOK
<1>3. IsFiniteSet(Tracked) /\ Cardinality(Tracked) \in Nat
  BY TrackedFinite
<1>4. CASE ObtainsExisting(s, o)
  BY <1>4 DEF ObtainsExisting, TrackingBound, Tracked
<1>5. CASE /\ limiterStates[s] = NoState
           /\ Cardinality(Tracked) < MAX_TRACKED_SCOPES
           /\ limiterStates' = [limiterStates EXCEPT ![s] = c]
  <2>1. Tracked' = Tracked \cup {s} /\ s \notin Tracked
    BY <1>2, <1>5, GovernorAssumption DEF Tracked
  <2>2. Cardinality(Tracked') = Cardinality(Tracked) + 1
    BY <1>3, <2>1, FS_AddElement
  <2>3. QED
    BY <1>3, <1>5, <2>2, GovernorAssumption DEF TrackingBound
<1>6. ASSUME NEW v \in Evictable, v # s, limiterStates[s] = NoState,
             limiterStates' = [limiterStates EXCEPT ![v] = NoState, ![s] = c]
      PROVE  TrackingBound'
  <2>1. v \in Tracked
    BY DEF Evictable
  <2>2. Tracked' = (Tracked \ {v}) \cup {s} /\ s \notin Tracked \ {v}
    BY <1>2, <1>6, <2>1, GovernorAssumption DEF Tracked
  <2>3. IsFiniteSet(Tracked \ {v}) /\ Cardinality(Tracked \ {v}) = Cardinality(Tracked) - 1
    BY <1>3, <2>1, FS_RemoveElement
  <2>4. Cardinality((Tracked \ {v}) \cup {s}) = Cardinality(Tracked \ {v}) + 1
    BY <2>2, <2>3, FS_AddElement
  <2>5. Cardinality(Tracked') = Cardinality(Tracked)
    BY <1>3, <2>2, <2>3, <2>4
  <2>6. QED
    BY <2>5 DEF TrackingBound
<1>7. QED
  BY <1>1, <1>4, <1>5, <1>6, ObtainsCases DEF ObtainsFresh

\* The map of limiter states never outgrows MAX_TRACKED_SCOPES.
THEOREM TrackingBounded == Spec => []TrackingBound
<1>1. Init => TrackingBound
  <2> SUFFICES ASSUME Init
               PROVE  TrackingBound
    OBVIOUS
  <2>1. Tracked = {}
    BY DEF Init, Tracked
  <2>2. QED
    BY <2>1, FS_EmptySet, GovernorAssumption DEF TrackingBound
<1>2. TypeOK /\ SlotInv /\ TrackingBound /\ [Next]_vars => TrackingBound'
  <2> SUFFICES ASSUME TypeOK, SlotInv, TrackingBound, [Next]_vars
               PROVE  TrackingBound'
    OBVIOUS
  <2>1. ASSUME limiterStates' = limiterStates
        PROVE  TrackingBound'
    BY <2>1 DEF TrackingBound, Tracked
  <2>2. ASSUME NEW c \in Calls, NEW context \in Contexts, Invoke(c, context)
        PROVE  TrackingBound'
    <3>1. \/ limiterStates' = limiterStates
          \/ \E o \in Calls : Obtains(c, context, o)
      BY <2>2 DEF Invoke, RejectInvalid, RejectExhausted, RejectWindow, RejectConcurrency,
                  Admit
    <3>2. QED
      BY <2>1, <3>1, ObtainsTracked
  <2>3. QED
    BY <2>1, <2>2 DEF Next, Abort, Settle, Tick, vars
<1>3. QED
  BY <1>1, <1>2, TypeCorrect, SlotsAccounted, PTL DEF Spec

\* An eviction takes the least recently used idle scope, and no step takes out a scope
\* with a running call (getLimiterState).
THEOREM EvictionSafe == Spec => EvictsOnlyLeastRecentlyUsed
<1> DEFINE Evicts ==
      \A s \in Tracked : limiterStates'[s] # limiterStates[s] =>
         /\ Running(s) = {}
         /\ \A t \in Tracked : Running(t) = {} =>
              lastTouchedAt[limiterStates[s]] <= lastTouchedAt[limiterStates[t]]
<1>1. TypeOK /\ SlotInv /\ [Next]_vars => [Evicts]_vars
  <2> SUFFICES ASSUME TypeOK, SlotInv, Next, NEW s \in Tracked,
                      limiterStates'[s] # limiterStates[s]
               PROVE  /\ Running(s) = {}
                      /\ \A t \in Tracked : Running(t) = {} =>
                           lastTouchedAt[limiterStates[s]] <= lastTouchedAt[limiterStates[t]]
    OBVIOUS
  <2>1. PICK c \in Calls, context \in Contexts, o \in Calls : Obtains(c, context, o)
    BY DEF Next, Invoke, RejectInvalid, RejectExhausted, RejectWindow, RejectConcurrency,
           Admit, Abort, Settle, Tick
  <2>2. PICK r : r = deriveLimiterScope(context) /\ r \in Scopes
    BY DerivedScope
  <2>3. ObtainsExisting(r, o) \/ ObtainsFresh(c, r, o)
    BY <2>1, <2>2, ObtainsCases
  <2>4. PICK v \in LeastRecentlyTouched :
           limiterStates' = [limiterStates EXCEPT ![v] = NoState, ![r] = c]
    BY <2>2, <2>3 DEF ObtainsExisting, ObtainsFresh, Tracked, TypeOK
  <2>5. limiterStates[r] = NoState
    BY <2>3 DEF ObtainsExisting, ObtainsFresh
  <2>6. s = v
    BY <2>2, <2>4, <2>5 DEF Tracked, TypeOK
  <2>7. s \in Evictable
    BY <2>4, <2>6 DEF LeastRecentlyTouched
  <2>8. \A t \in Tracked : Running(t) = {} => t \in Evictable
    BY FS_EmptySet DEF SlotInv, SlotAccounting, Evictable
  <2>9. QED
    BY <2>4, <2>6, <2>7, <2>8, EvictableIdle DEF LeastRecentlyTouched
<1>2. QED
  BY <1>1, TypeCorrect, SlotsAccounted, PTL DEF Spec, EvictsOnlyLeastRecentlyUsed
-----------------------------------------------------------------------------
(***************************************************************************)
(* The request window.                                                     *)
(***************************************************************************)

\* What enforceWindow keeps is finite and no larger than what was recorded.
LEMMA LiveFinite ==
    ASSUME TypeOK, RecordBounded, NEW o \in Calls
    PROVE  /\ Live(o) \subseteq requestTimestamps[o]
           /\ IsFiniteSet(Live(o))
           /\ Cardinality(Live(o)) \in Nat
           /\ Cardinality(Live(o)) <= maxRequestsPerWindow
<1>1. Live(o) \subseteq requestTimestamps[o] /\ requestTimestamps[o] \subseteq Calls
  BY DEF Live, TypeOK
<1>2. IsFiniteSet(requestTimestamps[o])
  BY <1>1, FS_Subset, GovernorAssumption
<1>3. IsFiniteSet(Live(o)) /\ Cardinality(Live(o)) <= Cardinality(requestTimestamps[o])
  BY <1>1, <1>2, FS_Subset
<1>4. Cardinality(requestTimestamps[o]) \in Nat /\ Cardinality(Live(o)) \in Nat
  BY <1>2, <1>3, FS_CardinalityType
<1>5. Cardinality(requestTimestamps[o]) <= maxRequestsPerWindow
  BY DEF RecordBounded
<1>6. QED
  BY <1>1, <1>3, <1>4, <1>5, GovernorAssumption

\* The object a call obtains is its own new one, or one that exists already.
LEMMA ObtainsExists ==
    ASSUME TypeOK, SlotInv, NEW c \in Calls, NEW context \in Contexts, NEW o \in Calls,
           Obtains(c, context, o)
    PROVE  /\ status[c] = "idle"
           /\ state' = [state EXCEPT ![c] = o]
           /\ o = c \/ status[o] # "idle"
<1>1. PICK s : s = deriveLimiterScope(context) /\ s \in Scopes
  BY DerivedScope
<1>2. ObtainsExisting(s, o) \/ ObtainsFresh(c, s, o)
  BY <1>1, ObtainsCases
<1>3. o = c \/ status[o] # "idle"
  BY <1>1, <1>2, GovernorAssumption
  DEF ObtainsExisting, ObtainsFresh, SlotInv, OwnObjects, Tracked
<1>4. QED
  BY <1>3 DEF Obtains, Arrives

\* A call refused by a full window keeps every charge that still counts.
LEMMA RefusedWindow ==
    ASSUME TypeOK, SlotInv, WindowInv, NEW c \in Calls, NEW context \in Contexts,
           RejectWindow(c, context)
    PROVE  WindowInv'
<1>1. PICK o \in Calls :
         /\ Obtains(c, context, o)
         /\ requestTimestamps' = [requestTimestamps EXCEPT ![o] = Live(o)]
  BY DEF RejectWindow
<1>2. status[c] = "idle" /\ state' = [state EXCEPT ![c] = o] /\ (o = c \/ status[o] # "idle")
  BY <1>1, ObtainsExists
<1>3. now' = now /\ charged' = charged /\ stamp' = stamp
  BY DEF RejectWindow
<1>4. status' = [status EXCEPT ![c] = "settled"]
  BY DEF RejectWindow, Finish
<1>5. c \notin charged
  BY <1>2 DEF WindowInv, UnusedObjects
<1>6. \A x \in Calls : RecentCharges(x)' = RecentCharges(x)
  BY <1>2, <1>3, <1>5 DEF RecentCharges, TypeOK
<1>7. RecentCharges(o) \subseteq Live(o)
  BY DEF WindowInv, ChargesRecorded, RecentCharges, Live
<1>8. requestTimestamps'[o] = Live(o)
      /\ \A x \in Calls : x # o => requestTimestamps'[x] = requestTimestamps[x]
  BY <1>1 DEF TypeOK
<1>9. ChargesRecorded'
  BY <1>6, <1>7, <1>8 DEF WindowInv, ChargesRecorded
<1>10. RecordBounded'
  BY <1>8, LiveFinite DEF WindowInv, RecordBounded
<1>11. ASSUME NEW x \in Calls, status'[x] = "idle"
       PROVE  /\ x \notin charged'
              /\ requestTimestamps'[x] = {}
              /\ \A d \in Calls : state'[d] # x
  <2>1. x # c /\ x # o /\ status[x] = "idle"
    BY <1>2, <1>4, <1>11 DEF TypeOK
  <2>2. QED
    BY <1>2, <1>3, <1>8, <2>1 DEF WindowInv, UnusedObjects, TypeOK
<1>12. QED
  BY <1>9, <1>10, <1>11 DEF WindowInv, UnusedObjects

\* A charge is recorded within the budget, and forgets none that still counts.
LEMMA ChargedWindow ==
    ASSUME TypeOK, SlotInv, WindowInv, NEW c \in Calls, NEW context \in Contexts,
           NEW o \in Calls, Obtains(c, context, o), Charge(c, o), now' = now,
           \/ status' = [status EXCEPT ![c] = "running"]
           \/ status' = [status EXCEPT ![c] = "settled"]
    PROVE  WindowInv'
<1>1. status[c] = "idle" /\ state' = [state EXCEPT ![c] = o] /\ (o = c \/ status[o] # "idle")
  BY ObtainsExists
<1>2. /\ WindowHasRoom(o)
      /\ charged' = charged \cup {c}
      /\ stamp' = [stamp EXCEPT ![c] = now]
  BY DEF Charge
<1>3. requestTimestamps'[o] = Live(o) \cup {c}
      /\ \A x \in Calls : x # o => requestTimestamps'[x] = requestTimestamps[x]
  BY DEF Charge, TypeOK
<1>4. RecentCharges(o)' \subseteq RecentCharges(o) \cup {c}
  BY <1>1, <1>2 DEF RecentCharges, TypeOK
<1>5. \A x \in Calls : x # o => RecentCharges(x)' \subseteq RecentCharges(x)
  BY <1>1, <1>2 DEF RecentCharges, TypeOK
<1>6. RecentCharges(o) \subseteq Live(o)
  BY DEF WindowInv, ChargesRecorded, RecentCharges, Live
<1>7. ChargesRecorded'
  BY <1>3, <1>4, <1>5, <1>6 DEF WindowInv, ChargesRecorded
<1>8. Cardinality(Live(o) \cup {c}) <= maxRequestsPerWindow
  <2>1. IsFiniteSet(Live(o)) /\ Cardinality(Live(o)) \in Nat
    BY LiveFinite DEF WindowInv
  <2>2. Cardinality(Live(o)) < maxRequestsPerWindow
    BY <1>2 DEF WindowHasRoom
  <2>3. \/ Cardinality(Live(o) \cup {c}) = Cardinality(Live(o))
        \/ Cardinality(Live(o) \cup {c}) = Cardinality(Live(o)) + 1
    BY <2>1, FS_AddElement
  <2>4. QED
    BY <2>1, <2>2, <2>3, GovernorAssumption
<1>9. RecordBounded'
  BY <1>3, <1>8 DEF WindowInv, RecordBounded
<1>10. ASSUME NEW x \in Calls, status'[x] = "idle"
       PROVE  /\ x \notin charged'
              /\ requestTimestamps'[x] = {}
              /\ \A d \in Calls : state'[d] # x
  <2>1. x # c /\ x # o /\ status[x] = "idle"
    BY <1>1, <1>10 DEF TypeOK
  <2>2. QED
    BY <1>1, <1>2, <1>3, <2>1 DEF WindowInv, UnusedObjects, TypeOK
<1>11. QED
  BY <1>7, <1>9, <1>10 DEF WindowInv, UnusedObjects

\* The window invariant is inductive.
LEMMA WindowStep ==
    ASSUME TypeOK, SlotInv, WindowInv, [Next]_vars
    PROVE  WindowInv'
<1>1. ASSUME NEW c \in Calls, NEW context \in Contexts,
             RejectInvalid(c, context) \/ RejectExhausted(c, context)
      PROVE  WindowInv'
  <2>1. /\ status' = [status EXCEPT ![c] = "settled"]
        /\ UNCHANGED <<now, requestTimestamps, state, charged, stamp>>
    BY <1>1 DEF RejectInvalid, RejectExhausted, Finish, objects
  <2>2. \A x \in Calls : status'[x] = "idle" => status[x] = "idle"
    BY <2>1 DEF TypeOK
  <2>3. QED
    BY <2>1, <2>2
    DEF WindowInv, ChargesRecorded, RecordBounded, UnusedObjects, RecentCharges
<1>2. ASSUME NEW c \in Calls, NEW context \in Contexts, RejectWindow(c, context)
      PROVE  WindowInv'
  BY <1>2, RefusedWindow
<1>3. ASSUME NEW c \in Calls, NEW context \in Contexts,
             RejectConcurrency(c, context) \/ Admit(c, context)
      PROVE  WindowInv'
  <2>1. PICK o \in Calls : Obtains(c, context, o) /\ Charge(c, o)
    BY <1>3 DEF RejectConcurrency, Admit
  <2>2. /\ now' = now
        /\ \/ status' = [status EXCEPT ![c] = "running"]
           \/ status' = [status EXCEPT ![c] = "settled"]
    BY <1>3 DEF RejectConcurrency, Admit, Finish
  <2>3. QED
    BY <2>1, <2>2, ChargedWindow
<1>4. ASSUME NEW c \in Calls, Settle(c)
      PROVE  WindowInv'
  <2>1. /\ status[c] = "running"
        /\ status' = [status EXCEPT ![c] = "settled"]
        /\ UNCHANGED <<now, requestTimestamps, state, charged, stamp>>
    BY <1>4 DEF Settle, Finish
  <2>2. \A x \in Calls : status'[x] = "idle" => status[x] = "idle"
    BY <2>1 DEF TypeOK
  <2>3. QED
    BY <2>1, <2>2
    DEF WindowInv, ChargesRecorded, RecordBounded, UnusedObjects, RecentCharges
<1>5. CASE Tick
  <2>1. /\ now \in Nat /\ now' \in Nat /\ now' > now
        /\ UNCHANGED <<requestTimestamps, state, charged, stamp, status>>
    BY <1>5, GovernorAssumption DEF Tick, TypeOK, objects
  <2>2. \A x \in Calls : RecentCharges(x)' \subseteq RecentCharges(x)
    BY <2>1, GovernorAssumption DEF RecentCharges, TypeOK
  <2>3. QED
    BY <2>1, <2>2 DEF WindowInv, ChargesRecorded, RecordBounded, UnusedObjects
<1>6. ASSUME UNCHANGED <<now, requestTimestamps, state, charged, stamp, status>>
      PROVE  WindowInv'
  BY <1>6 DEF WindowInv, ChargesRecorded, RecordBounded, UnusedObjects, RecentCharges
<1>7. ASSUME NEW c \in Calls, Abort(c)
      PROVE  WindowInv'
  BY <1>6, <1>7 DEF Abort, objects
<1>8. CASE UNCHANGED vars
  BY <1>6, <1>8 DEF vars
<1>9. QED
  BY <1>1, <1>2, <1>3, <1>4, <1>5, <1>7, <1>8 DEF Next, Invoke

\* Charges that still count are always recorded, within the policy (enforceWindow).
THEOREM WindowRecorded == Spec => []WindowInv
<1>1. Init => WindowInv
  BY FS_EmptySet, GovernorAssumption
  DEF Init, createDefaultState, WindowInv, ChargesRecorded, RecordBounded, UnusedObjects,
      RecentCharges
<1>2. TypeOK /\ SlotInv /\ WindowInv /\ [Next]_vars => WindowInv'
  BY WindowStep
<1>3. QED
  BY <1>1, <1>2, TypeCorrect, SlotsAccounted, PTL DEF Spec

\* No limiter state is charged more than maxRequestsPerWindow calls within any window.
THEOREM WindowBudgeted == Spec => []WindowBudget
<1>1. TypeOK /\ WindowInv => WindowBudget
  <2> SUFFICES ASSUME TypeOK, WindowInv, NEW o \in Calls
               PROVE  Cardinality(RecentCharges(o)) <= maxRequestsPerWindow
    BY DEF WindowBudget
  <2>1. /\ RecentCharges(o) \subseteq requestTimestamps[o]
        /\ requestTimestamps[o] \subseteq Calls
        /\ Cardinality(requestTimestamps[o]) <= maxRequestsPerWindow
    BY DEF WindowInv, ChargesRecorded, RecordBounded, TypeOK
  <2>2. IsFiniteSet(requestTimestamps[o])
    BY <2>1, FS_Subset, GovernorAssumption
  <2>3. /\ IsFiniteSet(RecentCharges(o))
        /\ Cardinality(RecentCharges(o)) <= Cardinality(requestTimestamps[o])
    BY <2>1, <2>2, FS_Subset
  <2>4. Cardinality(requestTimestamps[o]) \in Nat /\ Cardinality(RecentCharges(o)) \in Nat
    BY <2>2, <2>3, FS_CardinalityType
  <2>5. QED
    BY <2>1, <2>3, <2>4, GovernorAssumption
<1>2. QED
  BY <1>1, TypeCorrect, WindowRecorded, PTL

\* A well-formed call of an untracked scope is refused only when the map is full of
\* scopes with running calls (getLimiterState returning undefined).
THEOREM FreshScopeDenial == Spec => DeniesFreshScopeOnlyWhenAllBusy
<1> DEFINE Denies ==
      \A c \in Calls :
         /\ status[c] = "idle"
         /\ status'[c] = "settled"
         /\ response'[c] = "RESOURCE_UNAVAILABLE"
         /\ limiterStates[scope'[c]] = NoState
         => /\ Cardinality(Tracked) = MAX_TRACKED_SCOPES
            /\ \A t \in Tracked : Running(t) # {}
<1>1. TypeOK /\ SlotInv /\ WindowInv /\ TrackingBound /\ [Next]_vars => [Denies]_vars
  <2> SUFFICES ASSUME TypeOK, SlotInv, WindowInv, TrackingBound, Next, NEW c \in Calls,
                      status[c] = "idle",
                      status'[c] = "settled",
                      response'[c] = "RESOURCE_UNAVAILABLE",
                      limiterStates[scope'[c]] = NoState
               PROVE  /\ Cardinality(Tracked) = MAX_TRACKED_SCOPES
                      /\ \A t \in Tracked : Running(t) # {}
    OBVIOUS
  <2>1. PICK context \in Contexts : Invoke(c, context)
    <3>1. \A d \in Calls : Settle(d) => d # c /\ status'[c] = status[c]
      BY DEF Settle, Finish, TypeOK
    <3>2. \A d \in Calls : Abort(d) => status' = status
      BY DEF Abort
    <3>3. Tick => status' = status
      BY DEF Tick
    <3>4. ASSUME NEW d \in Calls, NEW context \in Contexts, Invoke(d, context)
          PROVE  d = c
      <4>1. \/ status' = [status EXCEPT ![d] = "running"]
            \/ status' = [status EXCEPT ![d] = "settled"]
        BY <3>4 DEF Invoke, RejectInvalid, RejectExhausted, RejectWindow,
                    RejectConcurrency, Admit, Finish
      <4>2. QED
        BY <4>1 DEF TypeOK
    <3>5. QED
      BY <3>1, <3>2, <3>3, <3>4 DEF Next
  <2>2. PICK s : s = deriveLimiterScope(context) /\ s \in Scopes
    BY DerivedScope
  <2>3. Arrives(c, context)
    BY <2>1 DEF Invoke, RejectInvalid, RejectExhausted, RejectWindow, RejectConcurrency,
                Admit, Obtains
  <2>4. scope'[c] = s
    BY <2>2, <2>3 DEF Arrives, TypeOK
  <2>5. ~RejectInvalid(c, context)
    BY DEF RejectInvalid, Finish, TypeOK
  <2>6. ~Admit(c, context)
    BY DEF Admit, TypeOK
  <2>7. ASSUME NEW o \in Calls, Obtains(c, context, o)
        PROVE  o = c
    <3>1. ObtainsExisting(s, o) \/ ObtainsFresh(c, s, o)
      BY <2>2, <2>7, ObtainsCases
    <3>2. QED
      BY <2>4, <3>1, GovernorAssumption DEF ObtainsExisting, ObtainsFresh
  <2>8. ~RejectWindow(c, context)
    <3>1. Live(c) = {}
      BY DEF Live, WindowInv, UnusedObjects
    <3>2. WindowHasRoom(c)
      BY <3>1, FS_EmptySet, GovernorAssumption DEF WindowHasRoom
    <3>3. QED
      BY <2>7, <3>2 DEF RejectWindow
  <2>9. ~RejectConcurrency(c, context)
    <3>1. active[c] = 0
      BY DEF SlotInv, FreshObjects
    <3>2. ~(active[c] >= maxConcurrentExecutions)
      BY <3>1, GovernorAssumption
    <3>3. QED
      BY <2>7, <3>2 DEF RejectConcurrency
  <2>10. PICK got \in getLimiterState(c, s) : got.object = NoState
    BY <2>1, <2>2, <2>5, <2>6, <2>8, <2>9 DEF Invoke, RejectExhausted
  <2>11. ~(Cardinality(Tracked) < MAX_TRACKED_SCOPES)
    BY <2>4, <2>10, GovernorAssumption DEF getLimiterState, Obtained
  <2>12. Evictable = {}
    BY <2>4, <2>10, <2>11, GovernorAssumption DEF getLimiterState, Obtained
  <2>13. Cardinality(Tracked) = MAX_TRACKED_SCOPES
    BY <2>11, TrackedFinite, GovernorAssumption DEF TrackingBound
  <2>14. \A t \in Tracked : Running(t) # {}
    BY <2>12, FS_EmptySet DEF SlotInv, SlotAccounting, Evictable
  <2>15. QED
    BY <2>13, <2>14
<1>2. QED
  BY <1>1, TypeCorrect, SlotsAccounted, WindowRecorded, TrackingBounded, PTL
  DEF Spec, DeniesFreshScopeOnlyWhenAllBusy
=============================================================================
