-------------------------- MODULE Discovery_proofs --------------------------
(***************************************************************************)
(* Theorems about Discovery for any number of subscriptions and callers.    *)
(***************************************************************************)
EXTENDS Discovery, TLAPS

Points == {"off", "watch", "first", "send", "loop", "discover", "end", "panic"}

\* The types the arguments below rest on.
Shapes ==
  /\ pc \in [Sub -> Points]
  /\ late \in [Sub -> Nat]
  /\ current \in Sub \cup {None}

\* Starting and cancelling subscriptions aside, a step moves the goroutine of
\* one subscription, or none, and never one that has not been started.
Quiet ==
  /\ UNCHANGED <<current, ctxDone>>
  /\ \A k \in Sub : pc[k] = "off" => pc'[k] = "off"
  /\ pc' \in [Sub -> Points]

\* A step that replaces the subscription, or cancels it.
Replaced == \E k \in Sub : Replace(k) /\ UNCHANGED late

Cancelled == CancelCurrent /\ current' = None /\ UNCHANGED <<pc, late>>

\* What a step may do to the handlers' calls.
Calls ==
  \A k \in Sub :
    /\ pc[k] \in {"loop", "end"} /\ k \in ctxDone => pc'[k] \in {"loop", "end"}
    /\ \/ late'[k] = late[k]
       \/ late'[k] = late[k] + 1 /\ k \in ctxDone /\ pc[k] = "send" /\ pc'[k] = "loop"

LEMMA WatcherStep ==
  ASSUME Shapes, NEW k \in Sub,
         WatcherSteps(k) \/ WatcherLeaves(k) \/ WatchBreaks(k)
  PROVE  Quiet /\ Calls /\ late' \in [Sub -> Nat]
<1> USE DEF Shapes, Points, Watch!At, Watch!Goto
<1>1. CASE HandlerCalled(k)
  <2>1. UNCHANGED <<current, ctxDone>> /\ pc[k] = "send" /\ pc' = [pc EXCEPT ![k] = "loop"]
    BY <1>1 DEF HandlerCalled, Watch!Deliver
  <2>2. late' = IF k \in ctxDone THEN [late EXCEPT ![k] = @ + 1] ELSE late
    BY <1>1 DEF HandlerCalled
  <2>3. late' \in [Sub -> Nat]
    BY <2>2
  <2>4. Quiet
    BY <2>1 DEF Quiet
  <2>5. Calls
    BY <2>1, <2>2 DEF Calls
  <2> QED BY <2>3, <2>4, <2>5
<1>2. CASE Watch!OpenWatch(k) /\ UNCHANGED discVars
  BY <1>2 DEF Watch!OpenWatch, Watch!WatchOpened, discVars, Quiet, Calls
<1>3. CASE Watch!FirstDiscover(k) /\ UNCHANGED discVars
  BY <1>3 DEF Watch!FirstDiscover, discVars, Quiet, Calls
<1>4. CASE Watch!Event(k) /\ UNCHANGED discVars
  BY <1>4 DEF Watch!Event, discVars, Quiet, Calls
<1>5. CASE Watch!Discover(k) /\ UNCHANGED discVars
  BY <1>5 DEF Watch!Discover, discVars, Quiet, Calls
<1>6. CASE Watch!Leave(k) /\ UNCHANGED discVars
  BY <1>6 DEF Watch!Leave, discVars, Quiet, Calls
<1>7. CASE Watch!WatchBreaks(k) /\ UNCHANGED discVars
  BY <1>7 DEF Watch!WatchBreaks, discVars, Quiet, Calls
<1> QED
  BY <1>1, <1>2, <1>3, <1>4, <1>5, <1>6, <1>7
     DEF WatcherSteps, WatcherLeaves, WatchBreaks

LEMMA OtherStep ==
  ASSUME Next, ~(\E k \in Sub : WatcherSteps(k) \/ WatcherLeaves(k) \/ WatchBreaks(k))
  PROVE  Replaced \/ Cancelled \/ UNCHANGED <<pc, current, ctxDone, late>>
<1>1. CASE ServiceChanges \/ Expire
  BY <1>1 DEF ServiceChanges, Expire, Watch!Change, watchVars, discVars
<1>2. ASSUME NEW c \in Caller, GetHit(c) \/ GetMiss(c) \/ RefreshCall(c) \/ ClearCache(c) \/ SetConfig(c)
      PROVE  UNCHANGED <<pc, current, ctxDone, late>>
  BY <1>2 DEF GetHit, GetMiss, RefreshCall, ClearCache, SetConfig, watchVars
<1>3. ASSUME NEW c \in Caller, GetQuery(c) \/ GetStore(c) \/ GetCheck(c) \/ Return(c)
      PROVE  UNCHANGED <<pc, current, ctxDone, late>>
  BY <1>3 DEF GetQuery, GetStore, GetCheck, Return, watchVars
<1>4. ASSUME NEW c \in Caller, RefreshQuery(c) \/ RefreshStore(c) \/ CloseCache(c)
      PROVE  UNCHANGED <<pc, current, ctxDone, late>>
  BY <1>4 DEF RefreshQuery, RefreshStore, CloseCache, watchVars
<1>5. ASSUME NEW c \in Caller, AutoSubscribe(c) \/ Subscribe(c)
      PROVE  Replaced
  BY <1>5 DEF AutoSubscribe, Subscribe, Replaced
<1>6. ASSUME NEW c \in Caller, Unsubscribe(c) \/ CloseSubscriptions(c)
      PROVE  Cancelled
  BY <1>6 DEF Unsubscribe, CloseSubscriptions, Cancelled
<1> QED
  BY <1>1, <1>2, <1>3, <1>4, <1>5, <1>6 DEF Next, MethodSteps

LEMMA ShapesStep == Shapes /\ [Next]_vars => Shapes'
<1> SUFFICES ASSUME Shapes, [Next]_vars PROVE Shapes'
  OBVIOUS
<1>1. CASE \E k \in Sub : WatcherSteps(k) \/ WatcherLeaves(k) \/ WatchBreaks(k)
  BY <1>1, WatcherStep DEF Shapes, Quiet
<1>2. CASE Replaced
  BY <1>2 DEF Shapes, Points, Replaced, Replace
<1>3. CASE Cancelled
  BY <1>3 DEF Shapes, Cancelled
<1>4. CASE UNCHANGED <<pc, current, ctxDone, late>>
  BY <1>4 DEF Shapes
<1>5. CASE UNCHANGED vars
  BY <1>5 DEF Shapes, vars, watchVars, discVars
<1> QED BY <1>1, <1>2, <1>3, <1>4, <1>5, OtherStep

LEMMA Initially == Init => Shapes /\ SubscriptionsReachable /\ \A k \in Sub : late[k] = 0
BY DEF Init, Watch!Init, Shapes, Points, SubscriptionsReachable

LEMMA ReachableStep ==
  Shapes /\ SubscriptionsReachable /\ [Next]_vars => SubscriptionsReachable'
<1> SUFFICES ASSUME Shapes, SubscriptionsReachable, [Next]_vars,
                    NEW j \in Sub, pc'[j] # "off", j \notin ctxDone'
             PROVE  j = current'
  BY DEF SubscriptionsReachable
<1>1. CASE \E k \in Sub : WatcherSteps(k) \/ WatcherLeaves(k) \/ WatchBreaks(k)
  BY <1>1, WatcherStep DEF Quiet, SubscriptionsReachable
<1>2. CASE Replaced
  <2>1. PICK k \in Sub : Replace(k)
    BY <1>2 DEF Replaced
  <2>2. CASE j # k
    <3>1. pc[j] # "off" /\ j \notin ctxDone
      BY <2>1, <2>2 DEF Shapes, Replace, CancelCurrent
    <3>2. j = current /\ j # None
      BY <3>1, DiscoveryAssumption DEF SubscriptionsReachable
    <3> QED BY <2>1, <3>2 DEF Replace, CancelCurrent
  <2> QED BY <2>1, <2>2 DEF Replace
<1>3. CASE Cancelled
  <2>1. j = current /\ j # None
    BY <1>3, DiscoveryAssumption DEF SubscriptionsReachable, Cancelled, CancelCurrent
  <2> QED BY <1>3, <2>1 DEF Cancelled, CancelCurrent
<1>4. CASE UNCHANGED <<pc, current, ctxDone, late>>
  BY <1>4 DEF SubscriptionsReachable
<1>5. CASE UNCHANGED vars
  BY <1>5 DEF SubscriptionsReachable, vars, watchVars, discVars
<1> QED BY <1>1, <1>2, <1>3, <1>4, <1>5, OtherStep

\* However the methods overlap, a subscription that has not been cancelled is
\* the one that Unsubscribe and Close will cancel: no goroutine is left alone.
THEOREM SubscriptionsAreReachable == Spec => []SubscriptionsReachable
BY Initially, ShapesStep, ReachableStep, PTL DEF Spec

----------------------------------------------------------------------------

\* Once a handler was called late its goroutine does not come back to it.
SpentAfterLateCall ==
  \A k \in Sub :
    late[k] = 0 \/ (late[k] = 1 /\ k \in ctxDone /\ pc[k] \in {"loop", "end"})

LEMMA SpentStep == Shapes /\ SpentAfterLateCall /\ [Next]_vars => SpentAfterLateCall'
<1> SUFFICES ASSUME Shapes, SpentAfterLateCall, [Next]_vars, NEW j \in Sub
             PROVE  \/ late'[j] = 0
                    \/ late'[j] = 1 /\ j \in ctxDone' /\ pc'[j] \in {"loop", "end"}
  BY DEF SpentAfterLateCall
<1> USE DEF SpentAfterLateCall
<1>1. CASE \E k \in Sub : WatcherSteps(k) \/ WatcherLeaves(k) \/ WatchBreaks(k)
  BY <1>1, WatcherStep DEF Quiet, Calls
<1>2. CASE Replaced
  BY <1>2 DEF Shapes, Points, Replaced, Replace, CancelCurrent
<1>3. CASE Cancelled
  BY <1>3 DEF Cancelled, CancelCurrent
<1>4. CASE UNCHANGED <<pc, current, ctxDone, late>>
  BY <1>4
<1>5. CASE UNCHANGED vars
  BY <1>5 DEF vars, watchVars, discVars
<1> QED BY <1>1, <1>2, <1>3, <1>4, <1>5, OtherStep

\* A handler is called at most once after its subscription was cancelled.
THEOREM AtMostOneLateCall == Spec => []OneLateCall
<1>1. Init => SpentAfterLateCall
  BY Initially DEF SpentAfterLateCall
<1>2. SpentAfterLateCall => OneLateCall
  <2>1. 0 <= 1 /\ 1 <= 1
    OBVIOUS
  <2> QED BY <2>1 DEF SpentAfterLateCall, OneLateCall
<1> QED BY <1>1, <1>2, Initially, ShapesStep, SpentStep, PTL DEF Spec

----------------------------------------------------------------------------
(* Types.  A step of a registry's goroutine keeps those of RegistryWatch, as *)
(* its proofs show.                                                         *)

WatchProofs == INSTANCE RegistryWatch_proofs
                 WITH Watcher <- Sub, Handler <- Sub, Capacity <- 1, MayClose <- FALSE

LEMMA WatchAssumptionHolds == WatchProofs!WatchAssumption
BY DiscoveryAssumption DEF WatchProofs!WatchAssumption

RegistryStep(k) ==
  \/ Watch!OpenWatch(k) \/ Watch!FirstDiscover(k) \/ Watch!Deliver(k) \/ Watch!Event(k)
  \/ Watch!Discover(k) \/ Watch!Leave(k) \/ Watch!WatchBreaks(k) \/ Watch!Change

LEMMA SameTypes == Watch!TypeOK <=> WatchProofs!TypeOK
BY DEF Watch!TypeOK, WatchProofs!TypeOK, Watch!Revs, WatchProofs!Revs, Watch!Buffers, WatchProofs!Buffers

LEMMA SameSteps == \A k \in Sub : RegistryStep(k) => WatchProofs!Next
<1> SUFFICES ASSUME NEW k \in Sub, RegistryStep(k) PROVE WatchProofs!Next
  OBVIOUS
<1> USE DEF Watch!At, WatchProofs!At, Watch!Goto, WatchProofs!Goto, Watch!Fault, WatchProofs!Fault,
            Watch!Fails, WatchProofs!Fails, Watch!Connected, WatchProofs!Connected
<1>1. Watch!OpenWatch(k) => WatchProofs!OpenWatch(k)
  BY DEF Watch!OpenWatch, WatchProofs!OpenWatch, Watch!WatchOpened, WatchProofs!WatchOpened
<1>2. Watch!FirstDiscover(k) => WatchProofs!FirstDiscover(k)
  BY DEF Watch!FirstDiscover, WatchProofs!FirstDiscover
<1>3. Watch!Deliver(k) => WatchProofs!Deliver(k)
  BY DEF Watch!Deliver, WatchProofs!Deliver
<1>4. Watch!Event(k) => WatchProofs!Event(k)
  BY DEF Watch!Event, WatchProofs!Event
<1>5. Watch!Discover(k) => WatchProofs!Discover(k)
  BY DEF Watch!Discover, WatchProofs!Discover
<1>6. Watch!Leave(k) => WatchProofs!Leave(k)
  BY DEF Watch!Leave, WatchProofs!Leave
<1>7. Watch!WatchBreaks(k) => WatchProofs!WatchBreaks(k)
  BY DEF Watch!WatchBreaks, WatchProofs!WatchBreaks
<1>8. Watch!Change => WatchProofs!Change
  BY DEF Watch!Change, WatchProofs!Change
<1> QED
  BY <1>1, <1>2, <1>3, <1>4, <1>5, <1>6, <1>7, <1>8
     DEF RegistryStep, WatchProofs!Next, WatchProofs!GoroutineSteps

LEMMA WatchTypes == Watch!TypeOK /\ (\E k \in Sub : RegistryStep(k)) => Watch!TypeOK'
<1>1. (Watch!TypeOK <=> WatchProofs!TypeOK)'
  BY SameTypes, PTL
<1> QED BY <1>1, SameTypes, SameSteps, WatchProofs!TypeStep, WatchAssumptionHolds

LEMMA TypeInit == Init => TypeOK
<1> SUFFICES ASSUME Init PROVE TypeOK
  OBVIOUS
<1>1. Watch!TypeOK
  <2>1. Watch!Init => WatchProofs!Init
    BY DEF Watch!Init, WatchProofs!Init
  <2> QED BY <2>1, SameTypes, WatchProofs!TypeInit, WatchAssumptionHolds DEF Init
<1>2. cache \in CacheEntry
  BY DiscoveryAssumption DEF Init, NoEntry, CacheEntry, Revs
<1> QED BY <1>1, <1>2, DiscoveryAssumption DEF Init, TypeOK, Steps, Revs

\* Starting and cancelling subscriptions keeps the types of RegistryWatch.
LEMMA SubscriptionTypes ==
  ASSUME TypeOK
  PROVE  /\ \A k \in Sub : Replace(k) => Watch!TypeOK' /\ current' \in Sub
         /\ CancelCurrent /\ UNCHANGED pc => Watch!TypeOK'
<1> USE DEF TypeOK, Watch!TypeOK, Watch!Revs, Watch!Buffers
<1>1. CancelCurrent => ctxDone' \subseteq Sub
                       /\ UNCHANGED <<rev, faults, cursor, stream, snap, ch, chClosed, seen, phase>>
  BY DEF CancelCurrent
<1>2. ASSUME NEW k \in Sub, Replace(k) PROVE Watch!TypeOK' /\ current' \in Sub
  BY <1>1, <1>2 DEF Replace
<1> QED BY <1>1, <1>2

LEMMA ListTypes ==
  ASSUME TypeOK
  PROVE  /\ \A l \in Revs : Fresh(l) \in CacheEntry
         /\ NoEntry \in CacheEntry
         /\ \A c \in Caller, from, to \in Steps :
              /\ Step(c, from, to) => call' \in [Caller -> Steps]
              /\ Finish(c, from) => call' \in [Caller -> Steps] /\ list' \in [Caller -> Revs]
              /\ ReadList(c, from, to) =>
                   /\ call' \in [Caller -> Steps] /\ list' \in [Caller -> Revs]
                   /\ faults' \in 0 .. MaxFaults
<1> USE DiscoveryAssumption DEF TypeOK, Step, Finish
<1>1. 0 \in Revs /\ rev \in Revs /\ "idle" \in Steps /\ faults \in 0 .. MaxFaults
  BY DEF Revs, Watch!TypeOK, Watch!Revs, Steps
<1>2. \A l \in Revs : Fresh(l) \in CacheEntry
  BY DEF Fresh, CacheEntry
<1>3. NoEntry \in CacheEntry
  BY <1>1 DEF NoEntry, CacheEntry
<1>4. \A c \in Caller, from, to \in Steps :
        /\ Step(c, from, to) => call' \in [Caller -> Steps]
        /\ Finish(c, from) => call' \in [Caller -> Steps] /\ list' \in [Caller -> Revs]
  BY <1>1
<1>5. Watch!Fault => faults' \in 0 .. MaxFaults
  BY <1>1 DEF Watch!Fault
<1>6. ASSUME NEW c \in Caller, NEW from \in Steps, NEW to \in Steps, ReadList(c, from, to)
      PROVE  /\ call' \in [Caller -> Steps] /\ list' \in [Caller -> Revs]
             /\ faults' \in 0 .. MaxFaults
  BY <1>1, <1>4, <1>5, <1>6 DEF ReadList
<1> QED BY <1>2, <1>3, <1>4, <1>6

LEMMA TypeStep == TypeOK /\ [Next]_vars => TypeOK'
<1> SUFFICES ASSUME TypeOK, [Next]_vars PROVE TypeOK'
  OBVIOUS
<1>0. /\ "idle" \in Steps /\ "query" \in Steps /\ "store" \in Steps /\ "check" \in Steps
      /\ "subscribe" \in Steps /\ "return" \in Steps /\ "requery" \in Steps
      /\ "restore" \in Steps /\ "closing" \in Steps
  BY DEF Steps
<1>1. UNCHANGED watchVars => Watch!TypeOK'
  BY DEF TypeOK, Watch!TypeOK, watchVars, Watch!Revs, Watch!Buffers
<1>2. ASSUME NEW c \in Caller, GetHit(c) \/ GetMiss(c) \/ GetStore(c) \/ GetCheck(c) \/ Return(c)
      PROVE  TypeOK'
  <2>1. CASE GetHit(c)
    <3>1. cache.list \in Revs
      BY DEF TypeOK, CacheEntry
    <3> QED BY <1>0, <1>1, <2>1, <3>1, ListTypes DEF GetHit, TypeOK
  <2>2. CASE GetStore(c)
    BY <1>0, <1>1, <2>2, ListTypes DEF GetStore, TypeOK
  <2>3. CASE GetCheck(c)
    <3>1. PICK to \in {"subscribe", "return"} : Step(c, "check", to)
      BY <2>3 DEF GetCheck
    <3> QED BY <1>0, <1>1, <2>3, <3>1, ListTypes DEF GetCheck, TypeOK
  <2>4. CASE GetMiss(c) \/ Return(c)
    BY <1>0, <1>1, <2>4, ListTypes DEF GetMiss, Return, TypeOK
  <2> QED BY <1>2, <2>1, <2>2, <2>3, <2>4
<1>3. ASSUME NEW c \in Caller,
             RefreshCall(c) \/ RefreshStore(c) \/ CloseCache(c) \/ ClearCache(c) \/ SetConfig(c)
      PROVE  TypeOK'
  BY <1>0, <1>1, <1>3, ListTypes DEF RefreshCall, RefreshStore, CloseCache, ClearCache, SetConfig, TypeOK
<1>4. ASSUME NEW c \in Caller, GetQuery(c) \/ RefreshQuery(c)
      PROVE  TypeOK'
  <2>1. /\ UNCHANGED <<rev, pc, cursor, stream, snap, ch, chClosed, ctxDone, seen, phase>>
        /\ UNCHANGED <<cache, current, auto, late, config>>
        /\ call' \in [Caller -> Steps] /\ list' \in [Caller -> Revs] /\ faults' \in 0 .. MaxFaults
    BY <1>0, <1>4, ListTypes DEF GetQuery, RefreshQuery
  <2>2. Watch!TypeOK'
    BY <2>1 DEF TypeOK, Watch!TypeOK, Watch!Revs, Watch!Buffers
  <2> QED BY <2>1, <2>2 DEF TypeOK
<1>5. ASSUME NEW c \in Caller, AutoSubscribe(c) \/ Subscribe(c)
      PROVE  TypeOK'
  <2>1. Watch!TypeOK' /\ current' \in Sub
    BY <1>5, SubscriptionTypes DEF AutoSubscribe, Subscribe
  <2> QED BY <1>0, <1>5, <2>1, ListTypes DEF AutoSubscribe, Subscribe, TypeOK
<1>6. ASSUME NEW c \in Caller, Unsubscribe(c) \/ CloseSubscriptions(c)
      PROVE  TypeOK'
  <2>1. Watch!TypeOK' /\ current' = None
    BY <1>6, SubscriptionTypes DEF Unsubscribe, CloseSubscriptions
  <2> QED BY <1>0, <1>6, <2>1, ListTypes DEF Unsubscribe, CloseSubscriptions, TypeOK
<1>7. CASE Expire
  <2>1. cache' \in CacheEntry
    BY <1>7 DEF Expire, TypeOK, CacheEntry
  <2> QED BY <1>1, <1>7, <2>1 DEF Expire, TypeOK
<1>8. ASSUME NEW k \in Sub, HandlerCalled(k) PROVE TypeOK'
  <2>1. Watch!TypeOK'
    BY <1>8, WatchTypes DEF HandlerCalled, RegistryStep, TypeOK
  <2>2. cache' \in CacheEntry
    <3>1. snap[k] \in Revs
      BY DEF TypeOK, Watch!TypeOK, Watch!Revs, Revs
    <3> QED BY <1>8, <3>1, ListTypes DEF HandlerCalled, TypeOK
  <2>3. late' \in [Sub -> Nat]
    BY <1>8 DEF HandlerCalled, TypeOK
  <2> QED BY <1>8, <2>1, <2>2, <2>3 DEF HandlerCalled, TypeOK
<1>9. ASSUME NEW k \in Sub, RegistryStep(k), UNCHANGED discVars PROVE TypeOK'
  <2>1. Watch!TypeOK'
    BY <1>9, WatchTypes DEF TypeOK
  <2> QED BY <1>9, <2>1 DEF discVars, TypeOK
<1>10. CASE ServiceChanges
  <2>1. UNCHANGED discVars /\ Watch!Change
    BY <1>10 DEF ServiceChanges
  <2>2. rev' \in Revs /\ UNCHANGED <<faults, pc, cursor, stream, snap, ch, chClosed, ctxDone, seen, phase>>
    BY <2>1, DiscoveryAssumption DEF Watch!Change, TypeOK, Watch!TypeOK, Watch!Revs, Revs
  <2>3. Watch!TypeOK'
    BY <2>2 DEF TypeOK, Watch!TypeOK, Watch!Revs, Revs, Watch!Buffers
  <2> QED BY <2>1, <2>3 DEF discVars, TypeOK
<1>11. CASE UNCHANGED vars
  BY <1>1, <1>11 DEF vars, discVars, TypeOK
<1> QED
  BY <1>2, <1>3, <1>4, <1>5, <1>6, <1>7, <1>8, <1>9, <1>10, <1>11
     DEF Next, MethodSteps, WatcherSteps, WatcherLeaves, WatchBreaks, RegistryStep

\* The cache, the subscriptions and the callers of the discovery client have
\* their types, and so have the registry's goroutines they start and cancel.
THEOREM DiscoveryTypeCorrect == Spec => []TypeOK
BY TypeInit, TypeStep, PTL DEF Spec

----------------------------------------------------------------------------
(* What RegistryWatch keeps, its goroutines keep under the discovery client, *)
(* which starts one and cancels another in one step.                        *)

\* The client leaves everything to the goroutines but their start and their end.
StartsOrCancels ==
  /\ UNCHANGED <<rev, cursor, snap, ch, seen>>
  /\ faults' = faults \/ Watch!Fault
  /\ \A k \in Sub : pc'[k] = pc[k] \/ (pc[k] = "off" /\ pc'[k] = "watch")
  /\ ctxDone \subseteq ctxDone' /\ phase' = phase

LEMMA WatchStep ==
  TypeOK /\ [Next]_vars =>
    (\E k \in Sub : RegistryStep(k)) \/ Watch!Change \/ StartsOrCancels
<1> SUFFICES ASSUME TypeOK, [Next]_vars, ~(\E k \in Sub : RegistryStep(k)), ~Watch!Change
             PROVE  StartsOrCancels
  OBVIOUS
<1> USE DEF StartsOrCancels
<1>0. pc \in [Sub -> {"off", "watch", "first", "send", "loop", "discover", "end", "panic"}]
  BY DEF TypeOK, Watch!TypeOK
<1>1. UNCHANGED watchVars => StartsOrCancels
  BY DEF watchVars
<1>2. ASSUME NEW c \in Caller,
             GetHit(c) \/ GetMiss(c) \/ GetStore(c) \/ GetCheck(c) \/ Return(c) \/ RefreshCall(c)
      PROVE  StartsOrCancels
  BY <1>1, <1>2 DEF GetHit, GetMiss, GetStore, GetCheck, Return, RefreshCall
<1>3. ASSUME NEW c \in Caller, RefreshStore(c) \/ CloseCache(c) \/ ClearCache(c) \/ SetConfig(c)
      PROVE  StartsOrCancels
  BY <1>1, <1>3 DEF RefreshStore, CloseCache, ClearCache, SetConfig
<1>4. ASSUME NEW c \in Caller, GetQuery(c) \/ RefreshQuery(c) PROVE StartsOrCancels
  BY <1>4 DEF GetQuery, RefreshQuery, ReadList
<1>5. ASSUME NEW c \in Caller, AutoSubscribe(c) \/ Subscribe(c) PROVE StartsOrCancels
  <2>1. PICK k \in Sub : Replace(k)
    BY <1>5 DEF AutoSubscribe, Subscribe
  <2> QED BY <1>0, <2>1 DEF Replace, CancelCurrent
<1>6. ASSUME NEW c \in Caller, Unsubscribe(c) \/ CloseSubscriptions(c) PROVE StartsOrCancels
  BY <1>6 DEF Unsubscribe, CloseSubscriptions, CancelCurrent
<1>7. CASE Expire
  BY <1>1, <1>7 DEF Expire
<1>8. ASSUME NEW k \in Sub, WatcherSteps(k) \/ WatcherLeaves(k) \/ WatchBreaks(k) PROVE RegistryStep(k)
  BY <1>8 DEF WatcherSteps, HandlerCalled, WatcherLeaves, WatchBreaks, RegistryStep
<1>9. ~ServiceChanges
  BY DEF ServiceChanges
<1>10. CASE UNCHANGED vars
  BY <1>1, <1>10 DEF vars
<1> QED
  BY <1>2, <1>3, <1>4, <1>5, <1>6, <1>7, <1>8, <1>9, <1>10 DEF Next, MethodSteps

\* What the proofs of RegistryWatch rest on.
WatchInv ==
  /\ WatchProofs!TypeOK /\ WatchProofs!CursorBehind
  /\ WatchProofs!NothingMissed /\ WatchProofs!Ordered

LEMMA WatchInvInit == Init => WatchInv
<1> SUFFICES ASSUME Init PROVE WatchInv
  OBVIOUS
<1>1. WatchProofs!Init
  BY DEF Init, Watch!Init, WatchProofs!Init
<1>2. WatchProofs!TypeOK /\ WatchProofs!Ordered
  BY <1>1, WatchProofs!TypeInit, WatchProofs!OrderedInit, WatchAssumptionHolds
<1>3. WatchProofs!CursorBehind /\ WatchProofs!NothingMissed
  BY <1>1 DEF WatchProofs!Init, WatchProofs!CursorBehind, WatchProofs!NothingMissed,
              WatchProofs!At, WatchProofs!Attached
<1> QED BY <1>2, <1>3 DEF WatchInv

LEMMA WatchNext == WatchInv /\ WatchProofs!Next => WatchInv'
BY WatchProofs!TypeStep, WatchProofs!BehindStep, WatchProofs!MissedStep,
   WatchProofs!OrderedStep, WatchAssumptionHolds
   DEF WatchInv

LEMMA WatchInvStep == TypeOK /\ WatchInv /\ [Next]_vars => WatchInv'
<1> SUFFICES ASSUME TypeOK, WatchInv, [Next]_vars PROVE WatchInv'
  OBVIOUS
<1>1. CASE \E k \in Sub : RegistryStep(k)
  BY <1>1, SameSteps, WatchNext
<1>2. CASE Watch!Change
  <2>1. WatchProofs!Next
    BY <1>2 DEF Watch!Change, WatchProofs!Change, WatchProofs!Next
  <2> QED BY <2>1, WatchNext
<1>3. CASE StartsOrCancels
  <2>1. WatchProofs!TypeOK'
    <3>1. Watch!TypeOK'
      BY TypeStep DEF TypeOK
    <3>2. (Watch!TypeOK <=> WatchProofs!TypeOK)'
      BY SameTypes, PTL
    <3> QED BY <3>1, <3>2
  <2>2. WatchProofs!CursorBehind'
    BY <1>3 DEF StartsOrCancels, WatchInv, WatchProofs!CursorBehind
  <2>3. WatchProofs!NothingMissed'
    <3>1. faults \in Nat
      BY DEF TypeOK, Watch!TypeOK
    <3>2. faults' = 0 => faults = 0
      BY <1>3, <3>1 DEF StartsOrCancels, Watch!Fault
    <3> QED
      BY <1>3, <3>2 DEF StartsOrCancels, WatchInv, WatchProofs!NothingMissed,
                        WatchProofs!Attached, WatchProofs!At
  <2>4. WatchProofs!Ordered'
    BY <1>3 DEF StartsOrCancels, WatchInv, WatchProofs!Ordered, WatchProofs!InOrder
  <2> QED BY <2>1, <2>2, <2>3, <2>4 DEF WatchInv
<1> QED BY <1>1, <1>2, <1>3, WatchStep

LEMMA WatchInvHolds == Spec => []WatchInv
BY TypeInit, TypeStep, WatchInvInit, WatchInvStep, PTL DEF Spec

\* However often the application and GetInstances replace and cancel the
\* subscription, a handler is given lists in the order of the changes.
THEOREM HandlersAreServedInOrder == Spec => []Watch!NeverOlder
<1>1. WatchInv => Watch!NeverOlder
  <2>1. WatchInv => WatchProofs!NeverOlder
    BY WatchProofs!OrderedIsNeverOlder, WatchAssumptionHolds DEF WatchInv
  <2> QED
    BY <2>1 DEF Watch!NeverOlder, WatchProofs!NeverOlder, Watch!OnTheWay, WatchProofs!OnTheWay,
                Watch!At, WatchProofs!At
<1> QED BY <1>1, WatchInvHolds, PTL

\* As long as no request failed, the goroutine of a subscription that was not
\* cancelled has read its list no earlier than the last change its watch reported,
\* whatever was subscribed and cancelled around it.
THEOREM SubscriptionsMissNothing == Spec => []Watch!NothingMissed
<1>1. WatchInv => Watch!NothingMissed
  BY DEF WatchInv, Watch!NothingMissed, WatchProofs!NothingMissed, Watch!Attached,
         WatchProofs!Attached, Watch!At, WatchProofs!At
<1> QED BY <1>1, WatchInvHolds, PTL
=============================================================================
