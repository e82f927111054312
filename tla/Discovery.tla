----------------------------- MODULE Discovery -----------------------------
(***************************************************************************)
(* service_registry/discovery/discovery.go on top of the etcd registry: the *)
(* cache of one service, its subscription, and the goroutines of the        *)
(* application that call GetInstances, Refresh, Subscribe, Unsubscribe,     *)
(* ClearCache, SetConfig and Close.                                         *)
(*                                                                          *)
(* Every Subscribe starts a goroutine of the registry with a handler, which *)
(* is a watcher of RegistryWatch: that module's variables and steps are     *)
(* used as they are, and the delivery of a list also runs the handler.      *)
(* A list of instances is named as there, by the changes it reflects.       *)
(***************************************************************************)
EXTENDS Naturals

CONSTANTS
  Sub,         \* the subscriptions that can be made (bound)
  Caller,      \* goroutines of the application
  None,        \* no subscription
  Configs,     \* the configurations the application uses
  MaxRev,      \* bound: changes of the service
  MaxFaults    \* bound: failures of requests to etcd

ASSUME DiscoveryAssumption ==
  /\ None \notin Sub
  /\ Configs \subseteq [cacheEnabled : BOOLEAN, enableWatch : BOOLEAN]
  /\ MaxRev \in Nat /\ MaxFaults \in Nat

VARIABLES
  rev, faults, pc, cursor, stream, snap, ch, chClosed, ctxDone, seen, phase,
               \* of RegistryWatch
  cache,       \* impl.cache[serviceName]
  current,     \* impl.subscriptions[serviceName]
  auto,        \* the subscriptions made with defaultChangeHandler
  late,        \* the calls of each handler after its subscription was cancelled
  config,      \* impl.config
  call,        \* how far each caller is in its method
  list         \* the list each caller has read or is returned

watchVars == <<rev, faults, pc, cursor, stream, snap, ch, chClosed, ctxDone, seen, phase>>
discVars  == <<cache, current, auto, late, config, call, list>>
vars      == <<watchVars, discVars>>

Watch == INSTANCE RegistryWatch
           WITH Watcher <- Sub, Handler <- Sub, Capacity <- 1, MayClose <- FALSE

Revs == 0..MaxRev

CacheEntry == [state : {"none", "fresh", "expired"}, list : Revs]

NoEntry == [state |-> "none", list |-> 0]

Fresh(l) == [state |-> "fresh", list |-> l]

Steps == {"idle", "query", "store", "check", "subscribe", "return",
          "requery", "restore", "closing"}

TypeOK ==
  /\ Watch!TypeOK
  /\ cache \in CacheEntry
  /\ current \in Sub \cup {None}
  /\ auto \subseteq Sub
  /\ late \in [Sub -> Nat]
  /\ config \in Configs
  /\ call \in [Caller -> Steps]
  /\ list \in [Caller -> Revs]

Init ==
  /\ Watch!Init
  /\ cache = NoEntry
  /\ current = None
  /\ auto = {}
  /\ late = [k \in Sub |-> 0]
  /\ config \in Configs
  /\ call = [c \in Caller |-> "idle"]
  /\ list = [c \in Caller |-> 0]

Step(c, from, to) == call[c] = from /\ call' = [call EXCEPT ![c] = to]

\* The method is over, and its local list with it.
Finish(c, from) == Step(c, from, "idle") /\ list' = [list EXCEPT ![c] = 0]

----------------------------------------------------------------------------
(* GetInstances                                                             *)

\* Mutant: a cached list is used however old it is.
GetHit_IgnoresTTL(c) ==
  /\ Step(c, "idle", "return")
  /\ config.cacheEnabled
  /\ cache.state # "none"
  /\ list' = [list EXCEPT ![c] = cache.list]
  /\ UNCHANGED <<watchVars, cache, current, auto, late, config>>

\* The cached list, if it has not expired.
GetHit(c) ==
  /\ Step(c, "idle", "return")
  /\ config.cacheEnabled
  /\ cache.state = "fresh"
  /\ list' = [list EXCEPT ![c] = cache.list]
  /\ UNCHANGED <<watchVars, cache, current, auto, late, config>>

GetMiss(c) ==
  /\ Step(c, "idle", "query")
  /\ ~(config.cacheEnabled /\ cache.state = "fresh")
  /\ UNCHANGED <<watchVars, cache, current, auto, late, config, list>>

\* registry.Discover answers with the list of this moment, or fails: then
\* the method returns the error.
ReadList(c, from, to) ==
  \/ /\ Step(c, from, to)
     /\ list' = [list EXCEPT ![c] = rev]
     /\ UNCHANGED faults
  \/ Finish(c, from) /\ Watch!Fault

GetQuery(c) ==
  /\ ReadList(c, "query", "store")
  /\ UNCHANGED <<rev, pc, cursor, stream, snap, ch, chClosed, ctxDone, seen, phase>>
  /\ UNCHANGED <<cache, current, auto, late, config>>

\* Under cacheMutex, whatever has been stored since the list was read.
GetStore(c) ==
  /\ Step(c, "store", "check")
  /\ cache' = IF config.cacheEnabled THEN Fresh(list[c]) ELSE cache
  /\ UNCHANGED <<watchVars, current, auto, late, config, list>>

\* subscriptionsMu is released before Subscribe takes it again.
GetCheck(c) ==
  /\ Step(c, "check", IF config.enableWatch /\ current = None THEN "subscribe" ELSE "return")
  /\ UNCHANGED <<watchVars, cache, current, auto, late, config, list>>

Return(c) ==
  /\ Finish(c, "return")
  /\ UNCHANGED <<watchVars, cache, current, auto, late, config>>

----------------------------------------------------------------------------
(* Subscriptions: each method is one critical section of subscriptionsMu    *)

\* The subscription in the map is cancelled.
CancelCurrent ==
  /\ ctxDone' = IF current = None THEN ctxDone ELSE ctxDone \cup {current}
  /\ UNCHANGED <<rev, faults, cursor, stream, snap, ch, chClosed, seen, phase>>

\* Mutant: the old subscription is replaced without being cancelled.
Replace_NoCancel(k) ==
  /\ pc[k] = "off"
  /\ pc' = [pc EXCEPT ![k] = "watch"]
  /\ current' = k
  /\ UNCHANGED <<ctxDone, rev, faults, cursor, stream, snap, ch, chClosed, seen, phase>>

\* Subscribe: the old subscription is cancelled, registry.Subscribe starts the
\* goroutine of the new one.
Replace(k) ==
  /\ pc[k] = "off"
  /\ pc' = [pc EXCEPT ![k] = "watch"]
  /\ current' = k
  /\ CancelCurrent

\* GetInstances subscribes with defaultChangeHandler.
AutoSubscribe(c) ==
  /\ Step(c, "subscribe", "return")
  /\ \E k \in Sub : Replace(k) /\ auto' = auto \cup {k}
  /\ UNCHANGED <<cache, late, config, list>>

\* The application subscribes with a handler of its own.
Subscribe(c) ==
  /\ call[c] = "idle"
  /\ \E k \in Sub : Replace(k)
  /\ UNCHANGED <<cache, auto, late, config, call, list>>

\* Unsubscribe, or Subscribe with a nil handler, which the registry refuses
\* after the old subscription has been cancelled.
Unsubscribe(c) ==
  /\ call[c] = "idle"
  /\ current # None
  /\ CancelCurrent
  /\ current' = None
  /\ UNCHANGED <<pc, cache, auto, late, config, call, list>>

----------------------------------------------------------------------------
(* Refresh, Close, ClearCache, SetConfig                                    *)

RefreshCall(c) ==
  /\ Step(c, "idle", "requery")
  /\ UNCHANGED <<watchVars, cache, current, auto, late, config, list>>

RefreshQuery(c) ==
  /\ ReadList(c, "requery", "restore")
  /\ UNCHANGED <<rev, pc, cursor, stream, snap, ch, chClosed, ctxDone, seen, phase>>
  /\ UNCHANGED <<cache, current, auto, late, config>>

RefreshStore(c) ==
  /\ Finish(c, "restore")
  /\ cache' = Fresh(list[c])
  /\ UNCHANGED <<watchVars, current, auto, late, config>>

\* Close has two critical sections.
CloseSubscriptions(c) ==
  /\ Step(c, "idle", "closing")
  /\ CancelCurrent
  /\ current' = None
  /\ UNCHANGED <<pc, cache, auto, late, config, list>>

CloseCache(c) ==
  /\ Step(c, "closing", "idle")
  /\ cache' = NoEntry
  /\ UNCHANGED <<watchVars, current, auto, late, config, list>>

\* ClearCache or ClearServiceCache.
ClearCache(c) ==
  /\ call[c] = "idle"
  /\ cache' = NoEntry
  /\ UNCHANGED <<watchVars, current, auto, late, config, call, list>>

SetConfig(c) ==
  /\ call[c] = "idle"
  /\ config' \in Configs
  /\ UNCHANGED <<watchVars, cache, current, auto, late, call, list>>

\* CacheTTL passes.
Expire ==
  /\ cache.state = "fresh"
  /\ cache' = [cache EXCEPT !.state = "expired"]
  /\ UNCHANGED <<watchVars, current, auto, late, config, call, list>>

----------------------------------------------------------------------------
(* The registry's goroutines                                                *)

\* The handler is called; defaultChangeHandler stores the list.
HandlerCalled(k) ==
  /\ Watch!Deliver(k)
  /\ cache' = IF k \in auto THEN Fresh(snap[k]) ELSE cache
  /\ late' = IF k \in ctxDone THEN [late EXCEPT ![k] = @ + 1] ELSE late
  /\ UNCHANGED <<current, auto, config, call, list>>

WatcherSteps(k) ==
  \/ HandlerCalled(k)
  \/ /\ Watch!OpenWatch(k) \/ Watch!FirstDiscover(k) \/ Watch!Event(k) \/ Watch!Discover(k)
     /\ UNCHANGED discVars

WatcherLeaves(k) == Watch!Leave(k) /\ UNCHANGED discVars

ServiceChanges == Watch!Change /\ UNCHANGED discVars

WatchBreaks(k) == Watch!WatchBreaks(k) /\ UNCHANGED discVars

MethodSteps(c) ==
  \/ GetQuery(c) \/ GetStore(c) \/ GetCheck(c) \/ AutoSubscribe(c) \/ Return(c)
  \/ RefreshQuery(c) \/ RefreshStore(c) \/ CloseCache(c)

Next ==
  \/ \E c \in Caller :
       \/ GetHit(c) \/ GetMiss(c) \/ MethodSteps(c)
       \/ Subscribe(c) \/ Unsubscribe(c) \/ RefreshCall(c) \/ CloseSubscriptions(c)
       \/ ClearCache(c) \/ SetConfig(c)
  \/ \E k \in Sub : WatcherSteps(k) \/ WatcherLeaves(k) \/ WatchBreaks(k)
  \/ ServiceChanges \/ Expire

Spec == Init /\ [][Next]_vars

\* Goroutines are scheduled, requests are answered, and time passes.
FairSpec ==
  /\ Spec
  /\ \A c \in Caller : WF_vars(MethodSteps(c))
  /\ \A k \in Sub : WF_vars(WatcherSteps(k)) /\ WF_vars(WatcherLeaves(k))
  /\ WF_vars(Expire)

----------------------------------------------------------------------------
(* Properties                                                               *)

\* The goroutine of a subscription can still be told to end: every one that
\* is not cancelled is the one in the map, which Unsubscribe and Close cancel.
\* Subscribe, auto-subscription, Unsubscribe and Close may overlap.
SubscriptionsReachable ==
  \A k \in Sub : pc[k] # "off" /\ k \notin ctxDone => k = current

\* A handler is called at most once after its subscription was cancelled: the
\* goroutine may have a list in hand, and every later event finds the context
\* done (registry.go 410-425).
OneLateCall == \A k \in Sub : late[k] <= 1

\* Once the service has stopped changing and no more subscriptions are made
\* (Sub is finite; one that is cancelled at once may store an empty list),
\* GetInstances at last returns only the latest list, although callers and
\* handlers may have overwritten the cache with an older one: such an entry
\* expires and is read again.
ServesLatest == <>[](\A c \in Caller : call[c] = "return" => list[c] = rev)
============================================================================
