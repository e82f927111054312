---------------------------- MODULE LoadBalancers ----------------------------
(***************************************************************************)
(* service_registry/loadbalancer, called by GetInstance of the discovery      *)
(* client: a goroutine takes the cached list, filters it, and selects.        *)
(* Meanwhile the list changes under the other goroutines, and they share the  *)
(* balancer: its counter, or its random source, which nothing protects.       *)
(***************************************************************************)
EXTENDS Integers, Sequences, FiniteSets, SequencesExt, FiniteSetsExt

CONSTANTS
  Caller,        \* goroutines
  Order,         \* the instances, in the order etcd lists their keys
  Weight,        \* of each instance
  Key,           \* the keys of requests
  VirtualNodes, RingSize,   \* 150 and 2^32 in the code
  CounterSize,   \* 2^64 in the code
  MaxSelects,    \* bound: selections by turns
  None

Instance == Range(Order)

ASSUME BalancerAssumption ==
  /\ Order \in Seq(Instance) /\ IsInjective(Order) /\ Order # <<>>
  /\ Weight \in [Instance -> Int]
  /\ {VirtualNodes, RingSize, CounterSize, MaxSelects} \subseteq Nat \ {0}

VARIABLES
  balancer,    \* the one the factory made
  hash,        \* the first four bytes of SHA-1, of virtual nodes and of keys
  status,      \* the instances as the cached list has them
  counter,     \* of RoundRobinLoadBalancer
  call,        \* per caller: the healthy list of its Select, or None
  drawn,       \* the answer, if the last step was one of a random balancer
  selects,
  window,      \* history: the last selections by turns over one and the same list
  last         \* history: the last selection for each key

vars == <<balancer, hash, status, counter, call, drawn, selects, window, last>>

----------------------------------------------------------------------------

Algorithm == {"round_robin", "random", "weighted_random", "least_conn", "consistent_hash"}

\* Mutant: what the factory does not know, it does not make.
Create_Leaves(algorithm) == algorithm

\* DefaultFactory.Create: nothing counts connections.
Create(algorithm) == IF algorithm = "least_conn" THEN "round_robin" ELSE algorithm

Shared == {"round_robin", "random", "weighted_random"}

VirtualKey == Instance \X (0 .. VirtualNodes - 1)

\* The loop of FilterHealthy, after n instances: those of S are appended.
Kept(S) ==
  LET kept[n \in 0 .. Len(Order)] ==
        IF n = 0 THEN <<>>
        ELSE IF Order[n] \in S THEN Append(kept[n - 1], Order[n]) ELSE kept[n - 1]
  IN kept[Len(Order)]

FilterHealthy == Kept({i \in Instance : status[i] = "healthy"})

NoWindow == [list |-> <<>>, picks |-> [i \in Instance |-> 0], wraps |-> 0]

Lists == {Kept(S) : S \in SUBSET Instance}

TypeOK ==
  /\ balancer \in Shared \cup {"consistent_hash"}
  /\ hash \in [VirtualKey \cup Key -> 0 .. RingSize - 1]
  /\ status \in [Instance -> {"absent", "healthy", "unhealthy"}]
  /\ counter \in 0 .. CounterSize - 1
  /\ \A c \in Caller :
       call[c] = None \/ (call[c].list \in Lists \ {<<>>} /\ call[c].raced \in BOOLEAN)
  /\ drawn \in Instance \cup {"panic", None}
  /\ selects \in 0 .. MaxSelects
  /\ window.list \in Lists
  /\ window.picks \in [Instance -> 0 .. MaxSelects] /\ window.wraps \in 0 .. MaxSelects
  /\ \A k \in Key :
       last[k] = None \/ (last[k].healthy \subseteq Instance /\ last[k].choice \in last[k].healthy)

Init ==
  /\ \E a \in Algorithm : balancer = Create(a)
  /\ hash \in IF balancer = "consistent_hash" THEN [VirtualKey \cup Key -> 0 .. RingSize - 1]
                                              ELSE [VirtualKey \cup Key -> {0}]
  /\ status = [i \in Instance |-> "healthy"]
  /\ counter = 0
  /\ call = [c \in Caller |-> None]
  /\ drawn = None /\ selects = 0
  /\ window = NoWindow
  /\ last = [k \in Key |-> None]

\* The subscription of the client brings another list.
ListChanges ==
  /\ \E i \in Instance, s \in {"absent", "healthy", "unhealthy"} :
       status[i] # s /\ status' = [status EXCEPT ![i] = s]
  /\ drawn' = None
  /\ UNCHANGED <<balancer, hash, counter, call, selects, window, last>>

\* GetInstance up to the shared part of Select.  Without a healthy instance it
\* returns ErrNoAvailableInstance, and nothing has changed.  From here on, those
\* who draw use the random source at the same time.
Begin(c) ==
  LET drawing == {d \in Caller : call[d] # None}
  IN /\ balancer \in Shared
     /\ call[c] = None
     /\ FilterHealthy # <<>>
     /\ call' = [d \in Caller |->
          IF d = c THEN [list |-> FilterHealthy, raced |-> drawing # {}]
          ELSE IF d \in drawing THEN [call[d] EXCEPT !.raced = TRUE] ELSE None]
     /\ drawn' = None
     /\ UNCHANGED <<balancer, hash, status, counter, selects, window, last>>

----------------------------------------------------------------------------
(* RoundRobinLoadBalancer                                                   *)

Pick(list, n) == list[(n % Len(list)) + 1]

Picked(list, i, wrap) ==
  LET w == IF window.list = list THEN window ELSE [NoWindow EXCEPT !.list = list]
  IN [w EXCEPT !.picks[i] = @ + 1, !.wraps = IF wrap THEN @ + 1 ELSE @]

\* Mutant: AddUint64 is called twice, to look and to take.
SelectByTurns_Twice(c) ==
  /\ balancer = "round_robin"
  /\ call[c] # None
  /\ selects < MaxSelects
  /\ counter' = (counter + 2) % CounterSize
  /\ window' = Picked(call[c].list, Pick(call[c].list, counter), counter + 1 >= CounterSize - 1)
  /\ selects' = selects + 1
  /\ call' = [call EXCEPT ![c] = None]
  /\ drawn' = None
  /\ UNCHANGED <<balancer, hash, status, last>>

\* AddUint64, and the instance whose turn it is.
SelectByTurns(c) ==
  /\ balancer = "round_robin"
  /\ call[c] # None
  /\ selects < MaxSelects
  /\ counter' = (counter + 1) % CounterSize
  /\ window' = Picked(call[c].list, Pick(call[c].list, counter), counter = CounterSize - 1)
  /\ selects' = selects + 1
  /\ call' = [call EXCEPT ![c] = None]
  /\ drawn' = None
  /\ UNCHANGED <<balancer, hash, status, last>>

----------------------------------------------------------------------------
(* RandomLoadBalancer and WeightedRandomLoadBalancer                        *)

\* A weight that is not positive counts as 1 ...
Effective(i) == IF Weight[i] <= 0 THEN 1 ELSE Weight[i]

\* ... in the walk: what the first n instances of a list weigh together ...
Upto(list) ==
  LET sum[n \in 0 .. Len(list)] == IF n = 0 THEN 0 ELSE sum[n - 1] + Effective(list[n])
  IN sum

\* ... and in the total.
Total(list) == Upto(list)[Len(list)]

\* Mutant: randomWeight is tested with <= 0.
WeightedPick_AtMost(list, r) ==
  list[Min({n \in DOMAIN list : Upto(list)[n] >= r})]

\* The walk subtracts one weight after the other until it is below 0.
WeightedPick(list, r) ==
  list[Min({n \in DOMAIN list : Upto(list)[n] > r})]

Answers(list) ==
  IF balancer = "random" THEN Range(list)
                         ELSE {WeightedPick(list, r) : r \in 0 .. Total(list) - 1}

\* rand.Rand is not for concurrent use: calls that draw together get any number,
\* or an index outside the source's table, which panics.
SelectByChance(c) ==
  /\ balancer \in {"random", "weighted_random"}
  /\ call[c] # None
  /\ drawn' \in Answers(call[c].list) \cup (IF call[c].raced THEN {"panic"} ELSE {})
  /\ call' = [call EXCEPT ![c] = None]
  /\ UNCHANGED <<balancer, hash, status, counter, selects, window, last>>

----------------------------------------------------------------------------
(* ConsistentHashLoadBalancer                                               *)

Points(list) == {hash[v] : v \in Range(list) \X (0 .. VirtualNodes - 1)}

\* newHashRing: where two virtual nodes meet, the later instance has the point.
Owner(list, p) ==
  list[Max({n \in DOMAIN list : \E v \in 0 .. VirtualNodes - 1 : hash[<<list[n], v>>] = p})]

\* Mutant: the hash is reduced to a position in the list.
OnRing_Modulo(list, key) == list[(hash[key] % Len(list)) + 1]

\* The first point from the key's hash on, or else the first of all.
OnRing(list, key) ==
  LET from == {p \in Points(list) : p >= hash[key]}
  IN Owner(list, IF from = {} THEN Min(Points(list)) ELSE Min(from))

\* It shares nothing with other calls.  Without a key it returns ErrInvalidKey.
SelectByKey(key) ==
  /\ balancer = "consistent_hash"
  /\ FilterHealthy # <<>>
  /\ last' = [last EXCEPT ![key] =
       [healthy |-> Range(FilterHealthy), choice |-> OnRing(FilterHealthy, key)]]
  /\ drawn' = None
  /\ UNCHANGED <<balancer, hash, status, counter, call, selects, window>>

----------------------------------------------------------------------------

Next ==
  \/ ListChanges
  \/ \E c \in Caller : Begin(c) \/ SelectByTurns(c) \/ SelectByChance(c)
  \/ \E key \in Key : SelectByKey(key)

Spec == Init /\ [][Next]_vars

----------------------------------------------------------------------------

\* Turns are shared evenly among the instances of a list, over any run of
\* selections with that list, whoever makes them and wherever the counter stood
\* (loadbalancer_test.go line 41); only where the counter overflows, one more
\* may come out of turn.
RoundsAreFair ==
  \A i, j \in Range(window.list) : window.picks[i] <= window.picks[j] + 1 + window.wraps

\* Of the numbers that the weighted balancer may draw, each instance has as many
\* as its weight says (random.go lines 68 to 92, both loops together).
SharesAreExact ==
  balancer = "weighted_random" =>
    \A c \in Caller : call[c] # None =>
      \A i \in Range(call[c].list) :
        Cardinality({r \in 0 .. Total(call[c].list) - 1 : WeightedPick(call[c].list, r) = i})
          = Effective(i)

\* Between two requests with one key the choice changes only if the first choice
\* is gone, or to one that has come: whatever the hash function, also where
\* points collide (consistent_hash.go lines 45 to 52).
KeysStick ==
  [][\A k \in Key :
       last[k] # None =>
         \/ last'[k].choice = last[k].choice
         \/ last[k].choice \notin last'[k].healthy
         \/ last'[k].choice \notin last[k].healthy]_vars
=============================================================================
