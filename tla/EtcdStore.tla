----------------------------- MODULE EtcdStore -----------------------------
(***************************************************************************)
(* The part of an etcd cluster that the registry relies on: leases, and     *)
(* keys attached to a lease (service_registry/registry/etcd/registry.go     *)
(* calls Grant, Put ... WithLease, KeepAliveOnce, Get, Revoke and Delete).  *)
(* etcd itself is external; each operator is one request as its caller      *)
(* sees it: the answer is either a success or an error, and a request that   *)
(* ends in an error may still have been applied.                            *)
(*                                                                          *)
(* Time is abstract.  While the network is "flaky" any request may fail and *)
(* any lease may run out (the process, or etcd, may stall for a whole TTL); *)
(* once it is "stable" requests are answered and only a lease that nobody   *)
(* renews runs out.                                                         *)
(***************************************************************************)
EXTENDS Naturals, FiniteSets

CONSTANTS
  Instance,    \* the keys: one per (service name, instance ID)
  Data,        \* what a key can hold of an instance (its status, metadata)
  InitData,    \* the data of an instance its owner has just created
  Lease,       \* identifiers of leases
  None         \* "no lease", "no instance", "no channel"

ASSUME StoreAssumption ==
  /\ InitData \in Data
  /\ None \notin Lease

VARIABLES
  live,        \* the leases granted that were neither revoked nor ran out
  store,       \* the key of every instance
  net          \* "flaky" or "stable"

storeVars == <<live, store, net>>

Entry == [lease : Lease \cup {None}, data : Data]

Absent == [lease |-> None, data |-> InitData]

StoreTypeOK ==
  /\ live \subseteq Lease
  /\ store \in [Instance -> Entry]
  /\ net \in {"flaky", "stable"}

Present(i) == store[i].lease # None

\* An attached key never outlives its lease.
KeysAreLeased == \A i \in Instance : Present(i) => store[i].lease \in live

----------------------------------------------------------------------------
(* Requests.  `up` says whether the client still has a connection.          *)

CanFail(up) == net = "flaky" \/ ~up

\* Every key attached to a lease goes with it.
WithoutKeysOf(l) ==
  [i \in Instance |-> IF store[i].lease = l THEN Absent ELSE store[i]]

\* A lease with an identifier that nobody uses.
GrantOK(up, l, used) ==
  /\ up
  /\ l \in Lease \ (live \cup used)
  /\ live' = live \cup {l}

PutApplied(i, l, d) == store' = [store EXCEPT ![i] = [lease |-> l, data |-> d]]

\* etcd refuses a Put with a lease it does not know.
PutOK(up, i, l, d) == up /\ l \in live /\ PutApplied(i, l, d)

PutFails(up, i, l, d) ==
  /\ CanFail(up) \/ l \notin live
  /\ \/ UNCHANGED store
     \/ up /\ l \in live /\ PutApplied(i, l, d)

\* The registry ignores the answer to Revoke.
Revoke(up, l) ==
  \/ up /\ live' = live \ {l} /\ store' = WithoutKeysOf(l)
  \/ CanFail(up) /\ UNCHANGED <<live, store>>

\* Deregister returns right after Delete, whatever the answer.
DeleteKey(up, i) ==
  \/ up /\ store' = [store EXCEPT ![i] = Absent]
  \/ CanFail(up) /\ UNCHANGED store

----------------------------------------------------------------------------
(* What etcd and the network do on their own.                               *)

\* A lease that nobody renewed for its TTL runs out.
RunOut(l) ==
  /\ l \in live
  /\ live' = live \ {l}
  /\ store' = WithoutKeysOf(l)
  /\ UNCHANGED net

\* The last outage is over.
Stabilize ==
  /\ net = "flaky"
  /\ net' = "stable"
  /\ UNCHANGED <<live, store>>

StoreInit(startsFlaky) ==
  /\ live = {}
  /\ store = [i \in Instance |-> Absent]
  /\ net = IF startsFlaky THEN "flaky" ELSE "stable"
============================================================================
