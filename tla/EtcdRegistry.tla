---------------------------- MODULE EtcdRegistry ----------------------------
(***************************************************************************)
(* service_registry/registry/etcd/registry.go: one process that registers   *)
(* service instances in etcd under leases, and the goroutine per            *)
(* registration (keepAlive) that renews the lease and puts the instance     *)
(* again when the lease or the key is gone.                                 *)
(*                                                                          *)
(* The methods of EtcdRegistry are called from any number of goroutines     *)
(* (Caller); a method is cut where another goroutine can run between two of *)
(* its steps: around every etcd request and every critical section.         *)
(* A keepAlive goroutine and its `done` channel are one Keeper: the channel *)
(* is created with the goroutine, and keeper[k].stop says it is closed.     *)
(***************************************************************************)
EXTENDS EtcdStore

CONSTANTS
  Id,          \* instance IDs
  IdOf,        \* [Instance -> Id]: the ID of the instance a key is of
  Caller,      \* goroutines that call the registry
  Keeper,      \* keepAlive goroutines that can exist at a time (a bound)
  Methods,     \* the methods the application calls
  SerialIds,   \* the IDs whose Register and Deregister the application
               \* serialises, and registers only while they are not registered
  MayFail      \* FALSE: the network is stable from the start

ASSUME RegistryAssumption ==
  /\ IdOf \in [Instance -> Id]
  /\ None \notin Instance \cup Keeper
  /\ Methods \subseteq {"Register", "Deregister", "Update", "Heartbeat", "Close"}
  /\ SerialIds \subseteq Id
  /\ MayFail \in BOOLEAN

VARIABLES
  leases,      \* EtcdRegistry.leases: the lease of an instance ID
  leasesMu,    \* None, or the caller that holds leasesMu over a request
  leaseDone,   \* EtcdRegistry.leaseDone: the done channel of an ID
  phase,       \* "open"; "stopping" while Close sleeps; "closed": no client
  keeper,      \* the keepAlive goroutines
  call,        \* the method each caller is in
  obj          \* the data in the application's ServiceInstance

registryVars == <<leases, leasesMu, leaseDone, phase, keeper, call, obj>>
vars == <<live, store, net, leases, leasesMu, leaseDone, phase, keeper, call, obj>>

\* A keepAlive goroutine: `data` is in its instanceCopy, `lease` is its
\* currentLeaseID, `new` the lease of a refresh that is under way.
KeeperPc == {"off", "select", "get", "grant", "put", "save"}

KeeperState ==
  [pc : KeeperPc, inst : Instance \cup {None}, data : Data,
   lease : Lease \cup {None}, new : Lease \cup {None}, stop : BOOLEAN]

NoKeeper == [pc |-> "off", inst |-> None, data |-> InitData,
             lease |-> None, new |-> None, stop |-> FALSE]

\* A call: `lease` and `data` are what the method has read or been given.
CallPc ==
  {"idle", "reg.grant", "reg.put", "reg.save", "reg.keep",
   "dereg.done", "dereg.lock", "dereg.revoke", "dereg.delete",
   "upd.read", "upd.put", "beat.send", "close.client"}

CallState ==
  [pc : CallPc, inst : Instance \cup {None}, data : Data, lease : Lease \cup {None}]

NoCall == [pc |-> "idle", inst |-> None, data |-> InitData, lease |-> None]

TypeOK ==
  /\ StoreTypeOK
  /\ leases \in [Id -> Lease \cup {None}]
  /\ leasesMu \in Caller \cup {None}
  /\ leaseDone \in [Id -> Keeper \cup {None}]
  /\ phase \in {"open", "stopping", "closed"}
  /\ keeper \in [Keeper -> KeeperState]
  /\ call \in [Caller -> CallState]
  /\ obj \in [Instance -> Data]

Running(k) == keeper[k].pc # "off"

Up == phase # "closed"

\* Every lease a variable of the process mentions: an identifier that is
\* neither live nor mentioned can stand for a new lease.
UsedLeases ==
  {leases[d] : d \in Id} \cup {call[c].lease : c \in Caller}
    \cup {keeper[k].lease : k \in Keeper} \cup {keeper[k].new : k \in Keeper}

----------------------------------------------------------------------------
(* Helpers for the steps of a caller c and of a keeper k.                   *)

At(c, pc) == call[c].pc = pc

Enter(c, pc, i) ==
  /\ At(c, "idle")
  /\ call' = [call EXCEPT ![c] =
                 [pc |-> pc, inst |-> i, data |-> InitData, lease |-> None]]

\* The method goes on with the lease and the data it has read.
GotoWith(c, pc, l, d) ==
  call' = [call EXCEPT ![c] =
             [pc |-> pc, inst |-> call[c].inst, data |-> d, lease |-> l]]

Goto(c, pc) == GotoWith(c, pc, call[c].lease, call[c].data)

Return(c) == call' = [call EXCEPT ![c] = NoCall]

KeeperAt(k, pc) == keeper[k].pc = pc

\* The goroutine goes on with its current lease and that of a refresh.
KeeperGotoWith(k, pc, l, new) ==
  keeper' = [keeper EXCEPT ![k] =
    [pc |-> pc, inst |-> keeper[k].inst, data |-> keeper[k].data,
     lease |-> l, new |-> new, stop |-> keeper[k].stop]]

KeeperGoto(k, pc) == KeeperGotoWith(k, pc, keeper[k].lease, keeper[k].new)

\* close(done) for the channels of the goroutines in ks.
CloseDone(ks) ==
  keeper' = [k \in Keeper |->
    IF k \in ks THEN [keeper[k] EXCEPT !.stop = TRUE] ELSE keeper[k]]

InRegister(c) == call[c].pc \in {"reg.grant", "reg.put", "reg.save", "reg.keep"}

\* Calls of Register and Deregister of an ID that have not returned.
InLifecycle(c, d) ==
  /\ call[c].inst # None
  /\ IdOf[call[c].inst] = d
  /\ \/ InRegister(c)
     \/ call[c].pc \in {"dereg.done", "dereg.lock", "dereg.revoke", "dereg.delete"}

\* Bound: the goroutines there are and will be fit in Keeper.
RoomForKeeper ==
  Cardinality({k \in Keeper : Running(k)}) + Cardinality({c \in Caller : InRegister(c)})
    < Cardinality(Keeper)

\* What a careful application waits for before it calls Register, Deregister.
MayDeregister(i) ==
  IdOf[i] \in SerialIds => \A c \in Caller : ~InLifecycle(c, IdOf[i])

MayRegister(i) ==
  MayDeregister(i) /\ (IdOf[i] \in SerialIds => leaseDone[IdOf[i]] = None)

----------------------------------------------------------------------------
(* Register                                                                 *)

RegisterCall(c, i) ==
  /\ MayRegister(i)
  /\ RoomForKeeper
  /\ Enter(c, "reg.grant", i)
  /\ UNCHANGED <<storeVars, leases, leasesMu, leaseDone, phase, keeper, obj>>

\* Mutant: the process's instances share the first lease it was granted.
RegisterGrant_SharesLease(c) ==
  /\ At(c, "reg.grant")
  /\ \E l \in Lease :
       /\ \/ GrantOK(Up, l, UsedLeases) /\ \A d \in Id : leases[d] \notin live
          \/ l \in live /\ (\E d \in Id : leases[d] = l) /\ UNCHANGED live
       /\ GotoWith(c, "reg.put", l, obj[call[c].inst])
  /\ UNCHANGED <<store, net, leases, leasesMu, leaseDone, phase, keeper, obj>>

\* putInstanceWithNewLease: Grant, and the instance marshalled for the Put.
RegisterGrant(c) ==
  /\ At(c, "reg.grant")
  /\ \/ \E l \in Lease :
          /\ GrantOK(Up, l, UsedLeases)
          /\ GotoWith(c, "reg.put", l, obj[call[c].inst])
     \/ CanFail(Up) /\ Return(c) /\ UNCHANGED live
  /\ UNCHANGED <<store, net, leases, leasesMu, leaseDone, phase, keeper, obj>>

\* An error leaves the lease behind, and the key if the Put was applied.
RegisterPut(c) ==
  /\ At(c, "reg.put")
  /\ LET i == call[c].inst  l == call[c].lease  d == call[c].data
     IN \/ PutOK(Up, i, l, d) /\ Goto(c, "reg.save")
        \/ PutFails(Up, i, l, d) /\ Return(c)
  /\ UNCHANGED <<live, net, leases, leasesMu, leaseDone, phase, keeper, obj>>

RegisterSave(c) ==
  /\ At(c, "reg.save")
  /\ leasesMu = None
  /\ leases' = [leases EXCEPT ![IdOf[call[c].inst]] = call[c].lease]
  /\ Goto(c, "reg.keep")
  /\ UNCHANGED <<storeVars, leasesMu, leaseDone, phase, keeper, obj>>

\* keepAlive: the copy of the instance, the done channel, the goroutine.
RegisterKeep(c) ==
  /\ At(c, "reg.keep")
  /\ \E k \in Keeper :
       /\ ~Running(k)
       /\ keeper' = [keeper EXCEPT ![k] =
            [pc |-> "select", inst |-> call[c].inst, data |-> obj[call[c].inst],
             lease |-> call[c].lease, new |-> None, stop |-> FALSE]]
       /\ leaseDone' = [leaseDone EXCEPT ![IdOf[call[c].inst]] = k]
  /\ Return(c)
  /\ UNCHANGED <<storeVars, leases, leasesMu, phase, obj>>

----------------------------------------------------------------------------
(* Deregister                                                               *)

DeregisterCall(c, i) ==
  /\ MayDeregister(i)
  /\ Enter(c, "dereg.done", i)
  /\ UNCHANGED <<storeVars, leases, leasesMu, leaseDone, phase, keeper, obj>>

\* Mutant: the channel is closed and stays in leaseDone.
DeregisterDone_NoDelete(c) ==
  /\ At(c, "dereg.done")
  /\ LET k == leaseDone[IdOf[call[c].inst]]
     IN CloseDone({k})
  /\ Goto(c, "dereg.lock")
  /\ UNCHANGED <<storeVars, leases, leasesMu, leaseDone, phase, obj>>

\* Mutant: the channel leaves leaseDone and is not closed.
DeregisterDone_NoClose(c) ==
  /\ At(c, "dereg.done")
  /\ leaseDone' = [leaseDone EXCEPT ![IdOf[call[c].inst]] = None]
  /\ Goto(c, "dereg.lock")
  /\ UNCHANGED <<storeVars, leases, leasesMu, phase, keeper, obj>>

\* The critical section of leaseDoneMu: close(done), then delete.
DeregisterDone(c) ==
  /\ At(c, "dereg.done")
  /\ LET d == IdOf[call[c].inst]
     IN CloseDone({leaseDone[d]}) /\ leaseDone' = [leaseDone EXCEPT ![d] = None]
  /\ Goto(c, "dereg.lock")
  /\ UNCHANGED <<storeVars, leases, leasesMu, phase, obj>>

\* leasesMu is held over the Revoke request if there is a lease to revoke.
DeregisterLock(c) ==
  /\ At(c, "dereg.lock")
  /\ leasesMu = None
  /\ LET l == leases[IdOf[call[c].inst]]
     IN IF l = None
        THEN Goto(c, "dereg.delete") /\ UNCHANGED leasesMu
        ELSE /\ leasesMu' = c
             /\ GotoWith(c, "dereg.revoke", l, call[c].data)
  /\ UNCHANGED <<storeVars, leases, leaseDone, phase, keeper, obj>>

DeregisterRevoke(c) ==
  /\ At(c, "dereg.revoke")
  /\ Revoke(Up, call[c].lease)
  /\ leases' = [leases EXCEPT ![IdOf[call[c].inst]] = None]
  /\ leasesMu' = None
  /\ GotoWith(c, "dereg.delete", None, call[c].data)
  /\ UNCHANGED <<net, leaseDone, phase, keeper, obj>>

DeregisterDelete(c) ==
  /\ At(c, "dereg.delete")
  /\ DeleteKey(Up, call[c].inst)
  /\ Return(c)
  /\ UNCHANGED <<live, net, leases, leasesMu, leaseDone, phase, keeper, obj>>

----------------------------------------------------------------------------
(* UpdateStatus and UpdateMetadata (updateInstance), Heartbeat              *)

\* The instance is changed before it is known whether it is registered.
UpdateCall(c, i, d) ==
  /\ Enter(c, "upd.read", i)
  /\ obj' = [obj EXCEPT ![i] = d]
  /\ UNCHANGED <<storeVars, leases, leasesMu, leaseDone, phase, keeper>>

\* The lease is read under leasesMu, which is released before the Put.
UpdateRead(c) ==
  /\ At(c, "upd.read")
  /\ leasesMu = None
  /\ LET i == call[c].inst
     IN IF leases[IdOf[i]] = None
        THEN Return(c)
        ELSE GotoWith(c, "upd.put", leases[IdOf[i]], obj[i])
  /\ UNCHANGED <<storeVars, leases, leasesMu, leaseDone, phase, keeper, obj>>

UpdatePut(c) ==
  /\ At(c, "upd.put")
  /\ LET i == call[c].inst  l == call[c].lease  d == call[c].data
     IN PutOK(Up, i, l, d) \/ PutFails(Up, i, l, d)
  /\ Return(c)
  /\ UNCHANGED <<live, net, leases, leasesMu, leaseDone, phase, keeper, obj>>

\* The lease is read under leasesMu; without one the call returns an error.
HeartbeatCall(c, i) ==
  /\ leasesMu = None
  /\ leases[IdOf[i]] # None
  /\ At(c, "idle")
  /\ call' = [call EXCEPT ![c] = [pc |-> "beat.send", inst |-> i, data |-> InitData,
                                 lease |-> leases[IdOf[i]]]]
  /\ UNCHANGED <<storeVars, leases, leasesMu, leaseDone, phase, keeper, obj>>

\* KeepAliveOnce: renewed or not, nothing but the lease's clock changes, which
\* Renewed stands for.
HeartbeatSend(c) ==
  /\ At(c, "beat.send")
  /\ Return(c)
  /\ UNCHANGED <<storeVars, leases, leasesMu, leaseDone, phase, keeper, obj>>

----------------------------------------------------------------------------
(* Close                                                                    *)

\* Mutant: the map is set to nil, not made anew.
CloseCall_NilMap(c) ==
  /\ At(c, "idle")
  /\ Goto(c, "close.client")
  /\ CloseDone({leaseDone[d] : d \in Id})
  /\ leaseDone' = <<>>
  /\ phase' = IF phase = "open" THEN "stopping" ELSE phase
  /\ UNCHANGED <<storeVars, leases, leasesMu, obj>>

\* Every done channel in leaseDone is closed and the map replaced.
CloseCall(c) ==
  /\ At(c, "idle")
  /\ Goto(c, "close.client")
  /\ CloseDone({leaseDone[d] : d \in Id})
  /\ leaseDone' = [d \in Id |-> None]
  /\ phase' = IF phase = "open" THEN "stopping" ELSE phase
  /\ UNCHANGED <<storeVars, leases, leasesMu, obj>>

\* Mutant: the client stays open.
CloseClient_LeavesOpen(c) ==
  /\ At(c, "close.client")
  /\ Return(c)
  /\ UNCHANGED <<storeVars, leases, leasesMu, leaseDone, phase, keeper, obj>>

CloseClient(c) ==
  /\ At(c, "close.client")
  /\ phase' = "closed"
  /\ Return(c)
  /\ UNCHANGED <<storeVars, leases, leasesMu, leaseDone, keeper, obj>>

----------------------------------------------------------------------------
(* The keepAlive goroutine                                                  *)

\* Mutant: `break` for `return` leaves the select, not the loop.
KeeperExit_BreaksSelect(k) ==
  /\ KeeperAt(k, "select")
  /\ keeper[k].stop
  /\ UNCHANGED vars

\* A select with both channels ready picks either.
KeeperExit(k) ==
  /\ KeeperAt(k, "select")
  /\ keeper[k].stop
  /\ keeper' = [keeper EXCEPT ![k] = NoKeeper]
  /\ UNCHANGED <<storeVars, leases, leasesMu, leaseDone, phase, call, obj>>

\* Mutant: a failed KeepAliveOnce waits for the next tick.
KeeperTick_NoRefresh(k) ==
  /\ KeeperAt(k, "select")
  /\ Up /\ keeper[k].lease \in live /\ KeeperGoto(k, "get")
  /\ UNCHANGED <<storeVars, leases, leasesMu, leaseDone, phase, call, obj>>

\* The ticker: KeepAliveOnce of the current lease.
KeeperTick(k) ==
  /\ KeeperAt(k, "select")
  /\ \/ Up /\ keeper[k].lease \in live /\ KeeperGoto(k, "get")
     \/ (CanFail(Up) \/ keeper[k].lease \notin live) /\ KeeperGoto(k, "grant")
  /\ UNCHANGED <<storeVars, leases, leasesMu, leaseDone, phase, call, obj>>

\* instanceKeyExists
KeeperGet(k) ==
  /\ KeeperAt(k, "get")
  /\ \/ Up /\ Present(keeper[k].inst) /\ KeeperGoto(k, "select")
     \/ (CanFail(Up) \/ ~Present(keeper[k].inst)) /\ KeeperGoto(k, "grant")
  /\ UNCHANGED <<storeVars, leases, leasesMu, leaseDone, phase, call, obj>>

KeeperGrant(k) ==
  /\ KeeperAt(k, "grant")
  /\ \/ \E l \in Lease :
          /\ GrantOK(Up, l, UsedLeases)
          /\ KeeperGotoWith(k, "put", keeper[k].lease, l)
     \/ CanFail(Up) /\ KeeperGoto(k, "select") /\ UNCHANGED live
  /\ UNCHANGED <<store, net, leases, leasesMu, leaseDone, phase, call, obj>>

KeeperPut(k) ==
  /\ KeeperAt(k, "put")
  /\ LET i == keeper[k].inst  l == keeper[k].new  d == keeper[k].data
     IN \/ PutOK(Up, i, l, d) /\ KeeperGoto(k, "save")
        \/ /\ PutFails(Up, i, l, d)
           /\ KeeperGotoWith(k, "select", keeper[k].lease, None)
  /\ UNCHANGED <<live, net, leases, leasesMu, leaseDone, phase, call, obj>>

\* leases is written under leasesMu, then currentLeaseID.
KeeperSave(k) ==
  /\ KeeperAt(k, "save")
  /\ leasesMu = None
  /\ leases' = [leases EXCEPT ![IdOf[keeper[k].inst]] = keeper[k].new]
  /\ KeeperGotoWith(k, "select", keeper[k].new, None)
  /\ UNCHANGED <<storeVars, leasesMu, leaseDone, phase, call, obj>>

----------------------------------------------------------------------------
(* The environment                                                          *)

\* A lease somebody renews, or has just been granted to put a key under.
\* HeartbeatInterval (3 s) and the request timeouts (3 s, 5 s) are below the
\* default TTL (10 s), so that such a lease runs out only in a stall.  A lease
\* is renewed by its goroutine or by the application's Heartbeat; between two
\* Heartbeats more than a TTL may pass or not, so that an application that goes
\* on calling it may keep a lease alive for ever.
Renewed(l) ==
  /\ Up
  /\ \/ \E k \in Keeper : keeper[k].lease = l \/ keeper[k].new = l
     \/ \E c \in Caller :
          /\ call[c].lease = l
          /\ call[c].pc \in {"reg.put", "reg.save", "reg.keep", "beat.send"}

LeaseStalls(l) ==
  /\ net = "flaky"
  /\ RunOut(l)
  /\ UNCHANGED registryVars

LeaseAbandoned(l) ==
  /\ ~Renewed(l)
  /\ RunOut(l)
  /\ UNCHANGED registryVars

NetworkHeals == Stabilize /\ UNCHANGED registryVars

ProcessInit ==
  /\ leases = [d \in Id |-> None]
  /\ leasesMu = None
  /\ leaseDone = [d \in Id |-> None]
  /\ phase = "open"
  /\ keeper = [k \in Keeper |-> NoKeeper]
  /\ call = [c \in Caller |-> NoCall]
  /\ obj = [i \in Instance |-> InitData]

\* The process dies and a new one starts: etcd keeps the keys and the leases.
Restart ==
  /\ net = "flaky"
  /\ leases' = [d \in Id |-> None]
  /\ leasesMu' = None
  /\ leaseDone' = [d \in Id |-> None]
  /\ phase' = "open"
  /\ keeper' = [k \in Keeper |-> NoKeeper]
  /\ call' = [c \in Caller |-> NoCall]
  /\ obj' = [i \in Instance |-> InitData]
  /\ UNCHANGED storeVars

----------------------------------------------------------------------------

Init == StoreInit(MayFail) /\ ProcessInit

CallerStarts(c) ==
  \/ \E i \in Instance :
       \/ "Register" \in Methods /\ RegisterCall(c, i)
       \/ "Deregister" \in Methods /\ DeregisterCall(c, i)
       \/ "Update" \in Methods /\ \E d \in Data : UpdateCall(c, i, d)
       \/ "Heartbeat" \in Methods /\ HeartbeatCall(c, i)
  \/ "Close" \in Methods /\ CloseCall(c)

CallerSteps(c) ==
  \/ RegisterGrant(c) \/ RegisterPut(c) \/ RegisterSave(c) \/ RegisterKeep(c)
  \/ DeregisterDone(c) \/ DeregisterLock(c) \/ DeregisterRevoke(c)
  \/ DeregisterDelete(c)
  \/ UpdateRead(c) \/ UpdatePut(c) \/ HeartbeatSend(c)
  \/ CloseClient(c)

KeeperSteps(k) ==
  \/ KeeperTick(k) \/ KeeperGet(k) \/ KeeperGrant(k) \/ KeeperPut(k)
  \/ KeeperSave(k)

Environment ==
  \/ \E l \in Lease : LeaseStalls(l) \/ LeaseAbandoned(l)
  \/ NetworkHeals
  \/ Restart

Next ==
  \/ \E c \in Caller : CallerStarts(c) \/ CallerSteps(c)
  \/ \E k \in Keeper : KeeperExit(k) \/ KeeperSteps(k)
  \/ Environment

Spec == Init /\ [][Next]_vars

\* Goroutines are scheduled and requests end (each has a timeout, or a caller
\* that gives up); a select whose done channel stays ready picks it at last,
\* although the ticker is ready as well; etcd drops a lease nobody renews;
\* outages end.
Fairness ==
  /\ \A c \in Caller : WF_vars(CallerSteps(c))
  /\ \A k \in Keeper : WF_vars(KeeperSteps(k)) /\ SF_vars(KeeperExit(k))
  /\ \A l \in Lease : WF_vars(LeaseAbandoned(l))
  /\ WF_vars(NetworkHeals)

FairSpec == Spec /\ Fairness

----------------------------------------------------------------------------
(* Safety                                                                   *)

\* close(done) never hits a closed channel (Deregister line 85, Close line
\* 246): what leaseDone holds is an open channel of a goroutine that still
\* runs and keeps an instance of that ID, and no two IDs share a channel.
DoneChannelsOpen ==
  \A d \in Id : leaseDone[d] # None =>
    /\ Running(leaseDone[d])
    /\ ~keeper[leaseDone[d]].stop
    /\ IdOf[keeper[leaseDone[d]].inst] = d

\* The leases of an ID: what calls, goroutines and leases mention, and what its
\* keys are attached to.
CallUses(l, d) ==
  \E c \in Caller : call[c].inst # None /\ IdOf[call[c].inst] = d /\ call[c].lease = l

KeeperUses(l, d) ==
  \E k \in Keeper : /\ keeper[k].inst # None /\ IdOf[keeper[k].inst] = d
                    /\ l = keeper[k].lease \/ l = keeper[k].new

KeyUses(l, d) == \E i \in Instance : IdOf[i] = d /\ store[i].lease = l

UsedBy(l, d) == leases[d] = l \/ CallUses(l, d) \/ KeeperUses(l, d) \/ KeyUses(l, d)

\* A lease granted for one ID never serves another: in leases, in a goroutine,
\* in a call under way or in etcd.
LeasesHaveOneId ==
  \A l \in Lease : \A d, e \in Id : UsedBy(l, d) /\ UsedBy(l, e) => d = e

\* For an ID that the application registers only while it is not registered:
\* leaseDone reaches every goroutine that was not told to stop, so that
\* Deregister and Close do stop the renewal of what is registered.
KeepersReachable ==
  \A k \in Keeper :
    Running(k) /\ ~keeper[k].stop /\ IdOf[keeper[k].inst] \in SerialIds
      => leaseDone[IdOf[keeper[k].inst]] = k

\* Deregister has told every goroutine of the instance to stop, no call can put
\* its key, and nobody calls Heartbeat for its ID.
Withdrawn(i) ==
  /\ \A k \in Keeper : keeper[k].inst = i => keeper[k].stop
  /\ \A c \in Caller : call[c].inst = i =>
       call[c].pc \in {"dereg.done", "dereg.lock", "dereg.revoke", "dereg.delete"}
  /\ \A c \in Caller : call[c].inst # None /\ IdOf[call[c].inst] = IdOf[i] =>
       ~At(c, "beat.send")

----------------------------------------------------------------------------
(* Liveness                                                                 *)

Registered(i) ==
  \E k \in Keeper : leaseDone[IdOf[i]] = k /\ keeper[k].inst = i

\* Registered for good: the registry stays open, and nobody calls Deregister.
KeptRegistered(i) ==
  /\ Registered(i)
  /\ phase = "open"
  /\ \A c \in Caller : InLifecycle(c, IdOf[i]) => InRegister(c)

Updating(i) == \E c \in Caller : call[c].inst = i /\ call[c].pc \in {"upd.read", "upd.put"}

\* An instance that is kept registered is never away from etcd for good:
\* keepAlive puts it again after any number of lost leases, failed requests
\* and outages (lines 342-356).  Once no update overlaps a refresh any more
\* (such an update moves the key to the lease the refresh replaces) it stays.
SelfHeal ==
  \A i \in Instance :
    /\ <>[]KeptRegistered(i) => []<>Present(i)
    /\ <>[](KeptRegistered(i) /\ ~Updating(i)) => <>[]Present(i)

\* Deregister takes effect at last: although a refresh under way can put the
\* key again and store its lease anew (line 305), an instance whose goroutines
\* were told to stop leaves etcd for good, for the goroutines exit and nobody
\* renews the lease.  An application must have stopped its Heartbeats too: they
\* renew whatever lease is stored (line 172), and the key would stay.
WithdrawalHolds ==
  \A i \in Instance : <>[]Withdrawn(i) => <>[]~Present(i)

\* After Close every key of the process leaves etcd, those of a registration
\* whose goroutine Close cannot reach included.
CloseReleases == <>[](phase # "open") => <>[](\A i \in Instance : ~Present(i))
============================================================================
