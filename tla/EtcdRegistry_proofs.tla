------------------------- MODULE EtcdRegistry_proofs -------------------------
(***************************************************************************)
(* Theorems about EtcdRegistry for any number of instances, IDs, callers,   *)
(* goroutines and leases, and about the keys of RegistryKeys for any names.  *)
(***************************************************************************)
EXTENDS RegistryKeys, FiniteSetTheorems, TLAPS

\* A method that is under way knows its instance, and so does a goroutine.
CallsHaveInstance ==
  \A c \in Caller :
    call[c].pc \notin {"idle", "close.client"} => call[c].inst \in Instance

KeepersHaveInstance ==
  \A k \in Keeper : keeper[k].pc # "off" => keeper[k].inst \in Instance

Typed == TypeOK /\ CallsHaveInstance /\ KeepersHaveInstance

USE StoreAssumption, RegistryAssumption

----------------------------------------------------------------------------
(* What the helpers do to the records of a call and of a goroutine.         *)

LEMMA EnterStep ==
  ASSUME call \in [Caller -> CallState], CallsHaveInstance,
         NEW c \in Caller, NEW pc \in CallPc, NEW i \in Instance, Enter(c, pc, i)
  PROVE  /\ call' \in [Caller -> CallState] /\ CallsHaveInstance'
         /\ call[c].pc = "idle"
         /\ call'[c].pc = pc /\ call'[c].inst = i /\ call'[c].lease = None
         /\ \A b \in Caller \ {c} : call'[b] = call[b]
BY DEF Enter, At, CallState, CallsHaveInstance

LEMMA ReturnStep ==
  ASSUME call \in [Caller -> CallState], CallsHaveInstance,
         NEW c \in Caller, Return(c)
  PROVE  /\ call' \in [Caller -> CallState] /\ CallsHaveInstance'
         /\ call'[c].pc = "idle" /\ call'[c].inst = None /\ call'[c].lease = None
         /\ \A b \in Caller \ {c} : call'[b] = call[b]
BY DEF Return, CallState, NoCall, CallPc, CallsHaveInstance

LEMMA GotoWithStep ==
  ASSUME call \in [Caller -> CallState], CallsHaveInstance,
         NEW c \in Caller, NEW pc \in CallPc, call[c].inst \in Instance,
         NEW l \in Lease \cup {None}, NEW d \in Data, GotoWith(c, pc, l, d)
  PROVE  /\ call' \in [Caller -> CallState] /\ CallsHaveInstance'
         /\ call'[c].pc = pc /\ call'[c].inst = call[c].inst /\ call'[c].lease = l
         /\ \A b \in Caller \ {c} : call'[b] = call[b]
BY DEF GotoWith, CallState, CallsHaveInstance

LEMMA GotoStep ==
  ASSUME call \in [Caller -> CallState], CallsHaveInstance,
         NEW c \in Caller, NEW pc \in CallPc, Goto(c, pc),
         pc = "close.client" \/ call[c].inst \in Instance
  PROVE  /\ call' \in [Caller -> CallState] /\ CallsHaveInstance'
         /\ call'[c].pc = pc /\ call'[c].inst = call[c].inst
         /\ call'[c].lease = call[c].lease
         /\ \A b \in Caller \ {c} : call'[b] = call[b]
BY DEF Goto, GotoWith, CallState, CallsHaveInstance

LEMMA KeeperGotoWithStep ==
  ASSUME keeper \in [Keeper -> KeeperState], KeepersHaveInstance,
         NEW k \in Keeper, NEW pc \in KeeperPc, keeper[k].inst \in Instance,
         NEW l \in Lease \cup {None}, NEW n \in Lease \cup {None},
         KeeperGotoWith(k, pc, l, n)
  PROVE  /\ keeper' \in [Keeper -> KeeperState] /\ KeepersHaveInstance'
         /\ keeper'[k].pc = pc /\ keeper'[k].lease = l /\ keeper'[k].new = n
         /\ keeper'[k].inst = keeper[k].inst /\ keeper'[k].stop = keeper[k].stop
         /\ \A j \in Keeper \ {k} : keeper'[j] = keeper[j]
BY DEF KeeperGotoWith, KeeperState, KeepersHaveInstance

LEMMA KeeperGotoStep ==
  ASSUME keeper \in [Keeper -> KeeperState], KeepersHaveInstance,
         NEW k \in Keeper, NEW pc \in KeeperPc, keeper[k].inst \in Instance,
         KeeperGoto(k, pc)
  PROVE  /\ keeper' \in [Keeper -> KeeperState] /\ KeepersHaveInstance'
         /\ keeper'[k].pc = pc /\ keeper'[k].inst = keeper[k].inst
         /\ keeper'[k].lease = keeper[k].lease /\ keeper'[k].new = keeper[k].new
         /\ keeper'[k].stop = keeper[k].stop
         /\ \A j \in Keeper \ {k} : keeper'[j] = keeper[j]
BY DEF KeeperGoto, KeeperGotoWith, KeeperState, KeepersHaveInstance

LEMMA CloseDoneStep ==
  ASSUME keeper \in [Keeper -> KeeperState], KeepersHaveInstance,
         NEW ks, CloseDone(ks)
  PROVE  /\ keeper' \in [Keeper -> KeeperState] /\ KeepersHaveInstance'
         /\ \A k \in Keeper :
              /\ keeper'[k].pc = keeper[k].pc /\ keeper'[k].inst = keeper[k].inst
              /\ keeper'[k].lease = keeper[k].lease /\ keeper'[k].new = keeper[k].new
              /\ k \in ks => keeper'[k].stop
              /\ k \notin ks => keeper'[k] = keeper[k]
<1>1. ASSUME NEW k \in Keeper
      PROVE  keeper'[k] = IF k \in ks THEN [keeper[k] EXCEPT !.stop = TRUE] ELSE keeper[k]
  BY <1>1 DEF CloseDone
<1>2. ASSUME NEW k \in Keeper
      PROVE  /\ keeper'[k] \in KeeperState
             /\ keeper'[k].pc = keeper[k].pc /\ keeper'[k].inst = keeper[k].inst
             /\ keeper'[k].lease = keeper[k].lease /\ keeper'[k].new = keeper[k].new
             /\ k \in ks => keeper'[k].stop
             /\ k \notin ks => keeper'[k] = keeper[k]
  BY <1>1, <1>2 DEF KeeperState
<1>3. keeper' = [k \in Keeper |-> keeper'[k]]
  BY DEF CloseDone
<1> QED BY <1>2, <1>3 DEF KeepersHaveInstance

LEMMA Pcs == /\ CallPc = {"idle", "reg.grant", "reg.put", "reg.save", "reg.keep",
                   "dereg.done", "dereg.lock", "dereg.revoke", "dereg.delete",
                   "upd.read", "upd.put", "beat.send", "close.client"}
             /\ KeeperPc = {"off", "select", "get", "grant", "put", "save"}
BY DEF CallPc, KeeperPc

----------------------------------------------------------------------------
(* Type correctness                                                         *)

LEMMA TypedInit == Init => Typed
BY Pcs DEF Init, StoreInit, ProcessInit, Typed, TypeOK, StoreTypeOK,
           CallsHaveInstance, KeepersHaveInstance, NoKeeper, NoCall, KeeperState,
           CallState, Absent, Entry

\* The requests keep the store well-typed.
LEMMA RequestsTyped ==
  ASSUME StoreTypeOK, NEW up, NEW i \in Instance, NEW l, NEW d \in Data
  PROVE  /\ \A u : GrantOK(up, l, u) => live' \subseteq Lease /\ l \in Lease
         /\ PutOK(up, i, l, d) => store' \in [Instance -> Entry] /\ l \in Lease
         /\ PutFails(up, i, l, d) => store' \in [Instance -> Entry]
         /\ Revoke(up, l) =>
              live' \subseteq Lease /\ store' \in [Instance -> Entry]
         /\ DeleteKey(up, i) => store' \in [Instance -> Entry]
         /\ RunOut(l) => live' \subseteq Lease /\ store' \in [Instance -> Entry]
BY DEF StoreTypeOK, Entry, Absent, GrantOK, PutOK, PutFails, PutApplied, Revoke,
       WithoutKeysOf, DeleteKey, RunOut

LEMMA TypedStep == Typed /\ [Next]_vars => Typed'
<1> SUFFICES ASSUME Typed, [Next]_vars PROVE Typed'
  OBVIOUS
<1> USE DEF Typed, TypeOK
<1> USE DEF storeVars, At, KeeperAt
<1>t. \A c \in Caller : call[c].pc \in CallPc /\ call[c].lease \in Lease \cup {None}
                       /\ call[c].data \in Data
  BY DEF CallState
<1>k. \A k \in Keeper : /\ keeper[k].pc \in KeeperPc /\ keeper[k].data \in Data
                       /\ keeper[k].lease \in Lease \cup {None}
                       /\ keeper[k].new \in Lease \cup {None}
  BY DEF KeeperState
<1>1. ASSUME NEW c \in Caller, NEW i \in Instance, RegisterCall(c, i) PROVE Typed'
  <2>1. Enter(c, "reg.grant", i) /\ "reg.grant" \in CallPc
    BY <1>1, Pcs DEF RegisterCall
  <2> QED BY <1>1, <2>1, EnterStep DEF RegisterCall, StoreTypeOK, KeepersHaveInstance
<1>2. ASSUME NEW c \in Caller, RegisterGrant(c) PROVE Typed'
  <2>1. call[c].inst \in Instance /\ "reg.put" \in CallPc
    BY <1>2, Pcs DEF RegisterGrant, CallsHaveInstance
  <2>2. CASE \E l \in Lease : GrantOK(Up, l, UsedLeases)
                             /\ GotoWith(c, "reg.put", l, obj[call[c].inst])
    BY <1>2, <2>1, <2>2, GotoWithStep, RequestsTyped
       DEF RegisterGrant, StoreTypeOK, KeepersHaveInstance
  <2>3. CASE Return(c) /\ UNCHANGED live
    BY <1>2, <2>3, ReturnStep DEF RegisterGrant, StoreTypeOK, KeepersHaveInstance
  <2> QED BY <1>2, <2>2, <2>3 DEF RegisterGrant
<1>3. ASSUME NEW c \in Caller, RegisterPut(c) PROVE Typed'
  <2>1. call[c].inst \in Instance /\ "reg.save" \in CallPc
    BY <1>3, Pcs DEF RegisterPut, CallsHaveInstance
  <2>2. store' \in [Instance -> Entry]
    BY <1>3, <1>t, <2>1, RequestsTyped DEF RegisterPut
  <2>3. Goto(c, "reg.save") \/ Return(c)
    BY <1>3 DEF RegisterPut
  <2> QED BY <1>3, <2>1, <2>2, <2>3, GotoStep, ReturnStep
          DEF RegisterPut, StoreTypeOK, KeepersHaveInstance
<1>4. ASSUME NEW c \in Caller, RegisterSave(c) PROVE Typed'
  <2>1. call[c].inst \in Instance /\ "reg.keep" \in CallPc
    BY <1>4, Pcs DEF RegisterSave, CallsHaveInstance
  <2>2. leases' \in [Id -> Lease \cup {None}]
    BY <1>4, <1>t DEF RegisterSave
  <2>3. Goto(c, "reg.keep")
    BY <1>4 DEF RegisterSave
  <2> QED BY <1>4, <2>1, <2>2, <2>3, GotoStep
          DEF RegisterSave, StoreTypeOK, KeepersHaveInstance
<1>5. ASSUME NEW c \in Caller, RegisterKeep(c) PROVE Typed'
  <2>1. call[c].inst \in Instance
    BY <1>5, Pcs DEF RegisterKeep, CallsHaveInstance
  <2>2. PICK k \in Keeper :
          /\ keeper' = [keeper EXCEPT ![k] =
               [pc |-> "select", inst |-> call[c].inst, data |-> obj[call[c].inst],
                lease |-> call[c].lease, new |-> None, stop |-> FALSE]]
          /\ leaseDone' = [leaseDone EXCEPT ![IdOf[call[c].inst]] = k]
    BY <1>5 DEF RegisterKeep
  <2>3. keeper' \in [Keeper -> KeeperState] /\ KeepersHaveInstance'
    BY <1>5, <1>t, <2>1, <2>2, Pcs DEF RegisterKeep, KeeperState, KeepersHaveInstance
  <2>4. Return(c)
    BY <1>5 DEF RegisterKeep
  <2> QED BY <1>5, <2>2, <2>3, <2>4, ReturnStep DEF RegisterKeep, StoreTypeOK
<1>6. ASSUME NEW c \in Caller, NEW i \in Instance, DeregisterCall(c, i) PROVE Typed'
  <2>1. Enter(c, "dereg.done", i) /\ "dereg.done" \in CallPc
    BY <1>6, Pcs DEF DeregisterCall
  <2> QED BY <1>6, <2>1, EnterStep DEF DeregisterCall, StoreTypeOK, KeepersHaveInstance
<1>7. ASSUME NEW c \in Caller, DeregisterDone(c) PROVE Typed'
  <2>1. call[c].inst \in Instance /\ "dereg.lock" \in CallPc
    BY <1>7, Pcs DEF DeregisterDone, CallsHaveInstance
  <2>2. /\ CloseDone({leaseDone[IdOf[call[c].inst]]}) /\ Goto(c, "dereg.lock")
        /\ leaseDone' = [leaseDone EXCEPT ![IdOf[call[c].inst]] = None]
    BY <1>7 DEF DeregisterDone
  <2> QED BY <1>7, <2>1, <2>2, GotoStep, CloseDoneStep DEF DeregisterDone, StoreTypeOK
<1>8. ASSUME NEW c \in Caller, DeregisterLock(c) PROVE Typed'
  <2>1. /\ call[c].inst \in Instance
        /\ "dereg.delete" \in CallPc /\ "dereg.revoke" \in CallPc
    BY <1>8, Pcs DEF DeregisterLock, CallsHaveInstance
  <2>2. leases[IdOf[call[c].inst]] \in Lease \cup {None}
    BY <2>1
  <2>3. \/ Goto(c, "dereg.delete") /\ UNCHANGED leasesMu
        \/ leasesMu' = c /\ GotoWith(c, "dereg.revoke", leases[IdOf[call[c].inst]],
                                    call[c].data)
    BY <1>8 DEF DeregisterLock
  <2> QED BY <1>8, <1>t, <2>1, <2>2, <2>3, GotoStep, GotoWithStep
          DEF DeregisterLock, StoreTypeOK, KeepersHaveInstance
<1>9. ASSUME NEW c \in Caller, DeregisterRevoke(c) PROVE Typed'
  <2>1. call[c].inst \in Instance /\ "dereg.delete" \in CallPc
    BY <1>9, Pcs DEF DeregisterRevoke, CallsHaveInstance
  <2>2. live' \subseteq Lease /\ store' \in [Instance -> Entry]
    BY <1>9, <1>t, <2>1, RequestsTyped DEF DeregisterRevoke, StoreTypeOK
  <2>3. /\ GotoWith(c, "dereg.delete", None, call[c].data)
        /\ leases' = [leases EXCEPT ![IdOf[call[c].inst]] = None] /\ leasesMu' = None
    BY <1>9 DEF DeregisterRevoke
  <2> QED BY <1>9, <1>t, <2>1, <2>2, <2>3, GotoWithStep
          DEF DeregisterRevoke, StoreTypeOK, KeepersHaveInstance
<1>10. ASSUME NEW c \in Caller, DeregisterDelete(c) PROVE Typed'
  <2>1. call[c].inst \in Instance
    BY <1>10, Pcs DEF DeregisterDelete, CallsHaveInstance
  <2>2. store' \in [Instance -> Entry] /\ Return(c)
    BY <1>10, <1>t, <2>1, RequestsTyped DEF DeregisterDelete
  <2> QED BY <1>10, <2>2, ReturnStep DEF DeregisterDelete, StoreTypeOK, KeepersHaveInstance
<1>11. ASSUME NEW c \in Caller, NEW i \in Instance, NEW d \in Data, UpdateCall(c, i, d)
       PROVE Typed'
  <2>1. Enter(c, "upd.read", i) /\ "upd.read" \in CallPc /\ obj' \in [Instance -> Data]
    BY <1>11, Pcs DEF UpdateCall
  <2> QED BY <1>11, <2>1, EnterStep DEF UpdateCall, StoreTypeOK, KeepersHaveInstance
<1>12. ASSUME NEW c \in Caller, UpdateRead(c) PROVE Typed'
  <2>1. call[c].inst \in Instance /\ "upd.put" \in CallPc
    BY <1>12, Pcs DEF UpdateRead, CallsHaveInstance
  <2>2. leases[IdOf[call[c].inst]] \in Lease \cup {None} /\ obj[call[c].inst] \in Data
    BY <2>1
  <2>3. \/ Return(c)
        \/ GotoWith(c, "upd.put", leases[IdOf[call[c].inst]], obj[call[c].inst])
    BY <1>12 DEF UpdateRead
  <2> QED BY <1>12, <2>1, <2>2, <2>3, GotoWithStep, ReturnStep
          DEF UpdateRead, StoreTypeOK, KeepersHaveInstance
<1>13. ASSUME NEW c \in Caller, UpdatePut(c) PROVE Typed'
  <2>1. call[c].inst \in Instance
    BY <1>13, Pcs DEF UpdatePut, CallsHaveInstance
  <2>2. store' \in [Instance -> Entry] /\ Return(c)
    BY <1>13, <1>t, <2>1, RequestsTyped DEF UpdatePut
  <2> QED BY <1>13, <2>2, ReturnStep DEF UpdatePut, StoreTypeOK, KeepersHaveInstance
<1>14. ASSUME NEW c \in Caller, NEW i \in Instance, HeartbeatCall(c, i) PROVE Typed'
  <2>1. call' = [call EXCEPT ![c] = [pc |-> "beat.send", inst |-> i, data |-> InitData,
                                     lease |-> leases[IdOf[i]]]]
    BY <1>14 DEF HeartbeatCall
  <2>2. leases[IdOf[i]] \in Lease \cup {None} /\ InitData \in Data /\ i # None
    BY StoreAssumption, RegistryAssumption
  <2>3. call' \in [Caller -> CallState] /\ CallsHaveInstance'
    BY <2>1, <2>2, Pcs DEF CallState, CallsHaveInstance
  <2> QED BY <1>14, <2>3 DEF HeartbeatCall, StoreTypeOK, KeepersHaveInstance
<1>16. ASSUME NEW c \in Caller, HeartbeatSend(c) PROVE Typed'
  BY <1>16, ReturnStep DEF HeartbeatSend, StoreTypeOK, KeepersHaveInstance
<1>17. ASSUME NEW c \in Caller, CloseCall(c) PROVE Typed'
  <2>1. /\ Goto(c, "close.client") /\ "close.client" \in CallPc
        /\ CloseDone({leaseDone[d] : d \in Id}) /\ leaseDone' = [d \in Id |-> None]
        /\ phase' \in {"stopping", "closed"}
    BY <1>17, Pcs DEF CloseCall
  <2> QED BY <1>17, <2>1, GotoStep, CloseDoneStep DEF CloseCall, StoreTypeOK
<1>18. ASSUME NEW c \in Caller, CloseClient(c) PROVE Typed'
  BY <1>18, ReturnStep DEF CloseClient, StoreTypeOK, KeepersHaveInstance
<1>19. ASSUME NEW k \in Keeper, KeeperExit(k) PROVE Typed'
  <2>1. keeper' \in [Keeper -> KeeperState] /\ KeepersHaveInstance'
    BY <1>19, Pcs DEF KeeperExit, NoKeeper, KeeperState, KeepersHaveInstance
  <2> QED BY <1>19, <2>1 DEF KeeperExit, StoreTypeOK, CallsHaveInstance
<1>20. ASSUME NEW k \in Keeper, KeeperTick(k) \/ KeeperGet(k) PROVE Typed'
  <2>1. /\ keeper[k].inst \in Instance
        /\ KeeperGoto(k, "get") \/ KeeperGoto(k, "grant") \/ KeeperGoto(k, "select")
        /\ {"get", "grant", "select"} \subseteq KeeperPc
    BY <1>20, Pcs DEF KeeperTick, KeeperGet, KeepersHaveInstance
  <2> QED BY <1>20, <2>1, KeeperGotoStep
          DEF KeeperTick, KeeperGet, StoreTypeOK, CallsHaveInstance
<1>21. ASSUME NEW k \in Keeper, KeeperGrant(k) PROVE Typed'
  <2>1. keeper[k].inst \in Instance /\ "put" \in KeeperPc /\ "select" \in KeeperPc
    BY <1>21, Pcs DEF KeeperGrant, KeepersHaveInstance
  <2>2. CASE \E l \in Lease : GrantOK(Up, l, UsedLeases)
                             /\ KeeperGotoWith(k, "put", keeper[k].lease, l)
    BY <1>21, <1>k, <2>1, <2>2, KeeperGotoWithStep, RequestsTyped
       DEF KeeperGrant, StoreTypeOK, CallsHaveInstance
  <2>3. CASE KeeperGoto(k, "select") /\ UNCHANGED live
    BY <1>21, <2>1, <2>3, KeeperGotoStep DEF KeeperGrant, StoreTypeOK, CallsHaveInstance
  <2> QED BY <1>21, <2>2, <2>3 DEF KeeperGrant
<1>22. ASSUME NEW k \in Keeper, KeeperPut(k) PROVE Typed'
  <2>1. keeper[k].inst \in Instance /\ "save" \in KeeperPc /\ "select" \in KeeperPc
    BY <1>22, Pcs DEF KeeperPut, KeepersHaveInstance
  <2>2. store' \in [Instance -> Entry]
    BY <1>22, <1>k, <2>1, RequestsTyped DEF KeeperPut
  <2>3. KeeperGoto(k, "save") \/ KeeperGotoWith(k, "select", keeper[k].lease, None)
    BY <1>22 DEF KeeperPut
  <2> QED BY <1>22, <1>k, <2>1, <2>2, <2>3, KeeperGotoStep, KeeperGotoWithStep
          DEF KeeperPut, StoreTypeOK, CallsHaveInstance
<1>23. ASSUME NEW k \in Keeper, KeeperSave(k) PROVE Typed'
  <2>1. keeper[k].inst \in Instance /\ "select" \in KeeperPc
    BY <1>23, Pcs DEF KeeperSave, KeepersHaveInstance
  <2>2. /\ leases' \in [Id -> Lease \cup {None}]
        /\ KeeperGotoWith(k, "select", keeper[k].new, None)
    BY <1>23, <1>k DEF KeeperSave
  <2> QED BY <1>23, <1>k, <2>1, <2>2, KeeperGotoWithStep
          DEF KeeperSave, StoreTypeOK, CallsHaveInstance
<1>24. ASSUME NEW l \in Lease, LeaseStalls(l) \/ LeaseAbandoned(l) PROVE Typed'
  <2>1. RunOut(l) /\ UNCHANGED registryVars /\ UNCHANGED net
    BY <1>24 DEF LeaseStalls, LeaseAbandoned, RunOut
  <2>2. live' \subseteq Lease /\ store' \in [Instance -> Entry]
    BY <2>1 DEF RunOut, WithoutKeysOf, Entry, Absent, StoreTypeOK
  <2> QED BY <2>1, <2>2 DEF registryVars, StoreTypeOK, CallsHaveInstance, KeepersHaveInstance
<1>25. CASE NetworkHeals
  BY <1>25 DEF NetworkHeals, Stabilize, registryVars, StoreTypeOK, CallsHaveInstance,
               KeepersHaveInstance
<1>26. CASE Restart
  BY <1>26, Pcs DEF Restart, StoreTypeOK, CallsHaveInstance, KeepersHaveInstance,
                    NoKeeper, NoCall, KeeperState, CallState
<1>27. CASE UNCHANGED vars
  BY <1>27 DEF vars, StoreTypeOK, CallsHaveInstance, KeepersHaveInstance
<1> QED
  BY <1>1, <1>2, <1>3, <1>4, <1>5, <1>6, <1>7, <1>8, <1>9, <1>10, <1>11, <1>12,
     <1>13, <1>14, <1>16, <1>17, <1>18, <1>19, <1>20, <1>21, <1>22, <1>23,
     <1>24, <1>25, <1>26, <1>27
     DEF Next, CallerStarts, CallerSteps, KeeperSteps, Environment

\* Every variable keeps its type, for any number of callers, instances and leases.
THEOREM TypeCorrect == Spec => []TypeOK
<1>1. Typed => TypeOK
  BY DEF Typed
<1> QED BY <1>1, TypedInit, TypedStep, PTL DEF Spec

----------------------------------------------------------------------------
(* The done channels                                                        *)

\* Which steps touch leaseDone, or the fields of a goroutine it depends on.
LEMMA KeeperFrame ==
  ASSUME Typed, [Next]_vars
  PROVE  \/ \E c \in Caller : RegisterKeep(c) \/ DeregisterDone(c) \/ CloseCall(c)
         \/ \E k \in Keeper : KeeperExit(k)
         \/ Restart
         \/ /\ UNCHANGED leaseDone
            /\ \A j \in Keeper : /\ Running(j)' <=> Running(j)
                                /\ keeper'[j].inst = keeper[j].inst
                                /\ keeper'[j].stop = keeper[j].stop
<1> DEFINE Same == \A j \in Keeper : /\ Running(j)' <=> Running(j)
                                     /\ keeper'[j].inst = keeper[j].inst
                                     /\ keeper'[j].stop = keeper[j].stop
<1>1. CASE UNCHANGED <<leaseDone, keeper>>
  BY <1>1 DEF Running
<1>2. ASSUME NEW k \in Keeper, KeeperSteps(k) PROVE Same /\ UNCHANGED leaseDone
  <2>1. /\ keeper[k].inst \in Instance /\ keeper[k].pc # "off"
        /\ keeper[k].lease \in Lease \cup {None} /\ keeper[k].new \in Lease \cup {None}
    BY <1>2 DEF KeeperSteps, KeeperTick, KeeperGet, KeeperGrant, KeeperPut, KeeperSave,
                KeeperAt, Typed, TypeOK, KeepersHaveInstance, KeeperState
  <2>2. PICK pc \in KeeperPc \ {"off"}, l \in Lease \cup {None}, n \in Lease \cup {None} :
          KeeperGotoWith(k, pc, l, n)
    BY <1>2, <2>1, Pcs DEF KeeperSteps, KeeperTick, KeeperGet, KeeperGrant, KeeperPut,
                           KeeperSave, KeeperGoto
  <2>3. UNCHANGED leaseDone
    BY <1>2 DEF KeeperSteps, KeeperTick, KeeperGet, KeeperGrant, KeeperPut, KeeperSave
  <2> QED BY <2>1, <2>2, <2>3, KeeperGotoWithStep DEF Typed, TypeOK, Running
<1>3. ASSUME ~(UNCHANGED <<leaseDone, keeper>>)
      PROVE  \/ \E c \in Caller : RegisterKeep(c) \/ DeregisterDone(c) \/ CloseCall(c)
             \/ \E k \in Keeper : KeeperExit(k) \/ KeeperSteps(k)
             \/ Restart
  BY <1>3 DEF Next, CallerStarts, CallerSteps, Environment, vars, registryVars,
     RegisterCall, RegisterGrant, RegisterPut, RegisterSave, DeregisterCall,
     DeregisterLock, DeregisterRevoke, DeregisterDelete, UpdateCall, UpdateRead,
     UpdatePut, HeartbeatCall, HeartbeatSend, CloseClient,
     LeaseStalls, LeaseAbandoned, NetworkHeals
<1> QED BY <1>1, <1>2, <1>3

LEMMA DoneStep == Typed /\ DoneChannelsOpen /\ [Next]_vars => DoneChannelsOpen'
<1> SUFFICES ASSUME Typed, DoneChannelsOpen, [Next]_vars PROVE DoneChannelsOpen'
  OBVIOUS
<1> USE DEF Typed, TypeOK, DoneChannelsOpen, Running
<1>1. ASSUME NEW c \in Caller, RegisterKeep(c) PROVE DoneChannelsOpen'
  <2>1. call[c].inst \in Instance
    BY <1>1 DEF RegisterKeep, At, CallsHaveInstance
  <2>2. PICK k \in Keeper :
          /\ keeper[k].pc = "off"
          /\ keeper' = [keeper EXCEPT ![k] =
               [pc |-> "select", inst |-> call[c].inst, data |-> obj[call[c].inst],
                lease |-> call[c].lease, new |-> None, stop |-> FALSE]]
          /\ leaseDone' = [leaseDone EXCEPT ![IdOf[call[c].inst]] = k]
    BY <1>1 DEF RegisterKeep
  <2>3. \A d \in Id : leaseDone[d] # k
    BY <2>2
  <2> QED BY <2>1, <2>2, <2>3
<1>2. ASSUME NEW c \in Caller, DeregisterDone(c) PROVE DoneChannelsOpen'
  <2> DEFINE e == IdOf[call[c].inst]
  <2>1. e \in Id /\ CloseDone({leaseDone[e]}) /\ leaseDone' = [leaseDone EXCEPT ![e] = None]
    BY <1>2 DEF DeregisterDone, At, CallsHaveInstance
  <2>2. \A d \in Id \ {e} : leaseDone[d] # None => leaseDone[d] \notin {leaseDone[e]}
    BY <2>1
  <2> HIDE DEF e
  <2> QED BY <2>1, <2>2, CloseDoneStep
<1>3. ASSUME NEW c \in Caller, CloseCall(c) PROVE DoneChannelsOpen'
  BY <1>3 DEF CloseCall
<1>4. ASSUME NEW k \in Keeper, KeeperExit(k) PROVE DoneChannelsOpen'
  BY <1>4 DEF KeeperExit
<1>5. CASE Restart
  BY <1>5 DEF Restart
<1>6. CASE /\ UNCHANGED leaseDone
           /\ \A j \in Keeper : /\ Running(j)' <=> Running(j)
                               /\ keeper'[j].inst = keeper[j].inst
                               /\ keeper'[j].stop = keeper[j].stop
  BY <1>6
<1> QED BY <1>1, <1>2, <1>3, <1>4, <1>5, <1>6, KeeperFrame

\* close(done) never panics, however Register, Deregister and Close overlap.
THEOREM DoneChannelsSafe == Spec => []DoneChannelsOpen
<1>1. Init => DoneChannelsOpen
  BY DEF Init, ProcessInit, DoneChannelsOpen
<1> QED BY <1>1, TypedInit, TypedStep, DoneStep, PTL DEF Spec

----------------------------------------------------------------------------
(* An application that serialises Register and Deregister of an ID          *)

\* An ID has at most one Register or Deregister under way, and while it is
\* Register no channel of the ID is in leaseDone that it would overwrite.
OneLifecycleCall ==
  \A c \in Caller : \A d \in SerialIds : InLifecycle(c, d) =>
    /\ \A b \in Caller : InLifecycle(b, d) => b = c
    /\ InRegister(c) => leaseDone[d] = None

\* But for the two calls themselves, a step begins no Register or Deregister.
LEMMA LifecycleFrame ==
  ASSUME Typed, [Next]_vars
  PROVE  \/ \E c \in Caller, i \in Instance : RegisterCall(c, i) \/ DeregisterCall(c, i)
         \/ \A b \in Caller : \A d \in Id :
              InLifecycle(b, d)' => /\ InLifecycle(b, d)
                                    /\ InRegister(b)' => InRegister(b)
<1> DEFINE Fades(b) == \A d \in Id :
             InLifecycle(b, d)' => InLifecycle(b, d) /\ (InRegister(b)' => InRegister(b))
<1> USE DEF Typed, TypeOK, InLifecycle, InRegister, At
<1>1. ASSUME NEW c \in Caller, UNCHANGED call \/ Return(c)
      PROVE  \A b \in Caller : Fades(b)
  BY <1>1, ReturnStep
<1>2. ASSUME NEW c \in Caller, NEW pc \in CallPc, NEW l, NEW d, GotoWith(c, pc, l, d),
             \/ pc \in {"upd.put", "beat.send", "close.client"}
             \/ InRegister(c) /\ pc \in {"reg.put", "reg.save", "reg.keep"}
             \/ /\ call[c].pc \in {"dereg.done", "dereg.lock", "dereg.revoke"}
                /\ pc \in {"dereg.lock", "dereg.revoke", "dereg.delete"}
      PROVE  \A b \in Caller : Fades(b)
  BY <1>2 DEF GotoWith
<1>3. ASSUME NEW c \in Caller, NEW i \in Instance, Enter(c, "upd.read", i)
      PROVE  \A b \in Caller : Fades(b)
  BY <1>3, EnterStep, Pcs
<1>h. ASSUME NEW c \in Caller, NEW i \in Instance, HeartbeatCall(c, i)
      PROVE  \A b \in Caller : Fades(b)
  BY <1>h DEF HeartbeatCall
<1>4. ASSUME NEW c \in Caller, CallerSteps(c) PROVE \A b \in Caller : Fades(b)
  BY <1>1, <1>2, <1>4, Pcs
     DEF CallerSteps, Goto, RegisterGrant, RegisterPut, RegisterSave, RegisterKeep,
         DeregisterDone, DeregisterLock, DeregisterRevoke, DeregisterDelete,
         UpdateRead, UpdatePut, HeartbeatSend, CloseClient
<1>5. ASSUME NEW c \in Caller, CallerStarts(c),
             ~ \E i \in Instance : RegisterCall(c, i) \/ DeregisterCall(c, i)
      PROVE  \A b \in Caller : Fades(b)
  BY <1>2, <1>3, <1>h, <1>5, Pcs DEF CallerStarts, UpdateCall, CloseCall, Goto
<1>6. CASE Restart
  BY <1>6 DEF Restart, NoCall
<1>7. CASE UNCHANGED call
  BY <1>7
<1>8. ASSUME ~(UNCHANGED call)
      PROVE  (\E c \in Caller : CallerStarts(c) \/ CallerSteps(c)) \/ Restart
  BY <1>8 DEF Next, Environment, vars, registryVars, KeeperExit, KeeperSteps,
     KeeperTick, KeeperGet, KeeperGrant, KeeperPut, KeeperSave,
     LeaseStalls, LeaseAbandoned, NetworkHeals
<1> QED BY <1>4, <1>5, <1>6, <1>7, <1>8

LEMMA OneLifecycleStep ==
  Typed /\ OneLifecycleCall /\ [Next]_vars => OneLifecycleCall'
<1> SUFFICES ASSUME Typed, OneLifecycleCall, [Next]_vars PROVE OneLifecycleCall'
  OBVIOUS
<1> USE DEF Typed, TypeOK, OneLifecycleCall
<1>1. ASSUME NEW c \in Caller, NEW i \in Instance, RegisterCall(c, i) \/ DeregisterCall(c, i)
      PROVE  OneLifecycleCall'
  <2>1. /\ IdOf[i] \in SerialIds =>
              /\ \A b \in Caller : ~InLifecycle(b, IdOf[i])
              /\ RegisterCall(c, i) => leaseDone[IdOf[i]] = None
        /\ UNCHANGED leaseDone
    BY <1>1 DEF RegisterCall, DeregisterCall, MayRegister, MayDeregister
  <2>2. PICK pc \in {"reg.grant", "dereg.done"} :
          Enter(c, pc, i) /\ (pc = "reg.grant" => RegisterCall(c, i))
    BY <1>1 DEF RegisterCall, DeregisterCall
  <2>3. /\ call'[c].pc = pc /\ call'[c].inst = i
        /\ \A b \in Caller \ {c} : call'[b] = call[b]
    BY <2>2, EnterStep, Pcs
  <2> QED BY <2>1, <2>2, <2>3 DEF InLifecycle, InRegister
<1>2. ASSUME \A b \in Caller : \A d \in Id :
               InLifecycle(b, d)' => InLifecycle(b, d) /\ (InRegister(b)' => InRegister(b))
      PROVE  OneLifecycleCall'
  <2>1. ASSUME NEW b \in Caller, NEW d \in SerialIds, InLifecycle(b, d)', InRegister(b)',
               leaseDone[d] = None
        PROVE  leaseDone'[d] = None
    <3>1. ASSUME NEW c \in Caller, RegisterKeep(c) PROVE leaseDone'[d] = None
      <4>1. call[c].inst \in Instance /\ InLifecycle(c, IdOf[call[c].inst]) /\ Return(c)
        BY <3>1 DEF RegisterKeep, At, CallsHaveInstance, InLifecycle, InRegister
      <4>2. call'[c].inst = None
        BY <4>1, ReturnStep
      <4>3. b # c
        BY <2>1, <4>2 DEF InLifecycle
      <4>4. IdOf[call[c].inst] # d
        BY <1>2, <2>1, <4>1, <4>3
      <4> QED BY <2>1, <3>1, <4>1, <4>4 DEF RegisterKeep
    <3>2. ASSUME NEW c \in Caller, DeregisterDone(c) \/ CloseCall(c) PROVE leaseDone'[d] = None
      BY <2>1, <3>2 DEF DeregisterDone, CloseCall
    <3>3. CASE (\E k \in Keeper : KeeperExit(k)) \/ Restart
      BY <2>1, <3>3 DEF KeeperExit, Restart
    <3> QED BY <2>1, <3>1, <3>2, <3>3, KeeperFrame
  <2> QED BY <1>2, <2>1
<1> QED BY <1>1, <1>2, LifecycleFrame

LEMMA ReachableStep ==
  Typed /\ DoneChannelsOpen /\ OneLifecycleCall /\ KeepersReachable /\ [Next]_vars
    => KeepersReachable'
<1> SUFFICES ASSUME Typed, DoneChannelsOpen, OneLifecycleCall, KeepersReachable,
                    [Next]_vars
             PROVE  KeepersReachable'
  OBVIOUS
<1> USE DEF Typed, TypeOK, KeepersReachable, Running
<1>1. ASSUME NEW c \in Caller, RegisterKeep(c) PROVE KeepersReachable'
  <2> DEFINE e == IdOf[call[c].inst]
  <2>1. /\ call[c].inst \in Instance /\ e \in Id
        /\ e \in SerialIds => leaseDone[e] = None
    BY <1>1 DEF RegisterKeep, At, CallsHaveInstance, OneLifecycleCall, InLifecycle, InRegister
  <2>2. PICK k \in Keeper :
          /\ keeper' = [keeper EXCEPT ![k] =
               [pc |-> "select", inst |-> call[c].inst, data |-> obj[call[c].inst],
                lease |-> call[c].lease, new |-> None, stop |-> FALSE]]
          /\ leaseDone' = [leaseDone EXCEPT ![e] = k]
    BY <1>1 DEF RegisterKeep
  <2>3. \A j \in Keeper \ {k} :
          Running(j) /\ ~keeper[j].stop /\ IdOf[keeper[j].inst] \in SerialIds
            => IdOf[keeper[j].inst] # e
    BY <2>1
  <2>4. ASSUME NEW j \in Keeper \ {k}, Running(j)', ~keeper'[j].stop,
               IdOf[keeper'[j].inst] \in SerialIds
        PROVE  leaseDone'[IdOf[keeper'[j].inst]] = j
    <3>1. keeper'[j] = keeper[j] /\ IdOf[keeper[j].inst] \in Id
      BY <2>2, <2>4 DEF KeepersHaveInstance
    <3> QED BY <2>2, <2>3, <2>4, <3>1
  <2>5. keeper'[k].inst = call[c].inst /\ leaseDone'[e] = k
    BY <2>1, <2>2
  <2> QED BY <2>4, <2>5
<1>2. ASSUME NEW c \in Caller, DeregisterDone(c) PROVE KeepersReachable'
  <2> DEFINE e == IdOf[call[c].inst]
  <2>1. e \in Id /\ CloseDone({leaseDone[e]}) /\ leaseDone' = [leaseDone EXCEPT ![e] = None]
    BY <1>2 DEF DeregisterDone, At, CallsHaveInstance
  <2> HIDE DEF e
  <2> QED BY <2>1, CloseDoneStep DEF KeepersHaveInstance
<1>3. ASSUME NEW c \in Caller, CloseCall(c) PROVE KeepersReachable'
  <2>1. CloseDone({leaseDone[d] : d \in Id})
    BY <1>3 DEF CloseCall
  <2> QED BY <2>1, CloseDoneStep DEF KeepersHaveInstance
<1>4. ASSUME NEW k \in Keeper, KeeperExit(k) PROVE KeepersReachable'
  BY <1>4 DEF KeeperExit, NoKeeper
<1>5. CASE Restart
  BY <1>5 DEF Restart, NoKeeper
<1>6. CASE /\ UNCHANGED leaseDone
           /\ \A j \in Keeper : /\ Running(j)' <=> Running(j)
                               /\ keeper'[j].inst = keeper[j].inst
                               /\ keeper'[j].stop = keeper[j].stop
  BY <1>6
<1> QED BY <1>1, <1>2, <1>3, <1>4, <1>5, <1>6, KeeperFrame

\* While the application serialises Register and Deregister of an ID, every
\* goroutine that was not told to stop can still be told: none is leaked.
THEOREM KeepersAreReachable == Spec => []KeepersReachable
<1>1. Init => DoneChannelsOpen /\ OneLifecycleCall /\ KeepersReachable
  BY DEF Init, ProcessInit, DoneChannelsOpen, OneLifecycleCall, InLifecycle, NoCall,
         KeepersReachable, Running, NoKeeper
<1> QED BY <1>1, TypedInit, TypedStep, DoneStep, OneLifecycleStep, ReachableStep, PTL DEF Spec

----------------------------------------------------------------------------
(* Leases                                                                   *)

LEMMA LeasedStep == Typed /\ KeysAreLeased /\ [Next]_vars => KeysAreLeased'
<1> SUFFICES ASSUME Typed, KeysAreLeased, [Next]_vars PROVE KeysAreLeased'
  OBVIOUS
<1> USE DEF Typed, TypeOK, StoreTypeOK, Entry, KeysAreLeased, Present
<1>1. ASSUME NEW up, NEW i \in Instance, NEW l, NEW d \in Data,
             PutOK(up, i, l, d) \/ PutFails(up, i, l, d), UNCHANGED live
      PROVE  KeysAreLeased'
  BY <1>1 DEF PutOK, PutFails, PutApplied
<1>2. ASSUME NEW l, RunOut(l) \/ \E up : Revoke(up, l) PROVE KeysAreLeased'
  BY <1>2 DEF RunOut, Revoke, WithoutKeysOf, Absent
<1>3. ASSUME NEW up, NEW i \in Instance, DeleteKey(up, i), UNCHANGED live
      PROVE  KeysAreLeased'
  BY <1>3 DEF DeleteKey, Absent
<1>4. ASSUME NEW up, NEW l, NEW u, GrantOK(up, l, u), UNCHANGED store PROVE KeysAreLeased'
  BY <1>4 DEF GrantOK
<1>5. CASE UNCHANGED <<live, store>>
  BY <1>5
<1>6. ASSUME NEW c \in Caller, RegisterPut(c) \/ UpdatePut(c) PROVE KeysAreLeased'
  BY <1>1, <1>6 DEF RegisterPut, UpdatePut, At, CallsHaveInstance, CallState
<1>7. ASSUME NEW k \in Keeper, KeeperPut(k) PROVE KeysAreLeased'
  BY <1>1, <1>7 DEF KeeperPut, KeeperAt, KeepersHaveInstance, KeeperState
<1>8. ASSUME NEW c \in Caller, RegisterGrant(c) \/ DeregisterRevoke(c) \/ DeregisterDelete(c)
      PROVE  KeysAreLeased'
  BY <1>2, <1>3, <1>4, <1>5, <1>8
     DEF RegisterGrant, DeregisterRevoke, DeregisterDelete, At, CallsHaveInstance
<1>9. ASSUME NEW k \in Keeper, KeeperGrant(k) PROVE KeysAreLeased'
  BY <1>4, <1>5, <1>9 DEF KeeperGrant
<1>10. ASSUME NEW l \in Lease, LeaseStalls(l) \/ LeaseAbandoned(l) PROVE KeysAreLeased'
  BY <1>2, <1>10 DEF LeaseStalls, LeaseAbandoned
<1>11. ASSUME ~(UNCHANGED <<live, store>>)
       PROVE  \/ \E c \in Caller : \/ RegisterPut(c) \/ UpdatePut(c) \/ RegisterGrant(c)
                                  \/ DeregisterRevoke(c) \/ DeregisterDelete(c)
              \/ \E k \in Keeper : KeeperPut(k) \/ KeeperGrant(k)
              \/ \E l \in Lease : LeaseStalls(l) \/ LeaseAbandoned(l)
  BY <1>11 DEF Next, CallerStarts, CallerSteps, KeeperSteps, Environment, vars, storeVars,
     RegisterCall, RegisterSave, RegisterKeep, DeregisterCall, DeregisterDone,
     DeregisterLock, UpdateCall, UpdateRead, HeartbeatCall, HeartbeatSend, CloseCall, CloseClient, KeeperExit, KeeperTick, KeeperGet,
     KeeperSave, NetworkHeals, Stabilize, Restart
<1> QED BY <1>5, <1>6, <1>7, <1>8, <1>9, <1>10, <1>11

LEMMA CallUseStep ==
  ASSUME Typed, NEW c \in Caller, NEW l, NEW e \in Id,
         \/ Return(c) \/ UNCHANGED call
         \/ \E i \in Instance, pc \in CallPc : Enter(c, pc, i)
         \/ \E pc \in CallPc : Goto(c, pc)
  PROVE  l # None /\ CallUses(l, e)' => CallUses(l, e)
BY DEF Typed, TypeOK, CallUses, CallState, Return, NoCall, Enter, Goto, GotoWith

LEMMA CallUseGotoWith ==
  ASSUME Typed, NEW c \in Caller, call[c].inst \in Instance, NEW pc, NEW n, NEW d,
         GotoWith(c, pc, n, d), NEW l, NEW e \in Id, CallUses(l, e)'
  PROVE  CallUses(l, e) \/ (l = n /\ e = IdOf[call[c].inst])
BY DEF Typed, TypeOK, CallUses, GotoWith

LEMMA KeeperUseGotoWith ==
  ASSUME Typed, NEW k \in Keeper, keeper[k].inst \in Instance, NEW pc, NEW m, NEW n,
         KeeperGotoWith(k, pc, m, n), NEW l, NEW e \in Id, KeeperUses(l, e)'
  PROVE  KeeperUses(l, e) \/ (l \in {m, n} /\ e = IdOf[keeper[k].inst])
BY DEF Typed, TypeOK, KeeperUses, KeeperGotoWith

LEMMA KeeperUseHeld ==
  ASSUME Typed, NEW k \in Keeper, keeper[k].inst \in Instance, NEW l \in Lease,
         l = keeper[k].lease \/ l = keeper[k].new
  PROVE  KeeperUses(l, IdOf[keeper[k].inst])
BY DEF KeeperUses

\* A goroutine that moves its leases about uses no other.
LEMMA KeeperUseStep ==
  ASSUME Typed, NEW k \in Keeper, keeper[k].inst \in Instance,
         \/ \E pc : KeeperGoto(k, pc)
         \/ KeeperGotoWith(k, "select", keeper[k].lease, None)
         \/ KeeperGotoWith(k, "select", keeper[k].new, None),
         NEW l \in Lease, NEW e \in Id, KeeperUses(l, e)'
  PROVE  KeeperUses(l, e)
<1>1. KeeperUses(l, e) \/ (l \in {keeper[k].lease, keeper[k].new} /\ e = IdOf[keeper[k].inst])
  BY KeeperUseGotoWith DEF KeeperGoto
<1> QED BY <1>1, KeeperUseHeld

LEMMA KeyUsePut ==
  ASSUME Typed, NEW up, NEW i \in Instance, NEW n, NEW d,
         PutOK(up, i, n, d) \/ PutFails(up, i, n, d), NEW l, NEW e \in Id, KeyUses(l, e)'
  PROVE  KeyUses(l, e) \/ (l = n /\ e = IdOf[i])
BY DEF Typed, TypeOK, StoreTypeOK, KeyUses, PutOK, PutFails, PutApplied

LEMMA KeyUseGone ==
  ASSUME Typed, NEW up, NEW i, NEW n,
         Revoke(up, n) \/ DeleteKey(up, i) \/ RunOut(n) \/ UNCHANGED store,
         NEW l \in Lease, NEW e \in Id, KeyUses(l, e)'
  PROVE  KeyUses(l, e)
BY DEF Typed, TypeOK, StoreTypeOK, KeyUses, Revoke, DeleteKey, RunOut, WithoutKeysOf, Absent

\* A step gives no lease a use by another ID, but for Grant, which gives an
\* unused one to the ID it is granted for.
NoNewUse == \A l \in Lease : \A d \in Id : UsedBy(l, d)' => UsedBy(l, d)

GrantedFor(n, e) ==
  /\ \A d \in Id : ~UsedBy(n, d)
  /\ \A l \in Lease : \A d \in Id : UsedBy(l, d)' => UsedBy(l, d) \/ (l = n /\ d = e)

LEMMA FreshIsUnused ==
  ASSUME Typed, KeysAreLeased, NEW n \in Lease, GrantOK(Up, n, UsedLeases)
  PROVE  \A d \in Id : ~UsedBy(n, d)
<1>1. n \notin live /\ n \notin UsedLeases
  BY DEF GrantOK
<1>2. ASSUME NEW d \in Id PROVE leases[d] # n /\ ~CallUses(n, d) /\ ~KeeperUses(n, d)
  BY <1>1 DEF UsedLeases, CallUses, KeeperUses
<1>3. ASSUME NEW d \in Id PROVE ~KeyUses(n, d)
  BY <1>1 DEF KeysAreLeased, Present, KeyUses
<1> QED BY <1>2, <1>3 DEF UsedBy

LEMMA UseStep ==
  ASSUME Typed, KeysAreLeased, [Next]_vars
  PROVE  NoNewUse \/ \E n \in Lease, e \in Id : GrantedFor(n, e)
<1> USE DEF storeVars
<1>i. \A c \in Caller : ~At(c, "idle") /\ ~At(c, "close.client") =>
         call[c].inst \in Instance /\ call[c].inst # None /\ IdOf[call[c].inst] \in Id
  BY DEF Typed, CallsHaveInstance, At
<1>j. \A k \in Keeper : ~KeeperAt(k, "off") =>
         keeper[k].inst \in Instance /\ keeper[k].inst # None /\ IdOf[keeper[k].inst] \in Id
  BY DEF Typed, KeepersHaveInstance, KeeperAt
<1>1. ASSUME NEW c \in Caller, RegisterGrant(c)
      PROVE  NoNewUse \/ \E n \in Lease, e \in Id : GrantedFor(n, e)
  <2>1. call[c].inst \in Instance /\ IdOf[call[c].inst] \in Id
    BY <1>1, <1>i DEF RegisterGrant, At
  <2>2. CASE Return(c) /\ UNCHANGED live
    BY <1>1, <2>2, CallUseStep DEF RegisterGrant, NoNewUse, UsedBy, KeeperUses, KeyUses
  <2>3. ASSUME NEW n \in Lease, GrantOK(Up, n, UsedLeases),
               GotoWith(c, "reg.put", n, obj[call[c].inst])
        PROVE  GrantedFor(n, IdOf[call[c].inst])
    BY <1>1, <2>1, <2>3, FreshIsUnused, CallUseGotoWith
       DEF RegisterGrant, GrantedFor, UsedBy, KeeperUses, KeyUses
  <2> QED BY <1>1, <2>1, <2>2, <2>3 DEF RegisterGrant
<1>2. ASSUME NEW k \in Keeper, KeeperGrant(k)
      PROVE  NoNewUse \/ \E n \in Lease, e \in Id : GrantedFor(n, e)
  <2>1. keeper[k].inst \in Instance /\ keeper[k].inst # None /\ IdOf[keeper[k].inst] \in Id
    BY <1>2, <1>j DEF KeeperGrant, KeeperAt
  <2>2. UNCHANGED <<store, leases, call>>
    BY <1>2 DEF KeeperGrant
  <2>3. CASE KeeperGoto(k, "select")
    BY <2>1, <2>2, <2>3, KeeperUseStep DEF NoNewUse, UsedBy, CallUses, KeyUses
  <2>4. ASSUME NEW n \in Lease, GrantOK(Up, n, UsedLeases),
               KeeperGotoWith(k, "put", keeper[k].lease, n)
        PROVE  GrantedFor(n, IdOf[keeper[k].inst])
    <3>1. ASSUME NEW l \in Lease, NEW d \in Id, KeeperUses(l, d)'
          PROVE  KeeperUses(l, d) \/ (l = n /\ d = IdOf[keeper[k].inst])
      BY <2>1, <2>4, <3>1, KeeperUseGotoWith, KeeperUseHeld
    <3> QED BY <2>2, <2>4, <3>1, FreshIsUnused DEF GrantedFor, UsedBy, CallUses, KeyUses
  <2> QED BY <1>2, <2>1, <2>3, <2>4 DEF KeeperGrant
<1>3. ASSUME NEW c \in Caller, RegisterPut(c) \/ UpdatePut(c) PROVE NoNewUse
  <2> DEFINE i == call[c].inst  n == call[c].lease
  <2>1. /\ i \in Instance /\ i # None /\ IdOf[i] \in Id
        /\ PutOK(Up, i, n, call[c].data) \/ PutFails(Up, i, n, call[c].data)
        /\ UNCHANGED <<leases, keeper>>
    BY <1>3, <1>i DEF RegisterPut, UpdatePut, At
  <2>2. Goto(c, "reg.save") \/ Return(c)
    BY <1>3 DEF RegisterPut, UpdatePut
  <2>3. ASSUME NEW l \in Lease, NEW d \in Id, KeyUses(l, d)' PROVE UsedBy(l, d)
    BY <2>1, <2>3, KeyUsePut DEF UsedBy, CallUses
  <2>4. ASSUME NEW l \in Lease, NEW d \in Id, CallUses(l, d)' PROVE CallUses(l, d)
    BY <2>2, <2>4, CallUseStep, Pcs
  <2> QED BY <2>1, <2>3, <2>4 DEF NoNewUse, UsedBy, KeeperUses
<1>4. ASSUME NEW c \in Caller, RegisterSave(c) PROVE NoNewUse
  <2>1. call[c].inst \in Instance /\ call[c].inst # None /\ IdOf[call[c].inst] \in Id
    BY <1>4, <1>i DEF RegisterSave, At
  <2>2. ASSUME NEW l \in Lease, NEW d \in Id, leases'[d] = l PROVE UsedBy(l, d)
    BY <1>4, <2>1, <2>2 DEF RegisterSave, Typed, TypeOK, UsedBy, CallUses
  <2>3. ASSUME NEW l \in Lease, NEW d \in Id, CallUses(l, d)' PROVE CallUses(l, d)
    BY <1>4, <2>3, CallUseStep, Pcs DEF RegisterSave
  <2> QED BY <1>4, <2>2, <2>3 DEF RegisterSave, NoNewUse, UsedBy, KeeperUses, KeyUses
<1>5. ASSUME NEW c \in Caller, RegisterKeep(c) PROVE NoNewUse
  <2>1. call[c].inst \in Instance /\ call[c].inst # None /\ IdOf[call[c].inst] \in Id
    BY <1>5, <1>i DEF RegisterKeep, At
  <2>2. ASSUME NEW l \in Lease, NEW d \in Id, KeeperUses(l, d)' PROVE UsedBy(l, d)
    <3>1. PICK k \in Keeper : keeper' = [keeper EXCEPT ![k] =
             [pc |-> "select", inst |-> call[c].inst, data |-> obj[call[c].inst],
              lease |-> call[c].lease, new |-> None, stop |-> FALSE]]
      BY <1>5 DEF RegisterKeep
    <3> QED BY <2>1, <2>2, <3>1 DEF Typed, TypeOK, UsedBy, CallUses, KeeperUses
  <2>3. ASSUME NEW l \in Lease, NEW d \in Id, CallUses(l, d)' PROVE CallUses(l, d)
    BY <1>5, <2>3, CallUseStep DEF RegisterKeep
  <2> QED BY <1>5, <2>2, <2>3 DEF RegisterKeep, NoNewUse, UsedBy, KeyUses
<1>6. ASSUME NEW c \in Caller, UpdateRead(c) \/ DeregisterLock(c)
      PROVE  NoNewUse
  <2> DEFINE e == IdOf[call[c].inst]
  <2>1. /\ call[c].inst \in Instance /\ e \in Id
        /\ UNCHANGED <<leases, keeper, store>>
        /\ \/ Return(c) \/ Goto(c, "dereg.delete")
           \/ \E pc, d : GotoWith(c, pc, leases[e], d)
    BY <1>6, <1>i DEF UpdateRead, DeregisterLock, At
  <2> HIDE DEF e
  <2>2. ASSUME NEW l \in Lease, NEW d \in Id, CallUses(l, d)'
        PROVE  CallUses(l, d) \/ leases[d] = l
    <3>1. CASE Return(c) \/ Goto(c, "dereg.delete")
      BY <2>2, <3>1, CallUseStep, Pcs
    <3>2. CASE \E pc, x : GotoWith(c, pc, leases[e], x)
      BY <2>1, <2>2, <3>2, CallUseGotoWith DEF e
    <3> QED BY <2>1, <3>1, <3>2
  <2> QED BY <2>1, <2>2 DEF NoNewUse, UsedBy, KeeperUses, KeyUses
<1>7. ASSUME NEW c \in Caller, DeregisterRevoke(c) PROVE NoNewUse
  <2>1. /\ call[c].inst \in Instance /\ IdOf[call[c].inst] \in Id
        /\ GotoWith(c, "dereg.delete", None, call[c].data)
        /\ leases' = [leases EXCEPT ![IdOf[call[c].inst]] = None]
        /\ Revoke(Up, call[c].lease) /\ UNCHANGED keeper
    BY <1>7, <1>i DEF DeregisterRevoke, At
  <2>2. ASSUME NEW l \in Lease, NEW d \in Id, CallUses(l, d)' PROVE CallUses(l, d)
    BY <2>1, <2>2, CallUseGotoWith
  <2>3. ASSUME NEW l \in Lease, NEW d \in Id, leases'[d] = l PROVE leases[d] = l
    BY <2>1, <2>3 DEF Typed, TypeOK
  <2> QED BY <2>1, <2>2, <2>3, KeyUseGone DEF NoNewUse, UsedBy, KeeperUses
<1>8. ASSUME NEW c \in Caller, DeregisterDelete(c) PROVE NoNewUse
  <2>1. Return(c) /\ DeleteKey(Up, call[c].inst) /\ UNCHANGED <<leases, keeper>>
    BY <1>8 DEF DeregisterDelete
  <2> QED BY <2>1, CallUseStep, KeyUseGone DEF NoNewUse, UsedBy, KeeperUses
<1>9. ASSUME NEW c \in Caller, DeregisterDone(c) \/ CloseCall(c) PROVE NoNewUse
  <2>1. /\ UNCHANGED <<leases, store>>
        /\ \E ks : CloseDone(ks)
        /\ Goto(c, "dereg.lock") \/ Goto(c, "close.client")
    BY <1>9 DEF DeregisterDone, CloseCall
  <2>2. ASSUME NEW l \in Lease, NEW d \in Id, KeeperUses(l, d)' PROVE KeeperUses(l, d)
    BY <2>1, <2>2, CloseDoneStep DEF Typed, TypeOK, KeeperUses
  <2>3. ASSUME NEW l \in Lease, NEW d \in Id, CallUses(l, d)' PROVE CallUses(l, d)
    BY <2>1, <2>3, CallUseStep, Pcs
  <2> QED BY <2>1, <2>2, <2>3 DEF NoNewUse, UsedBy, KeyUses
<1>10. ASSUME NEW c \in Caller, HeartbeatSend(c) \/ CloseClient(c) PROVE NoNewUse
  BY <1>10, CallUseStep
     DEF HeartbeatSend, CloseClient, NoNewUse, UsedBy, KeeperUses, KeyUses
<1>11. ASSUME NEW c \in Caller, NEW i \in Instance,
              \/ RegisterCall(c, i) \/ DeregisterCall(c, i)
              \/ \E d \in Data : UpdateCall(c, i, d)
       PROVE  NoNewUse
  <2>1. /\ UNCHANGED <<leases, keeper, store>>
        /\ \E pc \in CallPc : Enter(c, pc, i)
    BY <1>11, Pcs DEF RegisterCall, DeregisterCall, UpdateCall
  <2> QED BY <2>1, CallUseStep DEF NoNewUse, UsedBy, KeeperUses, KeyUses
<1>h. ASSUME NEW c \in Caller, NEW i \in Instance, HeartbeatCall(c, i) PROVE NoNewUse
  <2>1. /\ UNCHANGED <<leases, keeper, store>>
        /\ call' = [call EXCEPT ![c] = [pc |-> "beat.send", inst |-> i, data |-> InitData,
                                       lease |-> leases[IdOf[i]]]]
    BY <1>h DEF HeartbeatCall
  <2>2. ASSUME NEW l \in Lease, NEW d \in Id, CallUses(l, d)'
        PROVE  CallUses(l, d) \/ leases[d] = l
    BY <2>1, <2>2 DEF CallUses, Typed, TypeOK
  <2> QED BY <2>1, <2>2 DEF NoNewUse, UsedBy, KeeperUses, KeyUses
<1>12. ASSUME NEW k \in Keeper, KeeperExit(k) PROVE NoNewUse
  <2>1. ASSUME NEW l \in Lease, NEW d \in Id, KeeperUses(l, d)' PROVE KeeperUses(l, d)
    BY <1>12, <2>1 DEF KeeperExit, NoKeeper, Typed, TypeOK, KeeperUses
  <2> QED BY <1>12, <2>1 DEF KeeperExit, NoNewUse, UsedBy, CallUses, KeyUses
<1>13. ASSUME NEW k \in Keeper, KeeperTick(k) \/ KeeperGet(k) PROVE NoNewUse
  <2>1. /\ keeper[k].inst \in Instance /\ keeper[k].inst # None
        /\ UNCHANGED <<leases, call, store>>
        /\ \E pc : KeeperGoto(k, pc)
    BY <1>13, <1>j DEF KeeperTick, KeeperGet, KeeperAt
  <2>2. ASSUME NEW l \in Lease, NEW d \in Id, KeeperUses(l, d)' PROVE KeeperUses(l, d)
    BY <2>1, <2>2, KeeperUseStep
  <2> QED BY <2>1, <2>2 DEF NoNewUse, UsedBy, CallUses, KeyUses
<1>14. ASSUME NEW k \in Keeper, KeeperPut(k) PROVE NoNewUse
  <2> DEFINE i == keeper[k].inst  n == keeper[k].new
  <2>1. /\ i \in Instance /\ i # None /\ IdOf[i] \in Id
        /\ PutOK(Up, i, n, keeper[k].data) \/ PutFails(Up, i, n, keeper[k].data)
        /\ UNCHANGED <<leases, call>>
    BY <1>14, <1>j DEF KeeperPut, KeeperAt
  <2>2. KeeperGoto(k, "save") \/ KeeperGotoWith(k, "select", keeper[k].lease, None)
    BY <1>14 DEF KeeperPut
  <2>3. ASSUME NEW l \in Lease, NEW d \in Id, KeyUses(l, d)' PROVE UsedBy(l, d)
    BY <2>1, <2>3, KeyUsePut DEF UsedBy, KeeperUses
  <2>4. ASSUME NEW l \in Lease, NEW d \in Id, KeeperUses(l, d)' PROVE KeeperUses(l, d)
    BY <2>1, <2>2, <2>4, KeeperUseStep
  <2> QED BY <2>1, <2>3, <2>4 DEF NoNewUse, UsedBy, CallUses
<1>15. ASSUME NEW k \in Keeper, KeeperSave(k) PROVE NoNewUse
  <2>1. /\ keeper[k].inst \in Instance /\ keeper[k].inst # None /\ IdOf[keeper[k].inst] \in Id
        /\ leases' = [leases EXCEPT ![IdOf[keeper[k].inst]] = keeper[k].new]
        /\ KeeperGotoWith(k, "select", keeper[k].new, None)
        /\ UNCHANGED <<call, store>>
    BY <1>15, <1>j DEF KeeperSave, KeeperAt
  <2>2. ASSUME NEW l \in Lease, NEW d \in Id, leases'[d] = l PROVE UsedBy(l, d)
    BY <2>1, <2>2 DEF Typed, TypeOK, UsedBy, KeeperUses
  <2>3. ASSUME NEW l \in Lease, NEW d \in Id, KeeperUses(l, d)' PROVE KeeperUses(l, d)
    BY <2>1, <2>3, KeeperUseStep
  <2> QED BY <2>1, <2>2, <2>3 DEF NoNewUse, UsedBy, CallUses, KeyUses
<1>16. ASSUME NEW n \in Lease, LeaseStalls(n) \/ LeaseAbandoned(n) PROVE NoNewUse
  <2>1. RunOut(n) /\ UNCHANGED <<leases, call, keeper>>
    BY <1>16 DEF LeaseStalls, LeaseAbandoned, registryVars
  <2> QED BY <2>1, KeyUseGone DEF NoNewUse, UsedBy, CallUses, KeeperUses
<1>17. CASE Restart
  BY <1>17 DEF Restart, NoCall, NoKeeper, NoNewUse, UsedBy, CallUses, KeeperUses, KeyUses
<1>18. CASE NetworkHeals \/ UNCHANGED vars
  BY <1>18 DEF NetworkHeals, Stabilize, registryVars, vars, NoNewUse, UsedBy, CallUses,
               KeeperUses, KeyUses
<1> QED
  BY <1>1, <1>2, <1>3, <1>4, <1>5, <1>6, <1>7, <1>8, <1>9, <1>10, <1>11, <1>h, <1>12,
     <1>13, <1>14, <1>15, <1>16, <1>17, <1>18
     DEF Next, CallerStarts, CallerSteps, KeeperSteps, Environment

LEMMA OneIdStep ==
  Typed /\ KeysAreLeased /\ LeasesHaveOneId /\ [Next]_vars => LeasesHaveOneId'
<1> SUFFICES ASSUME Typed, KeysAreLeased, LeasesHaveOneId, [Next]_vars
             PROVE  LeasesHaveOneId'
  OBVIOUS
<1>1. CASE NoNewUse
  BY <1>1 DEF NoNewUse, LeasesHaveOneId
<1>2. ASSUME NEW n \in Lease, NEW e \in Id, GrantedFor(n, e) PROVE LeasesHaveOneId'
  BY <1>2 DEF GrantedFor, LeasesHaveOneId
<1> QED BY <1>1, <1>2, UseStep

\* Every lease is used for one ID only, whatever overlaps.
THEOREM LeasesAreOfOneId == Spec => []LeasesHaveOneId
<1>1. Init => KeysAreLeased /\ LeasesHaveOneId
  BY DEF Init, StoreInit, ProcessInit, KeysAreLeased, Present, Absent, LeasesHaveOneId,
         UsedBy, CallUses, KeeperUses, KeyUses, NoCall, NoKeeper
<1> QED BY <1>1, TypedInit, TypedStep, LeasedStep, OneIdStep, PTL DEF Spec

----------------------------------------------------------------------------
(* The keys of RegistryKeys                                                 *)

Name == {name \in Seq(Char) : HasNoSlash(name)}

\* What stands in a key before the name of the service.
Before == IF Namespace = <<>> THEN <<>> ELSE Namespace \o <<"/">>

LEMMA Concat ==
  ASSUME NEW a \in Seq(Char), NEW b \in Seq(Char), NEW c, c = a \o b
  PROVE  /\ c \in Seq(Char) /\ Len(c) = Len(a) + Len(b)
         /\ Len(a) \in Nat /\ Len(b) \in Nat
         /\ \A j \in 1 .. Len(a) : c[j] = a[j]
         /\ \A j \in 1 .. Len(b) : c[Len(a) + j] = b[j]
OBVIOUS

LEMMA Slash == <<"/">> \in Seq(Char) /\ Len(<<"/">>) = 1 /\ <<"/">>[1] = "/"
<1>1. "/" \in Char
  BY NamesAssumption
<1> QED BY <1>1

LEMMA FrontType == Before \in Seq(Char)
<1>1. CASE Namespace = <<>>
  BY <1>1 DEF Before
<1>2. CASE Namespace # <<>>
  BY <1>2, NamesAssumption, Slash, Concat DEF Before
<1> QED BY <1>1, <1>2

LEMMA NamesAre ==
  \A i \in Instance : ServiceName[i] \in Name /\ InstanceID[i] \in Name
BY NamesAssumption DEF Name

LEMMA NameIs ==
  ASSUME NEW s \in Name
  PROVE  /\ s \in Seq(Char) /\ Len(s) \in Nat \ {0}
         /\ \A k \in 1 .. Len(s) : s[k] # "/"
<1>1. s \in Seq(Char) /\ s # <<>> /\ "/" \notin Range(s)
  BY DEF Name, HasNoSlash
<1>2. Len(s) \in Nat /\ DOMAIN s = 1 .. Len(s) /\ Len(s) # 0
  BY <1>1
<1> QED BY <1>1, <1>2 DEF Range

LEMMA ServicePrefix ==
  ASSUME NEW s \in Name
  PROVE  buildServicePrefix(s) = Before \o s \o <<"/">>
<1>1. s \in Seq(Char) /\ s # <<>>
  BY NameIs
<1>2. CASE Namespace = <<>>
  <2>1. PathJoin(Namespace, s) = s /\ Before = <<>>
    BY <1>2 DEF PathJoin, Before
  <2>2. <<>> \o s = s
    BY <1>1
  <2> QED BY <2>1, <2>2 DEF buildServicePrefix
<1>3. CASE Namespace # <<>>
  <2>1. PathJoin(Namespace, s) = Namespace \o <<"/">> \o s /\ Before = Namespace \o <<"/">>
    BY <1>1, <1>3 DEF PathJoin, Before
  <2> QED BY <2>1 DEF buildServicePrefix
<1> QED BY <1>2, <1>3

LEMMA InstanceKey ==
  ASSUME NEW i \in Instance
  PROVE  buildInstanceKey(i) = Before \o ServiceName[i] \o <<"/">> \o InstanceID[i]
<1> DEFINE s == ServiceName[i]
           path == PathJoin(Namespace, s)
<1>1. s \in Seq(Char) /\ s # <<>> /\ InstanceID[i] \in Seq(Char) /\ InstanceID[i] # <<>>
  BY NamesAre, NameIs
<1>2. path # <<>> /\ path = Before \o s
  <2>1. CASE Namespace = <<>>
    <3>1. path = s /\ Before = <<>>
      BY <2>1 DEF PathJoin, Before
    <3>2. <<>> \o s = s
      BY <1>1
    <3> QED BY <1>1, <3>1, <3>2
  <2>2. CASE Namespace # <<>>
    <3>1. path = Namespace \o <<"/">> \o s /\ Before = Namespace \o <<"/">>
      BY <1>1, <2>2 DEF PathJoin, Before
    <3>2. Before \in Seq(Char) /\ path = Before \o s
      BY <3>1, FrontType
    <3>3. Len(path) = Len(Before) + Len(s) /\ Len(s) \in Nat /\ Len(s) # 0 /\ Len(Before) \in Nat
      BY <1>1, <3>2
    <3>4. path # <<>>
      BY <3>3
    <3> QED BY <3>2, <3>4
  <2> QED BY <2>1, <2>2
<1>3. buildInstanceKey(i) = PathJoin(path, InstanceID[i])
  BY DEF buildInstanceKey
<1> HIDE DEF path
<1> QED BY <1>1, <1>2, <1>3 DEF PathJoin

LEMMA Joined ==
  ASSUME NEW f \in Seq(Char), NEW s \in Seq(Char), NEW r \in Seq(Char), Len(r) > 0, r[1] = "/",
         NEW c, c = f \o s \o r
  PROVE  /\ c \in Seq(Char) /\ Len(c) = Len(f) + Len(s) + Len(r)
         /\ \A j \in 1 .. Len(s) : c[Len(f) + j] = s[j]
         /\ c[Len(f) + Len(s) + 1] = "/"
         /\ \A j \in 1 .. Len(f) : c[j] = f[j]
<1> DEFINE fs == f \o s
<1>1. /\ fs \in Seq(Char) /\ Len(fs) = Len(f) + Len(s) /\ Len(f) \in Nat /\ Len(s) \in Nat
      /\ \A j \in 1 .. Len(f) : fs[j] = f[j]
      /\ \A j \in 1 .. Len(s) : fs[Len(f) + j] = s[j]
  BY Concat
<1>2. c = fs \o r
  OBVIOUS
<1> HIDE DEF fs
<1>3. /\ c \in Seq(Char) /\ Len(c) = Len(fs) + Len(r) /\ Len(r) \in Nat
      /\ \A j \in 1 .. Len(fs) : c[j] = fs[j]
      /\ \A j \in 1 .. Len(r) : c[Len(fs) + j] = r[j]
  <2>1. fs \in Seq(Char)
    BY <1>1
  <2> QED BY <1>2, <2>1, Concat
<1>4. /\ \A j \in 1 .. Len(f) : j \in 1 .. Len(fs)
      /\ \A j \in 1 .. Len(s) : Len(f) + j \in 1 .. Len(fs)
      /\ 1 \in 1 .. Len(r)
  BY <1>1, <1>3
<1> QED BY <1>1, <1>3, <1>4

\* Two names that a slash follows begin alike only if they are the same.
LEMMA PrefixIsSame ==
  ASSUME NEW f \in Seq(Char), NEW s \in Name, NEW t \in Name, NEW id \in Seq(Char)
  PROVE  IsPrefix(f \o s \o <<"/">>, f \o t \o <<"/">> \o id) <=> s = t
<1> DEFINE p == f \o s \o <<"/">>
           k == f \o t \o <<"/">> \o id
           n == Len(f)
<1>0. /\ s \in Seq(Char) /\ t \in Seq(Char) /\ n \in Nat /\ Len(s) \in Nat /\ Len(t) \in Nat
      /\ Len(id) \in Nat
      /\ \A j \in 1 .. Len(s) : s[j] # "/"
      /\ \A j \in 1 .. Len(t) : t[j] # "/"
  BY NameIs
<1>1. /\ p \in Seq(Char) /\ Len(p) = n + Len(s) + 1
      /\ \A j \in 1 .. Len(s) : p[n + j] = s[j]
      /\ p[n + Len(s) + 1] = "/"
      /\ \A j \in 1 .. n : p[j] = f[j]
  BY <1>0, Slash, Joined
<1>2. /\ k \in Seq(Char) /\ Len(k) = n + Len(t) + 1 + Len(id)
      /\ \A j \in 1 .. Len(t) : k[n + j] = t[j]
      /\ k[n + Len(t) + 1] = "/"
      /\ \A j \in 1 .. n : k[j] = f[j]
  <2> DEFINE slash == <<"/">>
             rest == slash \o id
  <2>1. slash \in Seq(Char) /\ Len(slash) = 1 /\ slash[1] = "/" /\ 1 \in 1 .. 1
    BY Slash
  <2>2. k = f \o t \o rest
    <3>1. slash \in Seq(Char)
      BY <2>1
    <3> HIDE DEF slash
    <3>2. (f \o t \o slash) \o id = f \o t \o (slash \o id)
      BY <1>0, <3>1
    <3> QED BY <3>2 DEF slash
  <2> HIDE DEF slash
  <2>3. rest \in Seq(Char) /\ Len(rest) = 1 + Len(id) /\ rest[1] = "/"
    <3> HIDE DEF slash
    <3>1. rest \in Seq(Char) /\ Len(rest) = Len(slash) + Len(id)
          /\ \A j \in 1 .. Len(slash) : rest[j] = slash[j]
      <4>1. slash \in Seq(Char)
        BY <2>1
      <4> QED BY <4>1, Concat
    <3> QED BY <2>1, <3>1
  <2>4. Len(rest) > 0
    BY <1>0, <2>3
  <2> HIDE DEF rest, k
  <2>5. /\ k \in Seq(Char) /\ Len(k) = n + Len(t) + Len(rest)
        /\ \A j \in 1 .. Len(t) : k[n + j] = t[j]
        /\ k[n + Len(t) + 1] = "/"
        /\ \A j \in 1 .. n : k[j] = f[j]
    <3> HIDE DEF n
    <3>1. k = f \o t \o rest /\ t \in Seq(Char)
      BY <1>0, <2>2
    <3>2. rest \in Seq(Char) /\ Len(rest) > 0 /\ rest[1] = "/"
      BY <2>3, <2>4
    <3> QED BY <3>1, <3>2, Joined DEF n
  <2>6. n + Len(t) + (1 + Len(id)) = n + Len(t) + 1 + Len(id)
    BY <1>0
  <2> QED BY <2>3, <2>5, <2>6
<1> HIDE DEF p, k, n
<1>3. ASSUME Len(p) <= Len(k)
      PROVE  SubSeq(p, 1, Len(p)) = SubSeq(k, 1, Len(p)) <=> \A j \in 1 .. Len(p) : p[j] = k[j]
  BY <1>1, <1>2, <1>3
<1>4. ASSUME IsPrefix(p, k) PROVE s = t
  <2>1. Len(p) <= Len(k) /\ \A j \in 1 .. Len(p) : p[j] = k[j]
    BY <1>3, <1>4 DEF IsPrefix
  <2>2. ~(Len(s) < Len(t))
    <3> SUFFICES ASSUME Len(s) < Len(t) PROVE FALSE
      OBVIOUS
    <3>1. Len(s) + 1 \in 1 .. Len(t) /\ n + Len(s) + 1 \in 1 .. Len(p)
          /\ n + (Len(s) + 1) = n + Len(s) + 1
      BY <1>0, <1>1
    <3>2. k[n + (Len(s) + 1)] # "/"
      BY <1>0, <1>2, <3>1
    <3> QED BY <1>1, <2>1, <3>1, <3>2
  <2>3. ~(Len(t) < Len(s))
    <3> SUFFICES ASSUME Len(t) < Len(s) PROVE FALSE
      OBVIOUS
    <3>1. Len(t) + 1 \in 1 .. Len(s) /\ n + Len(t) + 1 \in 1 .. Len(p)
          /\ n + (Len(t) + 1) = n + Len(t) + 1
      BY <1>0, <1>1
    <3>2. p[n + (Len(t) + 1)] # "/"
      BY <1>0, <1>1, <3>1
    <3> QED BY <1>2, <2>1, <3>1, <3>2
  <2>4. Len(s) = Len(t)
    BY <1>0, <2>2, <2>3
  <2>5. \A j \in 1 .. Len(s) : s[j] = t[j]
    <3>1. \A j \in 1 .. Len(s) : n + j \in 1 .. Len(p)
      BY <1>0, <1>1
    <3> QED BY <1>1, <1>2, <2>1, <2>4, <3>1
  <2> QED BY <1>0, <2>4, <2>5
<1>5. ASSUME s = t PROVE IsPrefix(p, k)
  <2>1. Len(p) <= Len(k)
    BY <1>0, <1>1, <1>2, <1>5
  <2>2. \A j \in 1 .. Len(p) : p[j] = k[j]
    <3> SUFFICES ASSUME NEW j \in 1 .. Len(p) PROVE p[j] = k[j]
      OBVIOUS
    <3>1. j \in 1 .. n \/ j = n + Len(s) + 1 \/ (j - n \in 1 .. Len(s) /\ n + (j - n) = j)
      <4>1. n \in Nat /\ Len(s) \in Nat /\ Len(p) = n + Len(s) + 1
        BY <1>0, <1>1
      <4>2. j \in Nat /\ 1 <= j /\ j <= n + Len(s) + 1
        BY <4>1
      <4> QED BY ONLY <4>1, <4>2
    <3>2. CASE j \in 1 .. n
      BY <1>1, <1>2, <3>2
    <3>3. CASE j = n + Len(s) + 1
      BY <1>1, <1>2, <1>5, <3>3
    <3>4. CASE j - n \in 1 .. Len(s) /\ n + (j - n) = j
      <4>1. p[n + (j - n)] = s[j - n] /\ k[n + (j - n)] = s[j - n]
        BY <1>1, <1>2, <1>5, <3>4
      <4> QED BY <3>4, <4>1
    <3> QED BY <3>1, <3>2, <3>3, <3>4
  <2> QED BY <1>3, <2>1, <2>2 DEF IsPrefix
<1> QED BY <1>4, <1>5 DEF p, k

\* For any namespace and names that path.Join has nothing to clean in, and names
\* without slashes (NamesAssumption): Discover of a service gives
\* its instances that are in etcd, and no other's (Discover, buildServicePrefix
\* and buildInstanceKey of registry.go).
THEOREM PrefixesTellServicesApart == Spec => []DiscoverFindsOwn
<1>1. ASSUME NEW i \in Instance, NEW j \in Instance
      PROVE  IsPrefix(buildServicePrefix(ServiceName[i]), buildInstanceKey(j))
               <=> ServiceName[i] = ServiceName[j]
  <2>1. ServiceName[i] \in Name /\ ServiceName[j] \in Name /\ InstanceID[j] \in Seq(Char)
    BY NamesAre, NameIs
  <2>2. /\ buildServicePrefix(ServiceName[i]) = Before \o ServiceName[i] \o <<"/">>
        /\ buildInstanceKey(j) = Before \o ServiceName[j] \o <<"/">> \o InstanceID[j]
    BY <2>1, ServicePrefix, InstanceKey
  <2>3. IsPrefix(Before \o ServiceName[i] \o <<"/">>, Before \o ServiceName[j] \o <<"/">> \o InstanceID[j])
          <=> ServiceName[i] = ServiceName[j]
    BY <2>1, FrontType, PrefixIsSame
  <2> QED BY <2>2, <2>3
<1>2. DiscoverFindsOwn
  BY <1>1 DEF DiscoverFindsOwn, Discover
<1> QED BY <1>2, PTL

Joins(text, f, s, t) == text = f \o s \o <<"/">> \o t

\* After its first m characters the text is s, a slash and t.
Spells(text, m, s, t) ==
  /\ Len(text) = m + Len(s) + 1 + Len(t)
  /\ \A j \in 1 .. Len(s) : text[m + j] = s[j]
  /\ text[m + Len(s) + 1] = "/"
  /\ \A j \in 1 .. Len(t) : text[m + Len(s) + 1 + j] = t[j]

\* A text of two names with a slash between, and maybe one before (o is 1).
LEMMA TwoParts ==
  ASSUME NEW o \in {0, 1}, NEW s \in Name, NEW t \in Name, NEW text \in Seq(Char),
         \A j \in 1 .. o : text[j] = "/",
         Spells(text, o, s, t)
  PROVE  Parts(text) = {<<o + 1, o + Len(s)>>, <<o + Len(s) + 2, o + Len(s) + 1 + Len(t)>>}
<1> DEFINE a == Len(s)
           b == Len(t)
           N == Len(text)
           c == o + a + 1
<1>0. /\ N = o + a + 1 + b
      /\ \A j \in 1 .. a : text[o + j] = s[j]
      /\ text[c] = "/"
      /\ \A j \in 1 .. b : text[c + j] = t[j]
  BY DEF Spells
<1>1. /\ a \in Nat \ {0} /\ b \in Nat \ {0} /\ N = o + a + 1 + b /\ N \in Nat
      /\ \A j \in 1 .. a : s[j] # "/"
      /\ \A j \in 1 .. b : t[j] # "/"
  BY <1>0, NameIs
<1> HIDE DEF a, b, N
<1>2. /\ \A j \in 1 .. N : j <= o => text[j] = "/"
      /\ \A j \in 1 .. N : o < j /\ j <= o + a => text[j] # "/"
      /\ text[c] = "/"
      /\ \A j \in 1 .. N : c < j => text[j] # "/"
  <2>1. ASSUME NEW j \in 1 .. N, o < j, j <= o + a PROVE text[j] # "/"
    <3>1. j - o \in 1 .. a /\ o + (j - o) = j
      BY <1>1, <2>1
    <3>2. text[o + (j - o)] = s[j - o]
      BY <1>0, <3>1
    <3> QED BY <1>1, <3>1, <3>2
  <2>2. ASSUME NEW j \in 1 .. N, c < j PROVE text[j] # "/"
    <3>1. j - c \in 1 .. b /\ c + (j - c) = j
      BY <1>1, <2>2
    <3>2. text[c + (j - c)] = t[j - c]
      BY <1>0, <3>1
    <3> QED BY <1>1, <3>1, <3>2
  <2>3. \A j \in 1 .. N : j <= o => j \in 1 .. o
    BY <1>1
  <2> QED BY <1>0, <2>1, <2>2, <2>3
<1> HIDE DEF c
<1>3. c = o + a + 1 /\ o \in 0 .. 1 /\ c \in 1 .. N
  BY <1>1 DEF c
<1>4. ASSUME NEW m \in 1 .. N, NEW n \in 1 .. N
      PROVE  IsPart(text, m, n) <=> \/ m = o + 1 /\ n = o + a
                                    \/ m = o + a + 2 /\ n = N
  <2>1. ASSUME IsPart(text, m, n) PROVE (m = o + 1 /\ n = o + a) \/ (m = o + a + 2 /\ n = N)
    <3>1. /\ m <= n /\ \A j \in m .. n : text[j] # "/"
          /\ m = 1 \/ text[m - 1] = "/"
          /\ n = N \/ text[n + 1] = "/"
      BY <2>1 DEF IsPart, N
    <3>2. ~(m <= o) /\ m # c
      BY <1>1, <1>2, <1>3, <3>1
    <3>3. ~(m <= c /\ c <= n)
      BY <1>1, <1>2, <1>3, <3>1
    <3>4. m # 1 => ~(o < m - 1 /\ m - 1 <= o + a) /\ ~(c < m - 1)
      BY <1>1, <1>2, <1>3, <3>1
    <3>5. n # N => ~(o < n + 1 /\ n + 1 <= o + a) /\ ~(c < n + 1)
      <4> SUFFICES ASSUME n # N PROVE ~(o < n + 1 /\ n + 1 <= o + a) /\ ~(c < n + 1)
        OBVIOUS
      <4>1. n + 1 \in 1 .. N /\ text[n + 1] = "/"
        BY <1>1, <3>1
      <4> QED BY <1>2, <4>1
    <3>6. m = o + 1 \/ m = o + a + 2
      BY <1>1, <1>3, <3>1, <3>2, <3>4
    <3>7. CASE m = o + 1
      <4>1. n < c
        BY <1>1, <1>3, <3>1, <3>3, <3>7
      <4> QED BY <1>1, <1>3, <3>1, <3>5, <3>7, <4>1
    <3>8. CASE m = o + a + 2
      BY <1>1, <1>3, <3>1, <3>5, <3>8
    <3> QED BY <3>6, <3>7, <3>8
  <2>2. ASSUME m = o + 1, n = o + a PROVE IsPart(text, m, n)
    <3>1. m <= n /\ n + 1 = c /\ n # N
      BY <1>1, <1>3, <2>2
    <3>2. \A j \in m .. n : text[j] # "/"
      BY <1>1, <1>2, <1>3, <2>2
    <3>3. m = 1 \/ text[m - 1] = "/"
      BY <1>1, <1>2, <1>3, <2>2
    <3> QED BY <1>2, <3>1, <3>2, <3>3 DEF IsPart
  <2>3. ASSUME m = o + a + 2, n = N PROVE IsPart(text, m, n)
    <3>1. m <= n /\ m - 1 = c
      BY <1>1, <1>3, <2>3
    <3>2. \A j \in m .. n : text[j] # "/"
      BY <1>1, <1>2, <1>3, <2>3
    <3> QED BY <1>2, <2>3, <3>1, <3>2 DEF IsPart, N
  <2> QED BY <2>1, <2>2, <2>3
<1>5. /\ o + 1 \in 1 .. N /\ o + a \in 1 .. N /\ o + a + 2 \in 1 .. N /\ N \in 1 .. N
      /\ N = o + a + 1 + b
  BY <1>1, <1>3
<1>6. Parts(text) = {p \in (1 .. N) \X (1 .. N) : IsPart(text, p[1], p[2])}
  BY DEF Parts, N
<1>7. ASSUME NEW p PROVE p \in Parts(text) <=> p = <<o + 1, o + a>> \/ p = <<o + a + 2, N>>
  <2>1. ASSUME p \in Parts(text) PROVE p = <<o + 1, o + a>> \/ p = <<o + a + 2, N>>
    <3>1. p[1] \in 1 .. N /\ p[2] \in 1 .. N /\ p = <<p[1], p[2]>> /\ IsPart(text, p[1], p[2])
      BY <1>6, <2>1
    <3> QED BY <1>4, <3>1
  <2>2. <<o + 1, o + a>> \in Parts(text) /\ <<o + a + 2, N>> \in Parts(text)
    BY <1>4, <1>5, <1>6
  <2> QED BY <2>1, <2>2
<1>8. Parts(text) = {<<o + 1, o + a>>, <<o + a + 2, N>>}
  BY <1>7
<1> QED BY <1>5, <1>8 DEF a, b

LEMMA KeyIs ==
  ASSUME NEW f \in Seq(Char), NEW s \in Name, NEW t \in Name, NEW k, Joins(k, f, s, t)
  PROVE  /\ k \in Seq(Char) /\ Spells(k, Len(f), s, t)
         /\ \A j \in 1 .. Len(f) : k[j] = f[j]
<1> DEFINE p == f \o s \o <<"/">>
           m == Len(f)
           n == Len(s)
<1>1. /\ s \in Seq(Char) /\ t \in Seq(Char)
      /\ m \in Nat /\ n \in Nat /\ Len(t) \in Nat
  BY NameIs
<1>2. /\ p \in Seq(Char) /\ Len(p) = m + n + 1
      /\ \A j \in 1 .. n : p[m + j] = s[j]
      /\ p[m + n + 1] = "/"
      /\ \A j \in 1 .. m : p[j] = f[j]
  BY <1>1, Slash, Joined
<1>3. k = p \o t
  BY DEF Joins
<1> HIDE DEF p
<1>4. /\ k \in Seq(Char) /\ Len(k) = Len(p) + Len(t)
      /\ \A j \in 1 .. Len(p) : k[j] = p[j]
      /\ \A j \in 1 .. Len(t) : k[Len(p) + j] = t[j]
  <2>1. p \in Seq(Char) /\ t \in Seq(Char)
    BY <1>1, <1>2
  <2> QED BY ONLY <1>3, <2>1, Concat
<1> HIDE DEF m, n
<1>5. /\ \A j \in 1 .. m : j \in 1 .. Len(p)
      /\ \A j \in 1 .. n : m + j \in 1 .. Len(p)
      /\ m + n + 1 \in 1 .. Len(p)
  BY <1>1, <1>2
<1>6. /\ k \in Seq(Char) /\ Len(k) = m + n + 1 + Len(t)
      /\ \A j \in 1 .. m : k[j] = f[j]
      /\ \A j \in 1 .. n : k[m + j] = s[j]
      /\ k[m + n + 1] = "/"
      /\ \A j \in 1 .. Len(t) : k[m + n + 1 + j] = t[j]
  BY <1>2, <1>4, <1>5
<1> QED BY <1>6 DEF m, n, Spells

LEMMA RestIs ==
  ASSUME NEW key \in Seq(Char), NEW n \in Nat, n <= Len(key), NEW r, r = SubSeq(key, n + 1, Len(key))
  PROVE  /\ r \in Seq(Char) /\ Len(r) = Len(key) - n
         /\ \A j \in 1 .. Len(r) : r[j] = key[n + j]
OBVIOUS

\* What follows the namespace in the key of an instance are the two names.
LEMMA InstanceParts ==
  ASSUME NEW i \in Instance
  PROVE  /\ IsPrefix(Namespace, buildInstanceKey(i))
         /\ Len(splitKey(buildInstanceKey(i))) = 2
         /\ splitKey(buildInstanceKey(i))[1] = ServiceName[i]
<1> DEFINE s == ServiceName[i]
           t == InstanceID[i]
           key == buildInstanceKey(i)
           N == Len(Namespace)
           o == IF Namespace = <<>> THEN 0 ELSE 1
           rest == SubSeq(key, N + 1, Len(key))
           a == Len(s)
           b == Len(t)
           f == Before
<1>1. /\ s \in Name /\ t \in Name /\ a \in Nat \ {0} /\ b \in Nat \ {0} /\ N \in Nat
      /\ s \in Seq(Char) /\ Namespace \in Seq(Char)
  BY NamesAre, NameIs, NamesAssumption
<1>2. /\ f \in Seq(Char) /\ Len(f) = N + o /\ o \in {0, 1}
      /\ \A j \in 1 .. N : f[j] = Namespace[j]
      /\ o = 1 => f[N + 1] = "/"
  <2>1. CASE Namespace = <<>>
    BY <2>1 DEF Before
  <2>2. CASE Namespace # <<>>
    <3> DEFINE slash == <<"/">>
    <3>1. slash \in Seq(Char) /\ Len(slash) = 1 /\ slash[1] = "/"
      BY Slash
    <3>2. f = Namespace \o slash
      BY <2>2 DEF Before
    <3> HIDE DEF slash, f
    <3>3. /\ f \in Seq(Char) /\ Len(f) = N + Len(slash)
          /\ \A j \in 1 .. N : f[j] = Namespace[j]
          /\ \A j \in 1 .. Len(slash) : f[N + j] = slash[j]
      <4>1. slash \in Seq(Char) /\ Namespace \in Seq(Char)
        BY <1>1, <3>1
      <4> QED BY <3>2, <4>1, Concat
    <3> QED BY <2>2, <3>1, <3>3
  <2> QED BY <2>1, <2>2
<1>3. /\ key \in Seq(Char) /\ Len(key) = Len(f) + a + 1 + b
      /\ \A j \in 1 .. Len(f) : key[j] = f[j]
      /\ \A j \in 1 .. a : key[Len(f) + j] = s[j]
      /\ key[Len(f) + a + 1] = "/"
      /\ \A j \in 1 .. b : key[Len(f) + a + 1 + j] = t[j]
  <2>1. Joins(key, f, s, t)
    BY InstanceKey DEF Joins
  <2>2. f \in Seq(Char) /\ s \in Name /\ t \in Name
    BY <1>1, <1>2
  <2> HIDE DEF key, f, s, t
  <2>3. /\ key \in Seq(Char) /\ Spells(key, Len(f), s, t)
        /\ \A j \in 1 .. Len(f) : key[j] = f[j]
    BY ONLY <2>1, <2>2, KeyIs
  <2> QED BY <2>3 DEF Spells
<1> HIDE DEF key, f, o, N, a, b
<1>4. /\ N \in Nat /\ N <= Len(key) /\ Len(key) = N + o + a + 1 + b /\ Len(f) = N + o /\ o \in 0 .. 1
  BY <1>1, <1>2, <1>3
<1>5. /\ rest \in Seq(Char) /\ Len(rest) = Len(key) - N
      /\ \A j \in 1 .. Len(rest) : rest[j] = key[N + j]
  BY <1>3, <1>4, RestIs
<1> HIDE DEF rest
<1>6. Len(rest) = o + a + 1 + b
  BY <1>1, <1>4, <1>5
<1>7. /\ \A j \in 1 .. o : rest[j] = "/"
      /\ \A j \in 1 .. a : rest[o + j] = s[j]
      /\ rest[o + a + 1] = "/"
      /\ \A j \in 1 .. b : rest[o + a + 1 + j] = t[j]
  <2>1. ASSUME NEW j \in 1 .. o PROVE rest[j] = "/"
    <3>1. o = 1 /\ j = 1 /\ j \in 1 .. Len(rest) /\ N + 1 \in 1 .. Len(f)
      BY <1>1, <1>4, <1>6
    <3> QED BY <1>2, <1>3, <1>5, <3>1
  <2>2. ASSUME NEW j \in 1 .. a PROVE rest[o + j] = s[j]
    <3>1. o + j \in 1 .. Len(rest) /\ N + (o + j) = Len(f) + j
      BY <1>1, <1>4, <1>6
    <3> QED BY <1>3, <1>5, <3>1
  <2>3. rest[o + a + 1] = "/"
    <3>1. o + a + 1 \in 1 .. Len(rest) /\ N + (o + a + 1) = Len(f) + a + 1
      BY <1>1, <1>4, <1>6
    <3> QED BY <1>3, <1>5, <3>1
  <2>4. ASSUME NEW j \in 1 .. b PROVE rest[o + a + 1 + j] = t[j]
    <3>1. o + a + 1 + j \in 1 .. Len(rest) /\ N + (o + a + 1 + j) = Len(f) + a + 1 + j
      BY <1>1, <1>4, <1>6
    <3> QED BY <1>3, <1>5, <3>1
  <2> QED BY <2>1, <2>2, <2>3, <2>4
<1> DEFINE p == <<o + 1, o + a>>
           q == <<o + a + 2, o + a + 1 + b>>
           P == Parts(rest)
           Earlier(x) == {y \in P : y[1] < x[1]}
<1>8. P = {p, q}
  <2>1. s \in Name /\ t \in Name /\ rest \in Seq(Char) /\ o \in {0, 1}
    BY <1>1, <1>2, <1>5
  <2> HIDE DEF s, t
  <2>2. Spells(rest, o, s, t) /\ \A j \in 1 .. o : rest[j] = "/"
    BY <1>6, <1>7 DEF a, b, Spells
  <2>3. Parts(rest) = {<<o + 1, o + Len(s)>>, <<o + Len(s) + 2, o + Len(s) + 1 + Len(t)>>}
    BY ONLY <2>1, <2>2, TwoParts
  <2> QED BY <2>3 DEF a, b
<1>9. p[1] < q[1] /\ p[1] \in Nat /\ q[1] \in Nat /\ p # q
  BY <1>1, <1>4
<1> HIDE DEF p, q, P
<1>10. Cardinality(P) = 2
  <2>1. IsFiniteSet({p}) /\ Cardinality({p}) = 1
    BY FS_Singleton
  <2>2. Cardinality({p} \cup {q}) = Cardinality({p}) + 1
    <3>1. q \notin {p}
      BY <1>9
    <3> QED BY <2>1, <3>1, FS_AddElement
  <2>3. P = {p} \cup {q}
    BY <1>8
  <2> QED BY <2>1, <2>2, <2>3
<1>11. Cardinality(Earlier(p)) = 0 /\ Cardinality(Earlier(q)) = 1
  <2>1. Earlier(p) = {} /\ Earlier(q) = {p}
    BY <1>8, <1>9
  <2>2. Cardinality({}) = 0 /\ Cardinality({p}) = 1
    BY FS_EmptySet, FS_Singleton
  <2> HIDE DEF Earlier
  <2> QED BY <2>1, <2>2
<1> DEFINE Part(k) == CHOOSE x \in P : Cardinality(Earlier(x)) = k - 1
<1>12. Part(1) = p
  <2> HIDE DEF Earlier
  <2>1. \A x \in P : Cardinality(Earlier(x)) = 1 - 1 <=> x = p
    BY <1>8, <1>11
  <2> QED BY <1>8, <2>1
<1>13. splitKey(key) = [k \in 1 .. Cardinality(P) |-> SubSeq(rest, Part(k)[1], Part(k)[2])]
  BY DEF splitKey, P, rest, N
<1> HIDE DEF Part
<1>14. Len(splitKey(key)) = 2 /\ splitKey(key)[1] = SubSeq(rest, p[1], p[2])
  <2> DEFINE e(k) == SubSeq(rest, Part(k)[1], Part(k)[2])
             E == {e(k) : k \in 1 .. 2}
  <2>1. splitKey(key) = [k \in 1 .. 2 |-> e(k)] /\ \A k \in 1 .. 2 : e(k) \in E
    BY <1>10, <1>13
  <2>2. e(1) = SubSeq(rest, p[1], p[2])
    BY <1>12
  <2> HIDE DEF e, E
  <2>3. splitKey(key) \in Seq(E) /\ Len(splitKey(key)) = 2 /\ splitKey(key)[1] = e(1)
    BY ONLY <2>1
  <2> QED BY <2>2, <2>3
<1>15. SubSeq(rest, o + 1, o + a) = s
  BY <1>1, <1>4, <1>5, <1>6, <1>7 DEF a
<1>16. IsPrefix(Namespace, key)
  <2>1. N <= Len(key) /\ \A j \in 1 .. N : j \in 1 .. Len(f) /\ key[j] = Namespace[j]
    BY <1>2, <1>3, <1>4
  <2> QED BY <1>1, <1>3, <2>1 DEF IsPrefix, N
<1> QED BY <1>14, <1>15, <1>16 DEF p, key

\* For such a namespace, such names and any keys of others (they need not be
\* clean): ListServices lists the service of every
\* instance that is in etcd; and no more besides than there are keys of others
\* that begin with the namespace (ListServices and splitKey of registry.go).
THEOREM ServicesAreListed == Spec => []ListingIsComplete
<1> DEFINE own == {ServiceName[i] : i \in {j \in Instance : Present(j)}}
           clash == {key \in Others : IsPrefix(Namespace, key)}
           strange == {splitKey(key)[1] : key \in clash}
           mine == {buildInstanceKey(i) : i \in {j \in Instance : Present(j)}}
           listed == {k \in mine \cup Others : IsPrefix(Namespace, k) /\ Len(splitKey(k)) >= 2}
<1>1. ListServices = {splitKey(key)[1] : key \in listed}
  BY DEF ListServices
<1>2. own \subseteq ListServices
  <2> SUFFICES ASSUME NEW i \in Instance, Present(i) PROVE ServiceName[i] \in ListServices
    OBVIOUS
  <2>1. buildInstanceKey(i) \in listed
    BY InstanceParts
  <2>2. splitKey(buildInstanceKey(i))[1] = ServiceName[i]
    BY InstanceParts
  <2> HIDE DEF listed
  <2> QED BY <1>1, <2>1, <2>2
<1>3. ListServices \ own \subseteq strange
  <2> SUFFICES ASSUME NEW key \in listed, splitKey(key)[1] \notin own PROVE key \in clash
    BY <1>1
  <2>1. CASE key \in mine
    <3>1. PICK i \in Instance : Present(i) /\ key = buildInstanceKey(i)
      BY <2>1
    <3>2. splitKey(key)[1] = ServiceName[i]
      BY <3>1, InstanceParts
    <3> QED BY <3>1, <3>2
  <2> QED BY <2>1
<1>4. IsFiniteSet(strange) /\ Cardinality(strange) <= Cardinality(clash)
  <2>1. IsFiniteSet(clash)
    <3>1. IsFiniteSet(Others) /\ clash \in SUBSET Others
      BY NamesAssumption
    <3> HIDE DEF clash
    <3> QED BY <3>1, FS_Subset
  <2> DEFINE g == [key \in clash |-> splitKey(key)[1]]
  <2>2. g \in Surjection(clash, strange)
    BY DEF Surjection
  <2> HIDE DEF clash, strange, g
  <2> QED BY <2>1, <2>2, FS_Surjection
<1>5. Cardinality(ListServices \ own) <= Cardinality(clash)
  <2> DEFINE more == ListServices \ own
  <2>1. more \in SUBSET strange
    BY <1>3
  <2> HIDE DEF more, strange, clash
  <2>2. /\ IsFiniteSet(more) /\ Cardinality(more) <= Cardinality(strange)
    BY <1>4, <2>1, FS_Subset
  <2>3. IsFiniteSet(clash)
    <3>1. IsFiniteSet(Others) /\ clash \in SUBSET Others
      BY NamesAssumption DEF clash
    <3> QED BY <3>1, FS_Subset
  <2>4. Cardinality(more) \in Nat /\ Cardinality(strange) \in Nat /\ Cardinality(clash) \in Nat
    BY <1>4, <2>2, <2>3, FS_CardinalityType
  <2> QED BY <1>4, <2>2, <2>4 DEF more
<1>6. ListingIsComplete
  BY <1>2, <1>5 DEF ListingIsComplete
<1> QED BY <1>6, PTL

=============================================================================
