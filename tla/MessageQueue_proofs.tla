------------------------- MODULE MessageQueue_proofs -------------------------
(***************************************************************************)
(* Theorems about MessageQueue for any number of calls, partitions, messages *)
(* and faults.  Each implementation has an invariant of its own, which the   *)
(* steps of the others keep because they leave its variables alone, and      *)
(* because messages are only ever produced and given.                       *)
(***************************************************************************)
EXTENDS MessageQueue, TLAPS, FiniteSetTheorems, SequenceTheorems

----------------------------------------------------------------------------
(* The invariants                                                           *)

\* Every message of the group from where it began up to n was given.
GivenUpTo(p, n) == \A o \in base[p] .. n - 1 : <<p, o>> \in given

\* A claim is past its marks, and past what was committed when it began; what is
\* behind it was given.
ClaimInv(p) ==
  /\ claim[p].pc = "handle" => claim[p].pos < produced[p]
  /\ GivenUpTo(p, claim[p].pos)
  /\ claim[p].marked # None =>
       GivenUpTo(p, claim[p].marked) /\ claim[p].marked <= claim[p].pos
  /\ committed[p] # None =>
       /\ GivenUpTo(p, committed[p])
       /\ claim[p].pc # "off" => committed[p] <= claim[p].pos
       /\ claim[p].marked # None => committed[p] <= claim[p].marked

\* Setup never closes a channel twice.
ReadyIsOpen == \A s \in Sub : loop[s] = "consume" => ready[s] = "open"

GroupInv == ReadyIsOpen /\ \A p \in Partition : ClaimInv(p)

\* A call that has not been made has no goroutines.
IdleIsOff ==
  kind = "seek" => \A s \in Sub : main[s] = "idle" => \A p \in Partition : worker[s][p].pc = "off"

\* What a goroutine has in hand, or a closed consumer in its channel, is stored.
HeldIsLog ==
  /\ \A p \in Partition : \A o \in buffered[p] : <<p, o>> \in Log
  /\ \A s \in Sub, p \in Partition :
       worker[s][p].pc = "handle" => <<p, worker[s][p].msg>> \in Log

SeekInv == IdleIsOff /\ HeldIsLog /\ NonePassedOver

\* What a closure has in hand is nowhere else; what it has handled was given and
\* accepted, and so was what the client was told is consumed.  When it is called
\* with one message at a time nothing is given up that was not given.
RocketInv ==
  /\ \A p \in Partition :
       /\ BatchMax = 1 => batch[p].handled = {} /\ \A o, q \in batch[p].left : o = q
       /\ \A o \in batch[p].left \cup batch[p].handled :
            <<p, o>> \in Log /\ status[<<p, o>>] = "batch"
       /\ \A o \in batch[p].handled : <<p, o>> \in given \cap accepted
  /\ accepted \subseteq given
  /\ AckedWereAccepted
  /\ BatchMax = 1 => \A m \in Message : status[m] \in {"acked", "stored", "dead"} => m \in given

\* A sender is at the first message it has no result for.
SenderInv(c) ==
  /\ send[c].pc = "idle" => acked[c] = 0
  /\ send[c].pc \in {"sending", "failed"} => send[c].at = acked[c] + 1 /\ acked[c] < BatchLen

\* The first n messages of c are in q, no others but the next one, and each has
\* the ones before it in front of it.
InOrder(q, c, n) ==
  /\ \A m \in 1 .. n : \E i \in DOMAIN q : q[i] = <<c, m>>
  /\ \A i \in DOMAIN q : \A m \in 1 .. BatchLen : q[i] = <<c, m>> =>
       /\ m <= n + 1
       /\ \A l \in 1 .. m - 1 : \E j \in 1 .. i - 1 : q[j] = <<c, l>>

StoredInOrder == \A c \in Sender : InOrder(stored, c, acked[c])

ProducerInv == (\A c \in Sender : SenderInv(c)) /\ StoredInOrder

IInv == TypeOK /\ GroupInv /\ SeekInv /\ RocketInv /\ ProducerInv

----------------------------------------------------------------------------
(* Natural numbers                                                          *)

\* Induction, for a set: were n missing, x + 1 would map the elements up to n
\* into all of them but 0, which are fewer.
LEMMA Induction ==
  ASSUME NEW S, 0 \in S, \A n \in Nat : n \in S => n + 1 \in S
  PROVE  Nat \subseteq S
<1> SUFFICES ASSUME NEW n \in Nat, n \notin S PROVE FALSE
  OBVIOUS
<1> DEFINE A == S \cap (0 .. n)
           B == A \ {0}
           f == [x \in A |-> x + 1]
<1>1. IsFiniteSet(A)
  <2>1. IsFiniteSet(0 .. n)
    BY FS_Interval
  <2> HIDE DEF A
  <2>2. A \in SUBSET (0 .. n)
    BY DEF A
  <2> QED BY <2>1, <2>2, FS_Subset
<1>2. IsFiniteSet(B) /\ Cardinality(B) = Cardinality(A) - 1 /\ Cardinality(A) \in Nat
  <2>1. 0 \in A
    OBVIOUS
  <2> HIDE DEF A, f
  <2>2. IsFiniteSet(A \ {0}) /\ Cardinality(A \ {0}) = Cardinality(A) - 1
    BY <1>1, <2>1, FS_RemoveElement
  <2>3. Cardinality(A) \in Nat
    BY <1>1, FS_CardinalityType
  <2> QED BY <2>2, <2>3
<1>3. f \in [A -> B]
  <2>1. \A x \in A : x + 1 \in B
    <3> SUFFICES ASSUME NEW x \in A PROVE x + 1 \in B
      OBVIOUS
    <3>1. x \in Nat /\ x <= n /\ x \in S
      OBVIOUS
    <3>2. x # n
      BY <3>1
    <3> QED BY <3>1, <3>2
  <2> QED BY <2>1
<1>4. Cardinality(B) < Cardinality(A)
  <2> HIDE DEF A, B
  <2> QED BY <1>2
<1>6. A \subseteq Nat
  OBVIOUS
<1> HIDE DEF f, B, A
<1>5. PICK x, y \in A : x # y /\ f[x] = f[y]
  BY <1>1, <1>2, <1>3, <1>4, FS_PigeonHole
<1> QED BY <1>5, <1>6 DEF f

LEMMA LeastIs ==
  ASSUME NEW os \in SUBSET Nat, os # {}
  PROVE  Least(os) \in os /\ \A q \in os : Least(os) <= q
<1> DEFINE S == {n \in Nat : \A k \in 0 .. n : k \notin os}
<1>1. SUFFICES \E o \in os : \A q \in os : o <= q
  BY DEF Least
<1>2. CASE 0 \in os
  BY <1>2
<1>3. CASE 0 \notin os
  <2>1. 0 \in S
    BY <1>3
  <2>2. PICK n \in Nat : n \in S /\ n + 1 \notin S
    <3>1. ~(Nat \subseteq S)
      <4>1. PICK w \in os : w \in Nat
        OBVIOUS
      <4>2. w \in 0 .. w
        BY <4>1
      <4>3. w \notin S
        BY <4>2
      <4> QED BY <4>1, <4>3
    <3> HIDE DEF S
    <3> QED BY <2>1, <3>1, Induction
  <2>3. \A k \in Nat : k <= n => k \notin os
    BY <2>2
  <2>4. n + 1 \in os
    BY <2>2
  <2>5. \A q \in os : n + 1 <= q
    BY <2>3
  <2> QED BY <2>4, <2>5
<1> QED BY <1>2, <1>3

----------------------------------------------------------------------------
(* What a step of one implementation leaves of the others                   *)

Grows ==
  /\ given \subseteq given'
  /\ produced \in [Partition -> 0 .. MaxOffset] /\ produced' \in [Partition -> 0 .. MaxOffset]
  /\ \A p \in Partition : produced[p] <= produced'[p]

LEMMA LogGrows == Grows => Log \subseteq Log'
<1> SUFFICES ASSUME Grows, NEW p \in Partition, NEW o \in Offset, o < produced[p]
             PROVE  o < produced'[p]
  BY DEF Log, Message
<1> USE MqAssumption
<1>1. o \in Nat /\ produced[p] \in Nat /\ produced'[p] \in Nat /\ produced[p] <= produced'[p]
  BY DEF Offset, Grows
<1> QED BY <1>1

LEMMA ClaimKept ==
  ASSUME IInv, Grows, NEW p \in Partition, claim'[p] = claim[p], UNCHANGED <<committed, base>>
  PROVE  ClaimInv(p)'
<1>1. given \subseteq given'
  BY DEF Grows
<1>2. \A n : GivenUpTo(p, n) => \A o \in base'[p] .. n - 1 : <<p, o>> \in given'
  BY <1>1 DEF GivenUpTo
<1>3. claim[p].pc = "handle" => claim[p].pos < produced'[p]
  <2>1. claim[p].pos \in Nat /\ produced[p] \in Nat /\ produced'[p] \in Nat
        /\ produced[p] <= produced'[p]
    BY MqAssumption DEF IInv, TypeOK, GroupTypeOK, ClaimState, Grows
  <2>2. claim[p].pc = "handle" => claim[p].pos < produced[p]
    BY DEF IInv, GroupInv, ClaimInv
  <2> QED BY <2>1, <2>2
<1>4. ClaimInv(p)
  BY DEF IInv, GroupInv
<1>5. /\ \A o \in base'[p] .. claim'[p].pos - 1 : <<p, o>> \in given'
      /\ claim'[p].marked # None => \A o \in base'[p] .. claim'[p].marked - 1 : <<p, o>> \in given'
      /\ committed'[p] # None => \A o \in base'[p] .. committed'[p] - 1 : <<p, o>> \in given'
  BY <1>2, <1>4 DEF ClaimInv
<1> QED BY <1>3, <1>4, <1>5 DEF ClaimInv, GivenUpTo

LEMMA GroupKept ==
  ASSUME IInv, Grows, UNCHANGED groupVars
  PROVE  GroupTypeOK' /\ GroupInv'
<1>1. GroupTypeOK'
  BY DEF IInv, TypeOK, GroupTypeOK, groupVars
<1>2. ReadyIsOpen'
  BY DEF IInv, GroupInv, ReadyIsOpen, groupVars
<1>3. ASSUME NEW p \in Partition PROVE ClaimInv(p)'
  BY ClaimKept DEF groupVars
<1> QED BY <1>1, <1>2, <1>3 DEF GroupInv

LEMMA SeekKept ==
  ASSUME IInv, Grows, kind # "seek", UNCHANGED <<kind, seekVars>>
  PROVE  SeekTypeOK' /\ SeekInv'
<1>1. Log \subseteq Log'
  BY LogGrows
<1> QED BY <1>1 DEF IInv, TypeOK, SeekTypeOK, SeekInv, IdleIsOff, HeldIsLog, NonePassedOver, seekVars

LEMMA RocketKept ==
  ASSUME IInv, Grows, UNCHANGED rocketVars
  PROVE  RocketTypeOK' /\ RocketInv'
<1>1. Log \subseteq Log'
  BY LogGrows
<1>2. RocketTypeOK'
  BY <1>1 DEF IInv, TypeOK, RocketTypeOK, rocketVars
<1>3. RocketInv'
  BY <1>1 DEF IInv, RocketInv, AckedWereAccepted, rocketVars, Grows
<1> QED BY <1>2, <1>3

LEMMA ProducerKept ==
  ASSUME IInv, UNCHANGED producerVars
  PROVE  ProducerTypeOK' /\ ProducerInv'
<1>1. ProducerTypeOK'
  BY DEF IInv, TypeOK, ProducerTypeOK, producerVars
<1>2. ASSUME NEW c \in Sender PROVE SenderInv(c)'
  BY DEF IInv, ProducerInv, SenderInv, producerVars
<1>3. StoredInOrder'
  <2>1. UNCHANGED <<stored, acked>> /\ StoredInOrder
    BY DEF IInv, ProducerInv, producerVars
  <2> QED BY <2>1 DEF StoredInOrder
<1> QED BY <1>1, <1>2, <1>3 DEF ProducerInv

----------------------------------------------------------------------------
(* The steps around a consumer                                              *)

LEMMA FaultType == faults \in 0 .. MaxFaults /\ Fault => faults' \in 0 .. MaxFaults
BY MqAssumption DEF Fault

LEMMA Unmoved ==
  ASSUME ClientTypeOK, UNCHANGED <<produced, given>>
  PROVE  Grows /\ Log' = Log
<1>1. \A p \in Partition : produced[p] <= produced[p]
  BY MqAssumption DEF ClientTypeOK
<1> QED BY <1>1 DEF ClientTypeOK, Grows, Log

LEMMA ProduceType ==
  ASSUME ClientTypeOK, NEW p \in Partition, Produce(p)
  PROVE  ClientTypeOK' /\ Grows
<1> USE MqAssumption
<1>1. produced' = [produced EXCEPT ![p] = @ + 1] /\ produced[p] < MaxOffset
      /\ UNCHANGED <<given, main, done, cancel, told, closing, faults>>
  BY DEF Produce
<1>2. produced[p] \in Nat /\ produced[p] + 1 \in 0 .. MaxOffset
  BY <1>1 DEF ClientTypeOK
<1>3. produced' \in [Partition -> 0 .. MaxOffset]
  BY <1>1, <1>2 DEF ClientTypeOK
<1>4. \A q \in Partition : produced[q] <= produced'[q]
  <2>1. \A q \in Partition : produced[q] \in Nat /\ produced'[q] \in {produced[q], produced[q] + 1}
    BY <1>1 DEF ClientTypeOK
  <2> QED BY <2>1
<1>5. Grows
  BY <1>1, <1>3, <1>4 DEF Grows, ClientTypeOK
<1>6. given' \subseteq Log'
  BY <1>1, <1>5, LogGrows DEF ClientTypeOK
<1> QED BY <1>1, <1>3, <1>5, <1>6 DEF ClientTypeOK

LEMMA CancelType ==
  ASSUME ClientTypeOK, NEW s \in Sub, CancelContext(s)
  PROVE  ClientTypeOK' /\ Grows
<1>1. Grows /\ Log' = Log
  BY Unmoved DEF CancelContext
<1> QED BY <1>1 DEF ClientTypeOK, CancelContext

LEMMA CrashType ==
  ASSUME ClientTypeOK, ProcessDies
  PROVE  ClientTypeOK' /\ Grows
<1>1. Grows /\ Log' = Log
  BY Unmoved DEF ProcessDies
<1>2. faults' \in 0 .. MaxFaults
  BY FaultType DEF ProcessDies, ClientTypeOK
<1>3. main' \in [Sub -> MainPc] /\ done' \in [Sub -> BOOLEAN]
  BY DEF ProcessDies, MainPc
<1> QED BY <1>1, <1>2, <1>3 DEF ClientTypeOK, ProcessDies

\* A step that touches only what Subscribe and Close keep of their calls.
LEMMA CallType ==
  ASSUME ClientTypeOK, UNCHANGED <<produced, given>>,
         main' = main \/ \E s \in Sub, pc \in MainPc : MainGoto(s, pc),
         done' = done \/ CancelLast,
         cancel' \in Sub \cup {None}, told' \in Sub \cup {None},
         closing' \in {"open", "waiting", "closed"},
         faults' \in 0 .. MaxFaults
  PROVE  ClientTypeOK' /\ Grows
<1>1. Grows /\ Log' = Log
  BY Unmoved
<1>2. main' \in [Sub -> MainPc]
  BY DEF ClientTypeOK, MainGoto
<1>3. done' \in [Sub -> BOOLEAN]
  <2>1. CASE CancelLast
    BY <2>1 DEF CancelLast
  <2> QED BY <2>1 DEF ClientTypeOK
<1> QED BY <1>1, <1>2, <1>3 DEF ClientTypeOK

LEMMA GivenType ==
  ASSUME ClientTypeOK, NEW m \in Log, given' = given \cup {m},
         UNCHANGED <<produced, main, done, cancel, told, closing, faults>>
  PROVE  ClientTypeOK' /\ Grows
<1>1. \A p \in Partition : produced[p] <= produced[p]
  BY MqAssumption DEF ClientTypeOK
<1>2. Log' = Log
  BY DEF Log
<1> QED BY <1>1, <1>2 DEF ClientTypeOK, Grows

----------------------------------------------------------------------------
(* Steps of the group's consumer                                            *)

GroupOK == ClientTypeOK' /\ Grows /\ GroupTypeOK' /\ GroupInv'

\* Steps that leave claims and commits alone.
LEMMA GroupCallStep ==
  ASSUME IInv, UNCHANGED <<produced, given, config, claim, committed, base>>,
         main' = main \/ \E s \in Sub, pc \in MainPc : MainGoto(s, pc),
         done' = done \/ CancelLast,
         cancel' \in Sub \cup {None}, told' \in Sub \cup {None},
         closing' \in {"open", "waiting", "closed"},
         faults' \in 0 .. MaxFaults,
         loop' \in [Sub -> LoopPc], ready' \in [Sub -> {"open", "closed"}], ReadyIsOpen'
  PROVE  GroupOK
<1>1. ClientTypeOK' /\ Grows
  BY CallType DEF IInv, TypeOK
<1>2. \A p \in Partition : ClaimInv(p)'
  BY <1>1, ClaimKept
<1>3. GroupTypeOK'
  BY DEF IInv, TypeOK, GroupTypeOK
<1> QED BY <1>1, <1>2, <1>3 DEF GroupOK, GroupInv

LEMMA ReturnedType ==
  ASSUME IInv, NEW s \in Sub, ConsumeReturned(s)
  PROVE  /\ main' = main \/ \E t \in Sub, pc \in MainPc : MainGoto(t, pc)
         /\ loop' \in [Sub -> LoopPc] /\ ready' \in [Sub -> {"open", "closed"}] /\ ReadyIsOpen'
<1> USE DEF IInv, TypeOK, GroupTypeOK, GroupInv, ReadyIsOpen, LoopGoto, LoopPc
<1>1. CASE done[s]
  BY <1>1 DEF ConsumeReturned
<1>2. CASE ~done[s]
  <2>1. /\ loop' = [loop EXCEPT ![s] = "consume"] /\ ready' = [ready EXCEPT ![s] = "open"]
        /\ MainGoto(s, IF main[s] = "wait" THEN "lost" ELSE main[s])
    BY <1>2 DEF ConsumeReturned
  <2>2. (IF main[s] = "wait" THEN "lost" ELSE main[s]) \in MainPc
    BY DEF ClientTypeOK, MainPc
  <2>3. \E t \in Sub, pc \in MainPc : MainGoto(t, pc)
    BY <2>1, <2>2
  <2> QED BY <2>1, <2>3
<1> QED BY <1>1, <1>2

LEMMA GroupCalls ==
  ASSUME IInv, NEW s \in Sub,
         \/ GroupSubscribe(s) \/ GroupSpawn(s) \/ GroupReadReady(s)
         \/ GroupConsumeFails(s) \/ GroupSessionEnds(s)
  PROVE  GroupOK
<1>0. /\ ClientTypeOK /\ ReadyIsOpen /\ loop \in [Sub -> LoopPc] /\ ready \in [Sub -> {"open", "closed"}]
      /\ cancel \in Sub \cup {None} /\ told \in Sub \cup {None} /\ closing \in {"open", "waiting", "closed"}
      /\ faults \in 0 .. MaxFaults
  BY DEF IInv, TypeOK, GroupTypeOK, GroupInv, ClientTypeOK
<1>1. CASE GroupSubscribe(s)
  <2>1. MainGoto(s, "opened") /\ "opened" \in MainPc
        /\ UNCHANGED <<produced, given, done, told, closing, faults, config, loop, ready, claim,
                       committed, base>> /\ cancel' = s
    BY <1>1 DEF GroupSubscribe, MainPc, NewContext, groupVars
  <2>2. ReadyIsOpen'
    BY <1>0, <2>1 DEF ReadyIsOpen
  <2> QED BY <1>0, <2>1, <2>2, GroupCallStep
<1>5. CASE GroupSpawn(s)
  <2>1. MainGoto(s, "start") /\ "start" \in MainPc
    BY <1>5 DEF GroupSpawn, MainPc
  <2>2. loop' = [loop EXCEPT ![s] = "consume"] /\ ready' = [ready EXCEPT ![s] = "open"]
        /\ UNCHANGED <<produced, given, done, cancel, told, closing, faults, config, claim,
                       committed, base>>
    BY <1>5 DEF GroupSpawn, LoopGoto
  <2>3. loop' \in [Sub -> LoopPc] /\ ready' \in [Sub -> {"open", "closed"}] /\ ReadyIsOpen'
    BY <1>0, <2>2 DEF LoopPc, ReadyIsOpen
  <2> QED BY <1>0, <2>1, <2>2, <2>3, GroupCallStep
<1>2. CASE GroupReadReady(s)
  <2>1. PICK pc \in MainPc : MainGoto(s, pc)
    BY <1>2 DEF GroupReadReady, MainPc
  <2>2. UNCHANGED <<produced, given, done, cancel, told, closing, faults, config, loop, ready, claim,
                    committed, base>>
    BY <1>2 DEF GroupReadReady, groupVars
  <2>3. ReadyIsOpen'
    BY <1>0, <2>2 DEF ReadyIsOpen
  <2> QED BY <1>0, <2>1, <2>2, <2>3, GroupCallStep
<1>3. CASE GroupConsumeFails(s)
  <2>1. UNCHANGED <<produced, given, done, cancel, told, closing, config, claim, committed, base>>
        /\ ConsumeReturned(s) /\ faults' \in 0 .. MaxFaults
    BY <1>0, <1>3, FaultType DEF GroupConsumeFails
  <2> QED BY <1>0, <2>1, ReturnedType, GroupCallStep
<1>4. CASE GroupSessionEnds(s)
  <2>1. UNCHANGED <<produced, given, main, done, cancel, told, closing, config, ready, claim, committed, base>>
        /\ loop' = [loop EXCEPT ![s] = "leaving"] /\ faults' \in 0 .. MaxFaults
    BY <1>0, <1>4, FaultType DEF GroupSessionEnds, LoopGoto
  <2>2. loop' \in [Sub -> LoopPc] /\ ReadyIsOpen'
    BY <1>0, <2>1 DEF LoopPc, ReadyIsOpen
  <2> QED BY <1>0, <2>1, <2>2, GroupCallStep
<1> QED BY <1>1, <1>2, <1>3, <1>4, <1>5

LEMMA GroupCloses ==
  ASSUME IInv, GroupClose \/ GroupClosed
  PROVE  GroupOK
<1>1. /\ UNCHANGED <<produced, given, main, cancel, faults, config, loop, ready, claim, committed, base>>
      /\ done' = done \/ CancelLast
      /\ told' \in {told, cancel}
      /\ closing' \in {"open", "waiting", "closed"}
  BY DEF GroupClose, GroupClosed, CancelLast, groupVars
<1>2. /\ loop' \in [Sub -> LoopPc] /\ ready' \in [Sub -> {"open", "closed"}] /\ ReadyIsOpen'
      /\ cancel' \in Sub \cup {None} /\ told' \in Sub \cup {None} /\ faults' \in 0 .. MaxFaults
  BY <1>1 DEF IInv, TypeOK, GroupTypeOK, ClientTypeOK, GroupInv, ReadyIsOpen
<1> QED BY <1>1, <1>2, GroupCallStep

LEMMA StartType ==
  ASSUME IInv, NEW p \in Partition
  PROVE  StartOf(p) \in 0 .. MaxOffset /\ (committed[p] # None => StartOf(p) = committed[p])
<1>1. committed[p] \in (0 .. MaxOffset) \cup {None} /\ produced[p] \in 0 .. MaxOffset
      /\ 0 \in 0 .. MaxOffset
  BY MqAssumption DEF IInv, TypeOK, GroupTypeOK, ClientTypeOK
<1>2. CASE committed[p] # None
  <2>1. StartOf(p) = committed[p]
    BY <1>2 DEF StartOf
  <2> QED BY <1>1, <1>2, <2>1
<1>3. CASE committed[p] = None /\ config.initial = "oldest"
  <2>1. StartOf(p) = 0
    BY <1>3 DEF StartOf
  <2> QED BY <1>1, <1>3, <2>1
<1>4. CASE committed[p] = None /\ config.initial # "oldest"
  <2>1. StartOf(p) = produced[p]
    BY <1>4 DEF StartOf
  <2> QED BY <1>1, <1>4, <2>1
<1> QED BY <1>2, <1>3, <1>4

LEMMA SetupStep ==
  ASSUME IInv, NEW s \in Sub, GroupSetup(s)
  PROVE  GroupOK
<1>0. ClientTypeOK /\ GroupTypeOK /\ ReadyIsOpen
  BY DEF IInv, TypeOK, GroupInv
<1> DEFINE begun(p) == [pc |-> "select", pos |-> StartOf(p), marked |-> None]
<1>1. /\ UNCHANGED <<produced, given, done, cancel, told, closing, faults, config, committed>>
      /\ claim' = [p \in Partition |-> begun(p)]
      /\ base' = [p \in Partition |-> IF committed[p] = None THEN StartOf(p) ELSE base[p]]
      /\ loop[s] = "consume" /\ loop' = [loop EXCEPT ![s] = "session"]
      /\ ready' = [ready EXCEPT ![s] = IF @ = "open" THEN "closed" ELSE "panic"]
      /\ MainGoto(s, IF main[s] = "wait" THEN "returned" ELSE main[s])
  BY DEF GroupSetup, LoopGoto
<1>2. (IF main[s] = "wait" THEN "returned" ELSE main[s]) \in MainPc
  BY <1>0 DEF ClientTypeOK, MainPc
<1>3. ClientTypeOK' /\ Grows
  <2>1. cancel \in Sub \cup {None} /\ told \in Sub \cup {None} /\ closing \in {"open", "waiting", "closed"}
        /\ faults \in 0 .. MaxFaults
    BY <1>0 DEF ClientTypeOK
  <2> QED BY <1>0, <1>1, <1>2, <2>1, CallType
<1>4. ready[s] = "open"
  BY <1>0, <1>1 DEF ReadyIsOpen
<1>5. loop' \in [Sub -> LoopPc] /\ ready' \in [Sub -> {"open", "closed"}] /\ ReadyIsOpen'
  BY <1>0, <1>1, <1>4 DEF GroupTypeOK, LoopPc, ReadyIsOpen
<1>6. \A p \in Partition : begun(p) \in ClaimState
  BY StartType DEF ClaimState
<1>7. claim' \in [Partition -> ClaimState] /\ \A p \in Partition : claim'[p] = begun(p)
  BY <1>1, <1>6
<1>8. base' \in [Partition -> 0 .. MaxOffset]
  BY <1>0, <1>1, StartType DEF GroupTypeOK
<1>9. GroupTypeOK'
  BY <1>0, <1>1, <1>5, <1>7, <1>8 DEF GroupTypeOK
<1>10. ASSUME NEW p \in Partition PROVE ClaimInv(p)'
  <2>1. claim'[p].pc = "select" /\ claim'[p].pos = StartOf(p) /\ claim'[p].marked = None
    BY <1>7
  <2>2. committed[p] \in (0 .. MaxOffset) \cup {None} /\ StartOf(p) \in Nat
    BY <1>0, StartType DEF GroupTypeOK
  <2>3. CASE committed[p] = None
    <3>1. base'[p] = StartOf(p)
      BY <1>1, <2>3
    <3>2. \A o \in base'[p] .. claim'[p].pos - 1 : FALSE
      BY <2>1, <2>2, <3>1
    <3> QED BY <1>1, <2>1, <2>3, <3>2 DEF ClaimInv, GivenUpTo
  <2>4. CASE committed[p] # None
    <3>1. base'[p] = base[p] /\ StartOf(p) = committed[p] /\ committed[p] \in Nat
      BY <1>1, <2>2, <2>4, StartType
    <3>2. GivenUpTo(p, committed[p])
      BY <2>4 DEF IInv, GroupInv, ClaimInv
    <3>3. \A o \in base'[p] .. committed'[p] - 1 : <<p, o>> \in given'
      BY <1>1, <3>1, <3>2 DEF GivenUpTo
    <3>4. committed[p] <= committed[p]
      BY <3>1
    <3> QED BY <1>1, <2>1, <3>1, <3>3, <3>4 DEF ClaimInv, GivenUpTo
  <2> QED BY <2>3, <2>4
<1> QED BY <1>3, <1>5, <1>9, <1>10 DEF GroupOK, GroupInv

\* What the claims of a session leave behind.
LEMMA EndedStep ==
  ASSUME IInv, Grows, NEW p \in Partition, claim'[p] = NoClaim, base' = base,
         committed'[p] = committed[p] \/ committed'[p] = Flushed[p]
  PROVE  ClaimInv(p)' /\ committed'[p] \in (0 .. MaxOffset) \cup {None}
<1>1. claim[p] \in ClaimState /\ committed[p] \in (0 .. MaxOffset) \cup {None}
      /\ base[p] \in Nat /\ ClaimInv(p)
  BY DEF IInv, TypeOK, GroupTypeOK, GroupInv
<1>2. Flushed[p] = IF claim[p].marked = None THEN committed[p] ELSE claim[p].marked
  BY DEF Flushed
<1>3. claim[p].marked \in (0 .. MaxOffset) \cup {None}
  BY <1>1 DEF ClaimState
<1>4. committed'[p] \in (0 .. MaxOffset) \cup {None}
  BY <1>1, <1>2, <1>3
<1>5. committed'[p] # None => \A o \in base'[p] .. committed'[p] - 1 : <<p, o>> \in given'
  BY <1>1, <1>2 DEF ClaimInv, GivenUpTo, Grows
<1>6. \A o \in base'[p] .. 0 - 1 : FALSE
  BY <1>1
<1> QED BY <1>4, <1>5, <1>6 DEF ClaimInv, GivenUpTo, NoClaim

LEMMA ReleaseStep ==
  ASSUME IInv, NEW s \in Sub, GroupRelease(s)
  PROVE  GroupOK
<1>0. ClientTypeOK /\ GroupTypeOK
  BY DEF IInv, TypeOK
<1>1. /\ UNCHANGED <<produced, given, done, cancel, told, closing, config, base>>
      /\ claim' = [p \in Partition |-> NoClaim]
      /\ committed' = committed \/ committed' = Flushed
      /\ ConsumeReturned(s)
  BY DEF GroupRelease
<1>2. faults' \in 0 .. MaxFaults
  BY <1>0, FaultType DEF GroupRelease, ClientTypeOK
<1>3. ClientTypeOK' /\ Grows
  <2>1. cancel \in Sub \cup {None} /\ told \in Sub \cup {None} /\ closing \in {"open", "waiting", "closed"}
    BY <1>0 DEF ClientTypeOK
  <2> QED BY <1>0, <1>1, <1>2, <2>1, CallType, ReturnedType
<1>4. \A p \in Partition : ClaimInv(p)' /\ committed'[p] \in (0 .. MaxOffset) \cup {None}
  BY <1>1, <1>3, EndedStep
<1>5. committed' \in [Partition -> (0 .. MaxOffset) \cup {None}]
  <2>1. Flushed \in [Partition -> (0 .. MaxOffset) \cup {None}]
    BY <1>0 DEF Flushed, GroupTypeOK, ClaimState
  <2> QED BY <1>0, <1>1, <2>1 DEF GroupTypeOK
<1>6. NoClaim \in ClaimState
  BY MqAssumption DEF NoClaim, ClaimState
<1>7. GroupTypeOK'
  BY <1>0, <1>1, <1>5, <1>6, ReturnedType DEF GroupTypeOK
<1> QED BY <1>1, <1>3, <1>4, <1>7, ReturnedType DEF GroupOK, GroupInv

LEMMA GroupCrashStep ==
  ASSUME IInv, GroupCrash
  PROVE  GroupOK
<1>0. ClientTypeOK /\ GroupTypeOK
  BY DEF IInv, TypeOK
<1>1. ClientTypeOK' /\ Grows
  BY <1>0, CrashType DEF GroupCrash
<1>2. /\ UNCHANGED <<config, committed, base>> /\ claim' = [p \in Partition |-> NoClaim]
      /\ loop' = [s \in Sub |-> "off"] /\ ready' = [s \in Sub |-> "open"]
  BY DEF GroupCrash
<1>3. \A p \in Partition : ClaimInv(p)'
  BY <1>1, <1>2, EndedStep
<1>4. NoClaim \in ClaimState
  BY MqAssumption DEF NoClaim, ClaimState
<1>5. GroupTypeOK' /\ ReadyIsOpen'
  BY <1>0, <1>2, <1>4 DEF GroupTypeOK, ReadyIsOpen, LoopPc
<1> QED BY <1>1, <1>3, <1>5 DEF GroupOK, GroupInv

LEMMA AutoCommitStep ==
  ASSUME IInv, GroupAutoCommit
  PROVE  GroupOK
<1>0. ClientTypeOK /\ GroupTypeOK
  BY DEF IInv, TypeOK
<1>1. /\ UNCHANGED <<produced, given, main, done, cancel, told, closing, faults>>
      /\ UNCHANGED <<config, loop, ready, claim, base>> /\ committed' = Flushed
  BY DEF GroupAutoCommit, clientVars
<1>2. ClientTypeOK' /\ Grows
  <2>1. Grows /\ Log' = Log
    BY <1>0, <1>1, Unmoved
  <2> QED BY <1>0, <1>1, <2>1 DEF ClientTypeOK
<1>3. Flushed \in [Partition -> (0 .. MaxOffset) \cup {None}]
  BY <1>0 DEF Flushed, GroupTypeOK, ClaimState
<1>4. GroupTypeOK' /\ ReadyIsOpen'
  BY <1>0, <1>1, <1>3 DEF GroupTypeOK, ReadyIsOpen, IInv, GroupInv
<1>5. ASSUME NEW p \in Partition PROVE ClaimInv(p)'
  <2>1. committed'[p] = IF claim[p].marked = None THEN committed[p] ELSE claim[p].marked
    BY <1>1 DEF Flushed
  <2>2. claim[p] \in ClaimState /\ ClaimInv(p)
    BY <1>0 DEF GroupTypeOK, IInv, GroupInv
  <2>3. CASE claim[p].marked = None
    BY <1>1, <2>1, <2>2, <2>3 DEF ClaimInv, GivenUpTo
  <2>4. CASE claim[p].marked # None
    <3>1. committed'[p] = claim[p].marked /\ claim[p].marked \in Nat
      BY <2>1, <2>2, <2>4 DEF ClaimState
    <3>2. claim[p].marked <= claim[p].marked
      BY <3>1
    <3> QED BY <1>1, <2>2, <2>4, <3>1, <3>2 DEF ClaimInv, GivenUpTo
  <2> QED BY <2>3, <2>4
<1> QED BY <1>2, <1>4, <1>5 DEF GroupOK, GroupInv

\* The steps of ConsumeClaim.
LEMMA ClaimStep ==
  ASSUME IInv, NEW p \in Partition, NEW pc, NEW pos, NEW marked, ClaimGoto(p, pc, pos, marked),
         [pc |-> pc, pos |-> pos, marked |-> marked] \in ClaimState,
         ClientTypeOK', Grows, UNCHANGED <<config, loop, ready, committed, base>>,
         pc = "handle" => pos < produced'[p],
         \A o \in base[p] .. pos - 1 : <<p, o>> \in given',
         marked # None => marked <= pos,
         committed[p] # None => /\ pc # "off" => committed[p] <= pos
                                /\ marked # None => committed[p] <= marked
  PROVE  GroupOK
<1> DEFINE new == [pc |-> pc, pos |-> pos, marked |-> marked]
<1>0. GroupTypeOK /\ ReadyIsOpen /\ \A q \in Partition : ClaimInv(q)
  BY DEF IInv, TypeOK, GroupInv
<1>1. claim' = [claim EXCEPT ![p] = new] /\ new \in ClaimState
  BY DEF ClaimGoto
<1>2. new.pc = pc /\ new.pos = pos /\ new.marked = marked
  OBVIOUS
<1> HIDE DEF new
<1>3. claim' \in [Partition -> ClaimState] /\ claim'[p] = new
      /\ \A q \in Partition : q # p => claim'[q] = claim[q]
  BY <1>0, <1>1 DEF GroupTypeOK
<1>4. GroupTypeOK' /\ ReadyIsOpen'
  BY <1>0, <1>3 DEF GroupTypeOK, ReadyIsOpen
<1>5. ASSUME NEW q \in Partition, q # p PROVE ClaimInv(q)'
  BY <1>3, <1>5, ClaimKept
<1>6. ClaimInv(p)'
  <2>1. committed[p] # None => \A o \in base'[p] .. committed'[p] - 1 : <<p, o>> \in given'
    BY <1>0 DEF ClaimInv, GivenUpTo, Grows
  <2>2. marked # None => \A o \in base'[p] .. marked - 1 : <<p, o>> \in given'
    <3>1. base[p] \in Nat /\ pos \in Nat /\ (marked # None => marked \in Nat)
      BY <1>0, <1>1, <1>2 DEF GroupTypeOK, ClaimState
    <3>2. marked # None => \A o \in base[p] .. marked - 1 : o \in base[p] .. pos - 1
      BY <3>1
    <3> QED BY <3>2
  <2> QED BY <1>2, <1>3, <2>1, <2>2 DEF ClaimInv, GivenUpTo
<1> QED BY <1>4, <1>5, <1>6 DEF GroupOK, GroupInv

LEMMA ClaimSteps_ ==
  ASSUME IInv, NEW p \in Partition, ClaimTake(p) \/ ClaimHandle(p) \/ ClaimLeave(p)
  PROVE  GroupOK
<1> DEFINE pos == claim[p].pos
           marked == claim[p].marked
           next == pos + 1
<1>0. /\ ClientTypeOK /\ claim[p] \in ClaimState /\ ClaimInv(p) /\ base[p] \in Nat
      /\ committed[p] \in (0 .. MaxOffset) \cup {None} /\ produced[p] \in 0 .. MaxOffset
  BY DEF IInv, TypeOK, ClientTypeOK, GroupTypeOK, GroupInv
<1>1. pos \in 0 .. MaxOffset /\ marked \in (0 .. MaxOffset) \cup {None}
  BY <1>0 DEF ClaimState
<1>2. \A o \in base[p] .. pos - 1 : <<p, o>> \in given
  BY <1>0 DEF ClaimInv, GivenUpTo
<1>3. marked # None => marked <= pos
  BY <1>0 DEF ClaimInv
<1>4. committed[p] # None => /\ claim[p].pc # "off" => committed[p] <= pos
                             /\ marked # None => committed[p] <= marked
  BY <1>0 DEF ClaimInv
<1>5. CASE ClaimTake(p) \/ ClaimLeave(p)
  <2>1. PICK pc \in {"handle", "off"} :
          /\ ClaimGoto(p, pc, pos, marked) /\ claim[p].pc = "select"
          /\ pc = "handle" => pos < produced[p]
    BY <1>5 DEF ClaimTake, ClaimLeave
  <2>2. UNCHANGED clientVars /\ UNCHANGED <<config, loop, ready, committed, base>>
    BY <1>5 DEF ClaimTake, ClaimLeave
  <2>3. ClientTypeOK' /\ Grows
    <3>1. Grows /\ Log' = Log
      BY <1>0, <2>2, Unmoved DEF clientVars
    <3> QED BY <1>0, <2>2, <3>1 DEF ClientTypeOK, clientVars
  <2>4. [pc |-> pc, pos |-> pos, marked |-> marked] \in ClaimState
    BY <1>1 DEF ClaimState
  <2>5. UNCHANGED <<produced, given>>
    BY <2>2 DEF clientVars
  <2> HIDE DEF pos, marked
  <2> QED BY <1>2, <1>3, <1>4, <2>1, <2>2, <2>3, <2>4, <2>5, ClaimStep
<1>6. CASE ClaimHandle(p)
  <2>1. PICK new \in {marked, next} : ClaimGoto(p, "select", next, new)
    BY <1>6 DEF ClaimHandle
  <2>2. /\ given' = given \cup {<<p, pos>>} /\ claim[p].pc = "handle"
        /\ UNCHANGED <<produced, main, done, cancel, told, closing, faults, config, loop, ready,
                       committed, base>>
    BY <1>6 DEF ClaimHandle
  <2>3. pos < produced[p]
    BY <1>0, <2>2 DEF ClaimInv
  <2>4. pos \in Offset /\ next \in 0 .. MaxOffset /\ pos \in Nat
    BY <1>0, <1>1, <2>3, MqAssumption DEF Offset
  <2>5. <<p, pos>> \in Log
    BY <2>3, <2>4 DEF Log, Message
  <2>6. ClientTypeOK' /\ Grows
    BY <1>0, <2>2, <2>5, GivenType
  <2>7. [pc |-> "select", pos |-> next, marked |-> new] \in ClaimState
    BY <1>1, <2>1, <2>4 DEF ClaimState
  <2>8. \A o \in base[p] .. next - 1 : <<p, o>> \in given'
    <3>1. \A o \in base[p] .. next - 1 : o = pos \/ o \in base[p] .. pos - 1
      BY <1>0, <2>4
    <3> QED BY <1>2, <2>2, <3>1
  <2>9. new # None => new <= next
    BY <1>1, <1>3, <2>1, <2>4, MqAssumption
  <2>10. committed[p] # None => committed[p] <= next /\ (new # None => committed[p] <= new)
    <3>1. committed[p] # None => committed[p] \in Nat /\ committed[p] <= pos
      BY <1>0, <1>4, <2>2
    <3>2. committed[p] # None => committed[p] <= next
      BY <2>4, <3>1
    <3> QED BY <1>4, <2>1, <3>2
  <2> HIDE DEF pos, marked, next
  <2> QED BY <2>1, <2>2, <2>6, <2>7, <2>8, <2>9, <2>10, ClaimStep
<1> QED BY <1>5, <1>6

LEMMA GroupStep ==
  ASSUME IInv, GroupNext, UNCHANGED <<kind, seekVars, rocketVars, producerVars>>
  PROVE  GroupOK
<1>0. ClientTypeOK
  BY DEF IInv, TypeOK
<1>1. ASSUME NEW s \in Sub, CancelContext(s) /\ UNCHANGED groupVars PROVE GroupOK
  BY <1>0, <1>1, CancelType, GroupKept DEF GroupOK
<1>2. ASSUME NEW p \in Partition, Produce(p) /\ UNCHANGED groupVars PROVE GroupOK
  BY <1>0, <1>2, ProduceType, GroupKept DEF GroupOK
<1> QED
  BY <1>1, <1>2, GroupCalls, GroupCloses, SetupStep, ReleaseStep, GroupCrashStep, AutoCommitStep, ClaimSteps_
     DEF GroupNext, GroupSteps, GroupConsume, ClaimSteps

----------------------------------------------------------------------------
(* Steps of the consumer without a group                                    *)

SeekOK == ClientTypeOK' /\ Grows /\ SeekTypeOK' /\ SeekInv'

NewWorker(s, p, w) == worker' = [worker EXCEPT ![s][p] = w]

LEMMA WorkerIs ==
  ASSUME SeekTypeOK, NEW s \in Sub, NEW p \in Partition, NEW w \in WorkerState, NewWorker(s, p, w)
  PROVE  /\ worker' \in [Sub -> [Partition -> WorkerState]]
         /\ worker'[s][p] = w
         /\ \A t \in Sub, q \in Partition : t # s \/ q # p => worker'[t][q] = worker[t][q]
<1>1. worker' = [worker EXCEPT ![s] = [worker[s] EXCEPT ![p] = w]]
  BY DEF NewWorker
<1>2. worker \in [Sub -> [Partition -> WorkerState]]
  BY DEF SeekTypeOK
<1>3. worker[s] \in [Partition -> WorkerState]
  BY <1>2
<1> DEFINE row == [worker[s] EXCEPT ![p] = w]
<1>4. row \in [Partition -> WorkerState] /\ row[p] = w /\ \A q \in Partition : q # p => row[q] = worker[s][q]
  BY <1>3
<1> HIDE DEF row
<1>5. worker' = [worker EXCEPT ![s] = row]
  BY <1>1 DEF row
<1> QED BY <1>2, <1>4, <1>5

\* A step that moves the goroutine of s for p, which is not in the middle of a
\* message or is done with it; it may have taken one.
LEMMA WorkerStep ==
  ASSUME IInv, NEW s \in Sub, NEW p \in Partition, NEW w \in WorkerState, NewWorker(s, p, w),
         UNCHANGED <<produced, main, kind, seeking, manual>>, ClientTypeOK', Grows,
         cur' \in [Partition -> ConsumerState],
         buffered' \in [Partition -> SUBSET Offset],
         \A q \in Partition : buffered'[q] \subseteq buffered[q],
         worker[s][p].pc # "off",
         w.pc = "handle" => <<p, w.msg>> \in Log,
         passed' \in [Partition -> SUBSET Offset],
         \A q \in Partition : \A o \in passed'[q] :
           \/ o \in passed[q]
           \/ q = p /\ w.pc = "handle" /\ ~w.old /\ w.msg = o,
         worker[s][p].pc = "handle" /\ ~worker[s][p].old => worker[s][p].msg \notin passed'[p]
  PROVE  SeekOK
<1>0. ClientTypeOK /\ SeekTypeOK /\ IdleIsOff /\ HeldIsLog /\ NonePassedOver
  BY DEF IInv, TypeOK, SeekInv
<1>1. Log' = Log
  BY DEF Log
<1>2. worker'[s][p] = w
  BY <1>0, WorkerIs
<1>3. /\ worker' \in [Sub -> [Partition -> WorkerState]]
      /\ \A t \in Sub, q \in Partition : t # s \/ q # p => worker'[t][q] = worker[t][q]
  BY <1>0, WorkerIs
<1>4. SeekTypeOK'
  BY <1>0, <1>3 DEF SeekTypeOK
<1>5. IdleIsOff'
  <2> SUFFICES ASSUME kind = "seek", NEW t \in Sub, main[t] = "idle", NEW q \in Partition
               PROVE  worker'[t][q].pc = "off"
    BY DEF IdleIsOff
  <2>1. t # s
    BY <1>0 DEF IdleIsOff
  <2> QED BY <1>0, <1>3, <2>1 DEF IdleIsOff
<1>7. HeldIsLog'
  <2>1. \A q \in Partition : \A o \in buffered'[q] : <<q, o>> \in Log'
    BY <1>0, <1>1 DEF HeldIsLog
  <2>2. ASSUME NEW t \in Sub, NEW q \in Partition, worker'[t][q].pc = "handle"
        PROVE  <<q, worker'[t][q].msg>> \in Log'
    BY <1>0, <1>1, <1>2, <1>3, <2>2 DEF HeldIsLog
  <2> QED BY <2>1, <2>2 DEF HeldIsLog
<1>6. NonePassedOver'
  <2> SUFFICES ASSUME NEW q \in Partition, NEW o \in passed'[q]
               PROVE  \E t \in Sub : worker'[t][q].pc = "handle" /\ ~worker'[t][q].old
                                     /\ worker'[t][q].msg = o
    BY DEF NonePassedOver
  <2>1. CASE q = p /\ w.pc = "handle" /\ ~w.old /\ w.msg = o
    BY <1>2, <2>1
  <2>2. CASE o \in passed[q]
    <3>1. PICK t \in Sub : worker[t][q].pc = "handle" /\ ~worker[t][q].old /\ worker[t][q].msg = o
      BY <1>0, <2>2 DEF NonePassedOver
    <3>2. t # s \/ q # p
      BY <3>1
    <3> QED BY <1>3, <3>1, <3>2
  <2> QED BY <2>1, <2>2
<1> QED BY <1>4, <1>5, <1>6, <1>7 DEF SeekOK, SeekInv

\* A step that leaves the goroutines alone, and what they passed over.
LEMMA SeekCallStep ==
  ASSUME IInv, UNCHANGED <<kind, passed, worker>>, ClientTypeOK', Grows,
         cur' \in [Partition -> ConsumerState], seeking' \in SeekState, manual' \in ManualState,
         buffered' \in [Partition -> SUBSET Offset],
         \A p \in Partition : \A o \in buffered'[p] : <<p, o>> \in Log,
         \A s \in Sub : main'[s] = "idle" => main[s] = "idle"
  PROVE  SeekOK
<1>1. SeekTypeOK'
  BY DEF IInv, TypeOK, SeekTypeOK
<1>2. IdleIsOff'
  BY DEF IInv, SeekInv, IdleIsOff
<1>3. NonePassedOver'
  BY DEF IInv, SeekInv, NonePassedOver
<1>4. HeldIsLog'
  BY LogGrows DEF IInv, SeekInv, HeldIsLog
<1> QED BY <1>1, <1>2, <1>3, <1>4 DEF SeekOK, SeekInv

LEMMA SeekSubscribeStep ==
  ASSUME IInv, NEW s \in Sub, SeekSubscribe(s), kind = "seek", kind' = kind
  PROVE  SeekOK
<1>0. ClientTypeOK /\ SeekTypeOK /\ IdleIsOff /\ HeldIsLog /\ NonePassedOver
  BY DEF IInv, TypeOK, SeekInv
<1>1. /\ UNCHANGED <<produced, given, told, closing, faults, cur, buffered, passed, seeking, manual>>
      /\ main[s] = "idle" /\ MainGoto(s, "blocked") /\ cancel' = s /\ done' = done
      /\ worker' = [worker EXCEPT ![s] = [p \in Partition |-> [NoWorker EXCEPT !.pc = "new"]]]
  BY DEF SeekSubscribe, NewContext
<1>2. ClientTypeOK' /\ Grows
  <2>1. /\ closing \in {"open", "waiting", "closed"} /\ faults \in 0 .. MaxFaults
        /\ "blocked" \in MainPc /\ told \in Sub \cup {None}
    BY <1>0 DEF ClientTypeOK, MainPc
  <2> QED BY <1>0, <1>1, <2>1, CallType
<1> DEFINE w == [NoWorker EXCEPT !.pc = "new"]
<1>3. w \in WorkerState /\ w.pc = "new"
  BY MqAssumption DEF NoWorker, WorkerState
<1> HIDE DEF w
<1>4. /\ worker' \in [Sub -> [Partition -> WorkerState]]
      /\ \A t \in Sub : t # s => worker'[t] = worker[t]
      /\ \A p \in Partition : worker'[s][p] = w
  <2>1. worker' = [worker EXCEPT ![s] = [p \in Partition |-> w]]
    BY <1>1 DEF w
  <2> QED BY <1>0, <1>3, <2>1 DEF SeekTypeOK
<1>5. SeekTypeOK'
  BY <1>0, <1>1, <1>4 DEF SeekTypeOK
<1>6. IdleIsOff'
  <2> SUFFICES ASSUME NEW t \in Sub, main'[t] = "idle", NEW q \in Partition
               PROVE  worker'[t][q].pc = "off"
    BY DEF IdleIsOff
  <2>1. t # s /\ main[t] = "idle"
    BY <1>0, <1>1 DEF MainGoto, ClientTypeOK
  <2> QED BY <1>0, <1>4, <2>1 DEF IdleIsOff
<1>7. NonePassedOver'
  <2> SUFFICES ASSUME NEW q \in Partition, NEW o \in passed[q]
               PROVE  \E t \in Sub : worker'[t][q].pc = "handle" /\ ~worker'[t][q].old
                                     /\ worker'[t][q].msg = o
    BY <1>1 DEF NonePassedOver
  <2>1. PICK t \in Sub : worker[t][q].pc = "handle" /\ ~worker[t][q].old /\ worker[t][q].msg = o
    BY <1>0 DEF NonePassedOver
  <2>2. t # s
    BY <1>0, <1>1, <2>1 DEF IdleIsOff
  <2> QED BY <1>4, <2>1, <2>2
<1>8. HeldIsLog'
  BY <1>0, <1>1, <1>3, <1>4 DEF HeldIsLog, Log
<1> QED BY <1>2, <1>5, <1>6, <1>7, <1>8 DEF SeekOK, SeekInv

LEMMA SeekWorkerSteps ==
  ASSUME IInv, NEW s \in Sub, NEW p \in Partition, kind' = kind,
         SeekSpawn(s, p) \/ SeekHandle(s, p) \/ SeekLeave(s, p)
  PROVE  SeekOK
<1>0. /\ worker[s][p] \in WorkerState /\ passed \in [Partition -> SUBSET Offset]
      /\ cur \in [Partition -> ConsumerState] /\ buffered \in [Partition -> SUBSET Offset]
      /\ ClientTypeOK /\ HeldIsLog
  BY DEF IInv, TypeOK, SeekTypeOK, SeekInv
<1>1. CASE SeekSpawn(s, p) \/ SeekLeave(s, p)
  <2>1. PICK w : w \in WorkerState /\ NewWorker(s, p, w) /\ w.pc # "handle"
    <3>1. CASE SeekSpawn(s, p)
      <4> DEFINE w == [NoWorker EXCEPT !.pc = "select"]
      <4>1. w \in WorkerState /\ w.pc # "handle" /\ NewWorker(s, p, w)
        BY <3>1, MqAssumption DEF SeekSpawn, NewWorker, NoWorker, WorkerState
      <4> QED BY <4>1
    <3>2. CASE SeekLeave(s, p)
      <4> DEFINE w == [pc |-> "off", old |-> worker[s][p].old, msg |-> None]
      <4>1. w \in WorkerState /\ w.pc # "handle" /\ NewWorker(s, p, w)
        BY <1>0, <3>2, MqAssumption DEF SeekLeave, WorkerGoto, NewWorker, WorkerState
      <4> QED BY <4>1
    <3> QED BY <1>1, <3>1, <3>2
  <2>2. /\ UNCHANGED <<clientVars, cur, buffered, passed, seeking, manual>>
        /\ worker[s][p].pc \in {"new", "select"}
    BY <1>1 DEF SeekSpawn, SeekLeave
  <2>3. ClientTypeOK' /\ Grows
    <3>1. Grows /\ Log' = Log
      BY <1>0, <2>2, Unmoved DEF clientVars
    <3> QED BY <1>0, <2>2, <3>1 DEF ClientTypeOK, clientVars
  <2> QED BY <1>0, <2>1, <2>2, <2>3, WorkerStep DEF clientVars
<1>2. CASE SeekHandle(s, p)
  <2> DEFINE w == [pc |-> "select", old |-> worker[s][p].old, msg |-> None]
  <2>1. w \in WorkerState /\ NewWorker(s, p, w)
    BY <1>0, <1>2 DEF SeekHandle, WorkerGoto, NewWorker, WorkerState
  <2> DEFINE m0 == <<p, worker[s][p].msg>>
  <2>2. /\ UNCHANGED <<produced, main, done, cancel, told, closing, faults, cur, buffered, seeking,
                       manual>>
        /\ worker[s][p].pc = "handle" /\ Handled(s, p)
    BY <1>2 DEF SeekHandle
  <2>4. ClientTypeOK' /\ Grows
    <3>1. m0 \in Log /\ given' = given \cup {m0}
      BY <1>0, <2>2 DEF HeldIsLog, Handled
    <3> HIDE DEF m0
    <3> QED BY <1>0, <2>2, <3>1, GivenType
  <2>5. w.pc # "handle"
    OBVIOUS
  <2>3. /\ passed' \in [Partition -> SUBSET Offset]
        /\ \A q \in Partition : passed'[q] \subseteq passed[q]
        /\ ~worker[s][p].old => worker[s][p].msg \notin passed'[p]
    BY <1>0, <2>2 DEF Handled
  <2> HIDE DEF w
  <2> QED BY <1>0, <2>1, <2>2, <2>3, <2>4, <2>5, WorkerStep
<1> QED BY <1>1, <1>2

LEMMA ReadableOffset ==
  ASSUME IInv, NEW p \in Partition, Readable(p)
  PROVE  <<p, cur[p]>> \in Log /\ cur[p] \in Offset
         /\ [cur EXCEPT ![p] = @ + 1] \in [Partition -> ConsumerState]
<1>1. cur \in [Partition -> ConsumerState] /\ produced[p] \in 0 .. MaxOffset
  BY DEF IInv, TypeOK, ClientTypeOK, SeekTypeOK
<1>2. cur[p] \in 0 .. MaxOffset /\ cur[p] < produced[p]
  BY <1>1 DEF Readable, ConsumerState
<1>3. cur[p] \in Offset /\ cur[p] + 1 \in ConsumerState
  BY <1>1, <1>2, MqAssumption DEF Offset, ConsumerState
<1>4. <<p, cur[p]>> \in Log
  BY <1>2, <1>3 DEF Log, Message
<1> QED BY <1>1, <1>3, <1>4

LEMMA SeekTakeStep ==
  ASSUME IInv, NEW s \in Sub, NEW p \in Partition, SeekTake(s, p) \/ SeekTakeBuffered(s, p),
         kind' = kind
  PROVE  SeekOK
<1>0. ClientTypeOK /\ SeekTypeOK /\ HeldIsLog /\ worker[s][p] \in WorkerState
  BY DEF IInv, TypeOK, SeekInv, SeekTypeOK
<1>1. UNCHANGED <<clientVars, seeking, manual>> /\ worker[s][p].pc = "select"
  BY DEF SeekTake, SeekTakeBuffered
<1>2. ClientTypeOK' /\ Grows
  <2>1. Grows /\ Log' = Log
    BY <1>0, <1>1, Unmoved DEF clientVars
  <2> QED BY <1>0, <1>1, <2>1 DEF ClientTypeOK, clientVars
<1>3. UNCHANGED <<produced, main>>
  BY <1>1 DEF clientVars
<1>4. ASSUME NEW o \in Offset, <<p, o>> \in Log, WorkerGoto(s, p, "handle", o),
             cur' \in [Partition -> ConsumerState],
             buffered' \in [Partition -> SUBSET Offset],
             \A q \in Partition : buffered'[q] \subseteq buffered[q],
             passed' = IF worker[s][p].old THEN passed ELSE [passed EXCEPT ![p] = @ \cup {o}]
      PROVE  SeekOK
  <2> DEFINE w == [pc |-> "handle", old |-> worker[s][p].old, msg |-> o]
  <2>1. w \in WorkerState /\ NewWorker(s, p, w)
    BY <1>0, <1>4 DEF WorkerState, WorkerGoto, NewWorker
  <2>2. /\ passed' \in [Partition -> SUBSET Offset]
        /\ \A q \in Partition : \A r \in passed'[q] :
             r \in passed[q] \/ (q = p /\ ~worker[s][p].old /\ r = o)
    BY <1>0, <1>4 DEF SeekTypeOK
  <2>3. w.pc = "handle" /\ w.old = worker[s][p].old /\ w.msg = o
    OBVIOUS
  <2> HIDE DEF w
  <2> QED BY <1>1, <1>2, <1>3, <1>4, <2>1, <2>2, <2>3, WorkerStep
<1>5. CASE SeekTake(s, p)
  <2>1. /\ Readable(p) /\ ~worker[s][p].old /\ WorkerGoto(s, p, "handle", cur[p])
        /\ cur' = [cur EXCEPT ![p] = @ + 1] /\ buffered' = buffered
        /\ passed' = [passed EXCEPT ![p] = @ \cup {cur[p]}]
    BY <1>5 DEF SeekTake, Advance
  <2>2. cur[p] \in Offset /\ <<p, cur[p]>> \in Log /\ cur' \in [Partition -> ConsumerState]
    BY <2>1, ReadableOffset
  <2>3. buffered' \in [Partition -> SUBSET Offset]
    BY <1>0, <2>1 DEF SeekTypeOK
  <2> QED BY <1>4, <2>1, <2>2, <2>3
<1>6. CASE SeekTakeBuffered(s, p)
  <2>1. PICK o \in Offset :
          /\ TakeBuffered(p, o) /\ WorkerGoto(s, p, "handle", o) /\ cur' = cur
          /\ passed' = IF worker[s][p].old THEN passed ELSE [passed EXCEPT ![p] = @ \cup {o}]
    BY <1>6 DEF SeekTakeBuffered
  <2>2. /\ <<p, o>> \in Log /\ buffered' \in [Partition -> SUBSET Offset]
        /\ \A q \in Partition : buffered'[q] \subseteq buffered[q]
    BY <1>0, <2>1 DEF TakeBuffered, HeldIsLog, SeekTypeOK
  <2>3. cur' \in [Partition -> ConsumerState]
    BY <1>0, <2>1 DEF SeekTypeOK
  <2> QED BY <1>4, <2>1, <2>2, <2>3
<1> QED BY <1>5, <1>6

LEMMA SeekOpenStep ==
  ASSUME IInv, SeekOpen, kind' = kind
  PROVE  SeekOK
<1>0. ClientTypeOK /\ SeekTypeOK /\ IdleIsOff /\ HeldIsLog /\ NonePassedOver
  BY DEF IInv, TypeOK, SeekInv
<1> DEFINE p == seeking.at
<1>1. p \in Partition /\ seeking.offset \in 0 .. MaxOffset
  BY <1>0 DEF SeekOpen, SeekTypeOK, SeekState
<1>2. /\ UNCHANGED clientVars /\ buffered' = buffered
      /\ cur' = [cur EXCEPT ![p] = seeking.offset] /\ passed' = [passed EXCEPT ![p] = {}]
      /\ manual' = [manual EXCEPT !.old = @ \/ manual.at = p] /\ seeking' = NoSeek
      /\ worker' = [s \in Sub |->
           IF Started(s, p) THEN [worker[s] EXCEPT ![p].old = TRUE] ELSE worker[s]]
  BY DEF SeekOpen
<1> HIDE DEF p
<1>3. ASSUME NEW s \in Sub
      PROVE  /\ worker'[s] \in [Partition -> WorkerState]
             /\ \A q \in Partition : worker'[s][q].pc = worker[s][q].pc
                                     /\ worker'[s][q].msg = worker[s][q].msg
             /\ \A q \in Partition : q # p => worker'[s][q] = worker[s][q]
  <2>1. worker[s] \in [Partition -> WorkerState]
    BY <1>0 DEF SeekTypeOK
  <2>2. CASE Started(s, p)
    <3> DEFINE w == [worker[s][p] EXCEPT !.old = TRUE]
    <3>1. w \in WorkerState /\ w.pc = worker[s][p].pc /\ w.msg = worker[s][p].msg
      BY <1>1, <2>1 DEF WorkerState
    <3>2. worker'[s] = [worker[s] EXCEPT ![p] = w]
      BY <1>2, <2>2
    <3> HIDE DEF w
    <3> QED BY <1>1, <2>1, <3>1, <3>2
  <2>3. CASE ~Started(s, p)
    BY <1>2, <2>1, <2>3
  <2> QED BY <2>2, <2>3
<1>4. ClientTypeOK' /\ Grows
  <2>1. Grows /\ Log' = Log
    BY <1>0, <1>2, Unmoved DEF clientVars
  <2> QED BY <1>0, <1>2, <2>1 DEF ClientTypeOK, clientVars
<1>5. SeekTypeOK'
  <2>1. worker' \in [Sub -> [Partition -> WorkerState]]
    BY <1>2, <1>3
  <2>2. manual' \in ManualState
    BY <1>0, <1>2 DEF SeekTypeOK, ManualState
  <2>3. seeking' \in SeekState
    BY <1>2, MqAssumption DEF NoSeek, SeekState
  <2>4. /\ cur' \in [Partition -> ConsumerState] /\ passed' \in [Partition -> SUBSET Offset]
        /\ buffered' \in [Partition -> SUBSET Offset]
    BY <1>0, <1>1, <1>2 DEF SeekTypeOK, ConsumerState
  <2> QED BY <2>1, <2>2, <2>3, <2>4 DEF SeekTypeOK
<1>6. IdleIsOff'
  BY <1>0, <1>2, <1>3 DEF IdleIsOff, clientVars
<1>7. NonePassedOver'
  <2> SUFFICES ASSUME NEW q \in Partition, NEW o \in passed'[q]
               PROVE  \E t \in Sub : worker'[t][q].pc = "handle" /\ ~worker'[t][q].old
                                     /\ worker'[t][q].msg = o
    BY DEF NonePassedOver
  <2>1. q # p /\ o \in passed[q]
    BY <1>0, <1>2 DEF SeekTypeOK
  <2> QED BY <1>0, <1>3, <2>1 DEF NonePassedOver
<1>8. HeldIsLog'
  <2>1. Log' = Log
    BY <1>2 DEF Log, clientVars
  <2> QED BY <1>0, <1>2, <1>3, <2>1 DEF HeldIsLog
<1> QED BY <1>4, <1>5, <1>6, <1>7, <1>8 DEF SeekOK, SeekInv

LEMMA SeekCrashStep ==
  ASSUME IInv, SeekCrash
  PROVE  SeekOK
<1>1. ClientTypeOK' /\ Grows
  BY CrashType DEF SeekCrash, IInv, TypeOK
<1>2. NoWorker \in WorkerState /\ NoSeek \in SeekState /\ NoManual \in ManualState
  BY MqAssumption DEF NoWorker, WorkerState, NoSeek, SeekState, NoManual, ManualState
<1>3. SeekTypeOK'
  BY <1>1, <1>2 DEF SeekCrash, SeekTypeOK, ClientTypeOK, ConsumerState
<1>4. SeekInv'
  BY DEF SeekCrash, SeekInv, IdleIsOff, HeldIsLog, NonePassedOver, NoWorker
<1> QED BY <1>1, <1>3, <1>4 DEF SeekOK

\* Steps that leave the goroutines and their calls alone.
LEMMA SeekQuietSteps ==
  ASSUME IInv, kind' = kind,
         \/ SeekFails \/ ManualCall \/ ManualTake \/ ManualTakeBuffered \/ ManualSkip \/ ManualTimeout
         \/ SeekConsumerClose \/ SeekConsumerClosed
         \/ \E p \in Partition, o \in 0 .. MaxOffset : SeekClose(p, o)
  PROVE  SeekOK
<1>0. /\ ClientTypeOK /\ SeekTypeOK /\ NoSeek \in SeekState /\ NoManual \in ManualState
      /\ cancel \in Sub \cup {None} /\ told \in Sub \cup {None} /\ closing \in {"open", "waiting", "closed"}
      /\ faults \in 0 .. MaxFaults /\ HeldIsLog
  BY MqAssumption
     DEF IInv, TypeOK, ClientTypeOK, SeekInv, NoSeek, SeekState, NoManual, ManualState
<1> USE <1>0
<1> SUFFICES /\ UNCHANGED <<produced, given, main, cancel, passed, worker>>
             /\ done' = done \/ CancelLast
             /\ closing' \in {"open", "waiting", "closed"} /\ faults' \in 0 .. MaxFaults
             /\ cur' \in [Partition -> ConsumerState] /\ seeking' \in SeekState
             /\ manual' \in ManualState /\ told' \in Sub \cup {None}
             /\ buffered' \in [Partition -> SUBSET Offset]
             /\ \A p \in Partition : \A o \in buffered'[p] : <<p, o>> \in Log
  BY CallType, SeekCallStep
<1>1. CASE SeekFails
  BY <1>1, FaultType DEF SeekFails, SeekTypeOK, HeldIsLog
<1>2. CASE ManualTimeout
  BY <1>2 DEF ManualTimeout, SeekTypeOK, HeldIsLog, clientVars
<1>3. ASSUME NEW p \in Partition, NEW left \in SUBSET Partition, ManualNext(p, left)
      PROVE  manual' \in ManualState
  BY <1>3 DEF ManualNext, ManualState
<1>4. CASE ManualCall
  BY <1>3, <1>4 DEF ManualCall, SeekTypeOK, HeldIsLog, clientVars
<1>5. CASE ManualSkip
  <2>1. manual.left \in SUBSET Partition
    BY DEF SeekTypeOK, ManualState
  <2> QED BY <1>3, <1>5, <2>1 DEF ManualSkip, SeekTypeOK, HeldIsLog, clientVars
<1>6. CASE ManualTake
  <2>1. manual.at \in Partition /\ Readable(manual.at) /\ Advance(manual.at)
    BY <1>6 DEF ManualTake, SeekTypeOK, HeldIsLog, ManualState
  <2>2. cur' \in [Partition -> ConsumerState]
    BY <2>1, ReadableOffset DEF Advance
  <2> QED BY <1>6, <2>2 DEF ManualTake, SeekTypeOK, HeldIsLog, clientVars
<1>10. CASE ManualTakeBuffered
  BY <1>10 DEF ManualTakeBuffered, TakeBuffered, HeldIsLog, SeekTypeOK, clientVars
<1>7. CASE SeekConsumerClose
  BY <1>7 DEF SeekConsumerClose, CancelLast, SeekTypeOK, HeldIsLog, seekVars
<1>11. ASSUME NEW p \in Partition, NEW os \in Leaves(p)
       PROVE  os \subseteq Offset /\ \A o \in os : <<p, o>> \in Log
  <2>1. cur[p] \in ConsumerState /\ produced[p] \in 0 .. MaxOffset
    BY DEF SeekTypeOK, ClientTypeOK
  <2>2. CASE cur[p] = None
    BY <1>11, <2>2 DEF Leaves
  <2>3. CASE cur[p] # None
    <3>1. cur[p] \in Nat
      BY <2>1, <2>3 DEF ConsumerState
    <3>2. PICK n \in cur[p] .. produced[p] : os = cur[p] .. n - 1
      BY <1>11, <2>3 DEF Leaves
    <3>3. \A o \in os : o \in Offset /\ o < produced[p]
      BY <2>1, <3>1, <3>2, MqAssumption DEF Offset
    <3> QED BY <3>3 DEF Log, Message
  <2> QED BY <2>2, <2>3
<1>8. CASE SeekConsumerClosed
  <2>1. PICK left \in [Partition -> SUBSET Offset] :
          /\ \A p \in Partition : left[p] \in Leaves(p)
          /\ buffered' = [p \in Partition |-> buffered[p] \cup left[p]]
    BY <1>8 DEF SeekConsumerClosed
  <2>2. /\ buffered' \in [Partition -> SUBSET Offset]
        /\ \A p \in Partition : \A o \in buffered'[p] : <<p, o>> \in Log
    BY <1>11, <2>1 DEF SeekTypeOK, HeldIsLog
  <2> QED BY <1>8, <2>2 DEF SeekConsumerClosed, SeekTypeOK, ConsumerState
<1>9. CASE \E p \in Partition, o \in 0 .. MaxOffset : SeekClose(p, o)
  <2>1. PICK p \in Partition, o \in 0 .. MaxOffset : SeekClose(p, o)
    BY <1>9
  <2>2. PICK os \in Leaves(p) : buffered' = [buffered EXCEPT ![p] = @ \cup os]
    BY <2>1 DEF SeekClose
  <2>3. /\ buffered' \in [Partition -> SUBSET Offset]
        /\ \A q \in Partition : \A r \in buffered'[q] : <<q, r>> \in Log
    BY <1>11, <2>2 DEF SeekTypeOK, HeldIsLog
  <2> QED BY <2>1, <2>3 DEF SeekClose, SeekTypeOK, ConsumerState, SeekState, clientVars
<1> QED BY <1>1, <1>2, <1>4, <1>5, <1>6, <1>7, <1>8, <1>9, <1>10

LEMMA SeekStep ==
  ASSUME IInv, SeekNext, kind = "seek", UNCHANGED <<kind, groupVars, rocketVars, producerVars>>
  PROVE  SeekOK
<1>0. /\ ClientTypeOK /\ SeekTypeOK /\ cancel \in Sub \cup {None} /\ told \in Sub \cup {None}
      /\ closing \in {"open", "waiting", "closed"} /\ faults \in 0 .. MaxFaults /\ HeldIsLog
  BY DEF IInv, TypeOK, ClientTypeOK, SeekInv
<1>1. ASSUME ClientTypeOK', Grows, UNCHANGED seekVars,
             \A s \in Sub : main'[s] = "idle" => main[s] = "idle"
      PROVE  SeekOK
  BY <1>0, <1>1, SeekCallStep DEF SeekTypeOK, HeldIsLog, seekVars
<1>2. ASSUME NEW s \in Sub, CancelContext(s) /\ UNCHANGED seekVars PROVE SeekOK
  BY <1>0, <1>1, <1>2, CancelType DEF CancelContext
<1>3. ASSUME NEW p \in Partition, Produce(p) /\ UNCHANGED seekVars PROVE SeekOK
  BY <1>0, <1>1, <1>3, ProduceType DEF Produce
<1>4. ASSUME NEW s \in Sub, SeekReturn(s) PROVE SeekOK
  <2>1. MainGoto(s, "returned") /\ "returned" \in MainPc
        /\ UNCHANGED <<produced, given, done, cancel, told, closing, faults, seekVars>>
    BY <1>4 DEF SeekReturn, MainPc
  <2>2. ClientTypeOK' /\ Grows
    BY <1>0, <2>1, CallType
  <2>3. \A t \in Sub : main'[t] = "idle" => main[t] = "idle"
    BY <1>0, <2>1 DEF MainGoto, ClientTypeOK
  <2> QED BY <1>1, <2>1, <2>2, <2>3
<1> QED
  BY <1>2, <1>3, <1>4, SeekSubscribeStep, SeekWorkerSteps, SeekTakeStep, SeekOpenStep,
     SeekCrashStep, SeekQuietSteps
     DEF SeekNext, SeekSteps

----------------------------------------------------------------------------
(* Steps of RocketMQ's push consumer                                        *)

RocketOK == ClientTypeOK' /\ Grows /\ RocketTypeOK' /\ RocketInv'

\* Steps that leave the messages alone.
LEMMA RocketCallStep ==
  ASSUME IInv, ClientTypeOK', Grows, UNCHANGED <<status, tries, batch, accepted, broadcasting, from>>,
         start' \in [Partition -> (0 .. MaxOffset) \cup {None}],
         client' \in {"created", "running", "failed", "shutdown"}, suspended' \in BOOLEAN,
         callback' \in [Partition -> Sub \cup {None}]
  PROVE  RocketOK
<1>1. Log \subseteq Log'
  BY LogGrows
<1>2. RocketTypeOK'
  BY <1>1 DEF IInv, TypeOK, RocketTypeOK
<1>3. RocketInv'
  BY <1>1 DEF IInv, RocketInv, AckedWereAccepted, Grows
<1> QED BY <1>2, <1>3 DEF RocketOK

LEMMA RocketCalls ==
  ASSUME IInv, RocketPause \/ RocketResume \/ \E s \in Sub : RocketSubscribe(s) \/ RocketReturn(s)
  PROVE  RocketOK
<1>0. /\ ClientTypeOK /\ RocketTypeOK /\ cancel \in Sub \cup {None} /\ told \in Sub \cup {None}
      /\ closing \in {"open", "waiting", "closed"} /\ faults \in 0 .. MaxFaults
  BY DEF IInv, TypeOK, ClientTypeOK
<1>1. CASE RocketPause \/ RocketResume
  <2>1. UNCHANGED clientVars /\ UNCHANGED <<status, tries, batch, accepted, broadcasting, from, start, client,
                                          callback>>
        /\ suspended' \in BOOLEAN
    BY <1>1 DEF RocketPause, RocketResume
  <2>2. ClientTypeOK' /\ Grows
    <3>1. UNCHANGED <<produced, given, main, done, cancel, told, closing, faults>>
      BY <2>1 DEF clientVars
    <3> QED BY <1>0, <3>1, CallType
  <2> QED BY <1>0, <2>1, <2>2, RocketCallStep DEF RocketTypeOK
<1>2. ASSUME NEW s \in Sub, RocketSubscribe(s) \/ RocketReturn(s) PROVE RocketOK
  <2>1. /\ UNCHANGED <<produced, given, done, cancel, told, closing>>
        /\ UNCHANGED <<status, tries, batch, accepted, broadcasting, from, suspended>>
        /\ told' = told
        /\ faults' \in 0 .. MaxFaults
        /\ client' \in {"created", "running", "failed", "shutdown"}
        /\ callback' \in [Partition -> Sub \cup {None}]
    BY <1>0, <1>2, FaultType DEF RocketSubscribe, RocketReturn, rocketVars, RocketTypeOK
  <2>4. start' \in [Partition -> (0 .. MaxOffset) \cup {None}]
    <3>1. \A p \in Partition : FirstStart(p) \in 0 .. MaxOffset
      BY <1>0, MqAssumption DEF ClientTypeOK, FirstStart
    <3> QED BY <1>0, <1>2, <3>1 DEF RocketSubscribe, RocketReturn, rocketVars, RocketTypeOK
  <2>2. \E pc \in MainPc : MainGoto(s, pc)
    BY <1>2 DEF RocketSubscribe, RocketReturn, MainPc
  <2>3. ClientTypeOK' /\ Grows
    BY <1>0, <2>1, <2>2, CallType
  <2> QED BY <1>0, <2>1, <2>3, <2>4, RocketCallStep DEF RocketTypeOK
<1> QED BY <1>1, <1>2

\* The client puts messages that are ready in a batch.
LEMMA RocketPullStep ==
  ASSUME IInv, NEW p \in Partition, RocketPull(p)
  PROVE  RocketOK
<1>0. ClientTypeOK /\ RocketTypeOK /\ RocketInv
  BY DEF IInv, TypeOK
<1>1. PICK os \in SUBSET Deliverable(p) :
        /\ Cardinality(os) \in 1 .. BatchMax
        /\ batch' = [batch EXCEPT ![p] = [left |-> os, handled |-> {}, sub |-> callback[p]]]
        /\ status' = [m \in Message |-> IF m[1] = p /\ m[2] \in os THEN "batch" ELSE status[m]]
        /\ os \in SUBSET {o \in Offset : <<p, o>> \in Log /\ status[<<p, o>>] = "ready"}
  BY DEF RocketPull, Deliverable
<1>2. UNCHANGED clientVars /\ UNCHANGED <<broadcasting, from, start, client, suspended, callback, tries, accepted>>
  BY DEF RocketPull
<1>3. ClientTypeOK' /\ Grows /\ Log' = Log
  <2>1. Grows /\ Log' = Log
    BY <1>0, <1>2, Unmoved DEF clientVars
  <2> QED BY <1>0, <1>2, <2>1 DEF ClientTypeOK, clientVars
<1>4. status' \in [Message -> Status] /\ batch' \in [Partition -> BatchState]
  BY <1>0, <1>1 DEF RocketTypeOK, Status, BatchState
<1>5. RocketTypeOK'
  BY <1>0, <1>2, <1>3, <1>4 DEF RocketTypeOK
<1>6. ASSUME NEW q \in Partition, NEW o \in batch'[q].left \cup batch'[q].handled
      PROVE  <<q, o>> \in Log /\ status'[<<q, o>>] = "batch"
  <2>1. CASE q = p
    <3>1. o \in os /\ <<p, o>> \in Log /\ <<p, o>> \in Message
      BY <1>0, <1>1, <1>6, <2>1 DEF RocketTypeOK, Log
    <3> QED BY <1>1, <2>1, <3>1
  <2>2. CASE q # p
    <3>1. <<q, o>> \in Log /\ <<q, o>> \in Message /\ status[<<q, o>>] = "batch"
      BY <1>0, <1>1, <1>6, <2>2 DEF RocketTypeOK, RocketInv, Log
    <3> QED BY <1>1, <2>2, <3>1
  <2> QED BY <2>1, <2>2
<1>7. ASSUME NEW q \in Partition, NEW o \in batch'[q].handled PROVE <<q, o>> \in given \cap accepted
  BY <1>0, <1>1, <1>7 DEF RocketTypeOK, RocketInv
<1>8. \A m \in Message : status'[m] \in {"acked", "stored", "dead"} => status[m] = status'[m]
  BY <1>1
<1>9. ASSUME BatchMax = 1, NEW q \in Partition
      PROVE  batch'[q].handled = {} /\ \A o, r \in batch'[q].left : o = r
  <2>1. CASE q = p
    <3>1. IsFiniteSet(os) /\ Cardinality(os) = 1
      <4>1. IsFiniteSet(Offset) /\ os \in SUBSET Offset
        <5>1. MaxOffset - 1 \in Int /\ 0 \in Int
          BY MqAssumption
        <5>2. IsFiniteSet(0 .. MaxOffset - 1)
          BY ONLY <5>1, FS_Interval
        <5> QED BY <1>1, <5>2 DEF Offset
      <4>2. Cardinality(os) = 1
        BY <1>1, <1>9
      <4> QED BY <4>1, <4>2, FS_Subset
    <3>2. \E o : os = {o}
      BY <3>1, FS_Singleton
    <3>3. batch'[p].left = os /\ batch'[p].handled = {}
      BY <1>0, <1>1 DEF RocketTypeOK
    <3> QED BY <2>1, <3>2, <3>3
  <2>2. CASE q # p
    BY <1>0, <1>1, <1>9, <2>2 DEF RocketTypeOK, RocketInv
  <2> QED BY <2>1, <2>2
<1>10. given' = given
  BY <1>2 DEF clientVars
<1> QED
  BY <1>0, <1>2, <1>3, <1>5, <1>6, <1>7, <1>8, <1>9, <1>10
     DEF RocketOK, RocketInv, AckedWereAccepted

\* The closure has answered for its batch.
LEMMA AnswerStep ==
  ASSUME IInv, NEW p \in Partition, batch' = [batch EXCEPT ![p] = NoBatch],
         UNCHANGED <<broadcasting, from, start, client, suspended, callback>>, ClientTypeOK', Grows, Log' = Log,
         accepted \subseteq accepted', accepted' \subseteq given',
         tries' \in [Message -> 0 .. MaxReconsume], status' \in [Message -> Status],
         \A m \in Message : status'[m] # status[m] =>
           /\ m[1] = p
           /\ status'[m] \in {"acked", "stored"} => broadcasting \/ m \in accepted'
           /\ BatchMax = 1 => m \in given'
  PROVE  RocketOK
<1>0. RocketTypeOK /\ RocketInv
  BY DEF IInv, TypeOK
<1>1. batch' \in [Partition -> BatchState] /\ batch'[p] = NoBatch
      /\ \A q \in Partition : q # p => batch'[q] = batch[q]
  BY <1>0 DEF RocketTypeOK, BatchState, NoBatch
<1>2. RocketTypeOK'
  BY <1>0, <1>1 DEF RocketTypeOK, ClientTypeOK
<1>3. ASSUME NEW q \in Partition, NEW o \in batch'[q].left \cup batch'[q].handled
      PROVE  <<q, o>> \in Log /\ status'[<<q, o>>] = "batch"
  <2>1. q # p
    BY <1>1 DEF NoBatch
  <2>2. <<q, o>> \in Log /\ <<q, o>> \in Message /\ status[<<q, o>>] = "batch"
    BY <1>0, <1>1, <2>1 DEF RocketInv, Log
  <2> QED BY <2>1, <2>2
<1>4. ASSUME NEW q \in Partition
      PROVE  /\ \A o \in batch'[q].handled : <<q, o>> \in given' \cap accepted'
             /\ BatchMax = 1 => batch'[q].handled = {} /\ \A o, r \in batch'[q].left : o = r
  BY <1>0, <1>1 DEF RocketInv, NoBatch, Grows
<1>5. AckedWereAccepted'
  BY <1>0 DEF RocketInv, AckedWereAccepted
<1>6. BatchMax = 1 => \A m \in Message : status'[m] \in {"acked", "stored", "dead"} => m \in given'
  BY <1>0 DEF RocketInv, Grows
<1> QED BY <1>2, <1>3, <1>4, <1>5, <1>6 DEF RocketOK, RocketInv

LEMMA RocketHandleStep ==
  ASSUME IInv, NEW p \in Partition, RocketHandle(p)
  PROVE  RocketOK
<1> DEFINE o == Least(batch[p].left)
           left == batch[p].left \ {o}
           all == batch[p].handled \cup {o}
           m0 == <<p, o>>
<1>0. ClientTypeOK /\ RocketTypeOK /\ RocketInv
  BY DEF IInv, TypeOK
<1>1. /\ UNCHANGED <<produced, main, done, cancel, told, closing, faults, broadcasting, from,
                     start, client, suspended, callback>>
      /\ batch[p].left # {} /\ given' = given \cup {m0}
  BY DEF RocketHandle
<1>2. batch[p] \in BatchState /\ batch[p].left \in SUBSET Nat
  <2>1. batch[p] \in BatchState /\ batch[p].left \in SUBSET Offset
    BY <1>0 DEF RocketTypeOK, BatchState
  <2>2. Offset \subseteq Nat
    BY MqAssumption DEF Offset
  <2> QED BY <2>1, <2>2
<1>3. o \in batch[p].left
  BY <1>1, <1>2, LeastIs
<1>4. m0 \in Log /\ m0 \in Message /\ o \in Offset
  BY <1>0, <1>2, <1>3 DEF RocketInv, Log, BatchState
<1>5. ClientTypeOK' /\ Grows /\ Log' = Log
  <2>1. Log' = Log
    BY <1>1 DEF Log
  <2>2. UNCHANGED <<produced, main, done, cancel, told, closing, faults>>
    BY <1>1
  <2> HIDE DEF m0
  <2> QED BY <1>0, <1>1, <1>4, <2>1, <2>2, GivenType
<1>6. \A q \in batch[p].handled : <<p, q>> \in accepted /\ <<p, q>> \in given
  BY <1>0 DEF RocketInv
<1>7. BatchMax = 1 => left = {} /\ all = {o}
  BY <1>0, <1>3 DEF RocketInv
<1>8. \/ accepted' = accepted \cup {m0} /\ left = {} /\ Ack(p, all)
         /\ batch' = [batch EXCEPT ![p] = NoBatch]
      \/ accepted' = accepted \cup {m0} /\ left # {} /\ UNCHANGED <<status, tries>>
         /\ batch' = [batch EXCEPT ![p].left = left, ![p].handled = all]
      \/ accepted' = accepted /\ batch' = [batch EXCEPT ![p] = NoBatch]
         /\ IF broadcasting THEN Ack(p, all \cup left) ELSE SendBack(p, all \cup left)
  BY DEF RocketHandle
<1>9. accepted \subseteq given
  BY <1>0 DEF RocketInv
<1> HIDE DEF o, left, all
<1>10. CASE accepted' = accepted \cup {m0} /\ left = {} /\ Ack(p, all)
            /\ batch' = [batch EXCEPT ![p] = NoBatch]
  <2>1. status' = [m \in Message |-> IF m[1] = p /\ m[2] \in all THEN "acked" ELSE status[m]]
        /\ tries' = tries
    BY <1>10 DEF Ack
  <2>2. status' \in [Message -> Status] /\ tries' \in [Message -> 0 .. MaxReconsume]
    BY <1>0, <2>1 DEF RocketTypeOK, Status
  <2>3. ASSUME NEW m \in Message, status'[m] # status[m]
        PROVE  m[1] = p /\ m \in accepted' /\ m \in given'
    <3>1. m[1] = p /\ m[2] \in all /\ m = <<m[1], m[2]>>
      BY <2>1, <2>3 DEF Message
    <3> QED BY <1>1, <1>6, <1>10, <3>1 DEF all
  <2>4. accepted \subseteq accepted' /\ accepted' \subseteq given'
    BY <1>1, <1>9, <1>10
  <2> QED BY <1>1, <1>5, <1>10, <2>2, <2>3, <2>4, AnswerStep
<1>11. CASE accepted' = accepted \cup {m0} /\ left # {} /\ UNCHANGED <<status, tries>>
            /\ batch' = [batch EXCEPT ![p].left = left, ![p].handled = all]
  <2>1. BatchMax # 1
    BY <1>7, <1>11
  <2>2. left \subseteq batch[p].left /\ all = batch[p].handled \cup {o}
    BY DEF left, all
  <2>3. /\ batch' \in [Partition -> BatchState] /\ batch'[p].left = left /\ batch'[p].handled = all
        /\ \A q \in Partition : q # p => batch'[q] = batch[q]
    BY <1>0, <1>2, <1>4, <1>11, <2>2 DEF RocketTypeOK, BatchState
  <2>4. accepted' \subseteq Log /\ accepted' \subseteq given'
    BY <1>0, <1>1, <1>4, <1>9, <1>11 DEF RocketTypeOK
  <2>5. RocketTypeOK'
    BY <1>0, <1>1, <1>5, <1>11, <2>3, <2>4 DEF RocketTypeOK
  <2>6. ASSUME NEW q \in Partition
        PROVE  /\ \A r \in batch'[q].left \cup batch'[q].handled :
                    <<q, r>> \in Log /\ status[<<q, r>>] = "batch"
               /\ \A r \in batch'[q].handled : <<q, r>> \in given' \cap accepted'
    <3>1. CASE q = p
      <4>1. batch'[q].left \cup batch'[q].handled \subseteq batch[p].left \cup batch[p].handled
        BY <1>3, <2>2, <2>3, <3>1
      <4>2. \A r \in batch'[q].handled : <<q, r>> \in given' \cap accepted'
        BY <1>1, <1>6, <1>11, <2>2, <2>3, <3>1
      <4> QED BY <1>0, <3>1, <4>1, <4>2 DEF RocketInv
    <3>2. CASE q # p
      BY <1>0, <1>1, <1>11, <2>3, <3>2 DEF RocketInv
    <3> QED BY <3>1, <3>2
  <2>7. AckedWereAccepted'
    BY <1>0, <1>1, <1>11 DEF RocketInv, AckedWereAccepted
  <2> QED BY <1>5, <1>11, <2>1, <2>4, <2>5, <2>6, <2>7 DEF RocketOK, RocketInv
<1>12. CASE accepted' = accepted /\ batch' = [batch EXCEPT ![p] = NoBatch]
            /\ IF broadcasting THEN Ack(p, all \cup left) ELSE SendBack(p, all \cup left)
  <2>1. /\ status' \in [Message -> Status] /\ tries' \in [Message -> 0 .. MaxReconsume]
        /\ \A m \in Message : status'[m] # status[m] =>
             /\ m[1] = p /\ m[2] \in all \cup left
             /\ status'[m] \in {"acked", "stored"} => broadcasting
    <3>1. CASE broadcasting
      <4>1. status' = [m \in Message |->
                         IF m[1] = p /\ m[2] \in all \cup left THEN "acked" ELSE status[m]]
            /\ tries' = tries
        BY <1>12, <3>1 DEF Ack
      <4> QED BY <1>0, <3>1, <4>1 DEF RocketTypeOK, Status
    <3>2. CASE ~broadcasting
      <4> DEFINE back == {m \in Message : m[1] = p /\ m[2] \in all \cup left}
      <4>1. /\ status' = [m \in Message |->
                            IF m \in back THEN IF tries[m] = MaxReconsume THEN "dead" ELSE "ready"
                            ELSE status[m]]
            /\ tries' = [m \in Message |->
                           IF m \in back /\ tries[m] < MaxReconsume THEN tries[m] + 1 ELSE tries[m]]
        BY <1>12, <3>2 DEF SendBack
      <4>2. status' \in [Message -> Status]
        BY <1>0, <4>1 DEF RocketTypeOK, Status
      <4>3. \A m \in Message : tries[m] \in 0 .. MaxReconsume
        BY <1>0 DEF RocketTypeOK
      <4>4. \A m \in Message : tries[m] < MaxReconsume => tries[m] + 1 \in 0 .. MaxReconsume
        BY <4>3, RocketAssumption
      <4>5. tries' \in [Message -> 0 .. MaxReconsume]
        BY <4>1, <4>3, <4>4
      <4> QED BY <4>1, <4>2, <4>5
    <3> QED BY <3>1, <3>2
  <2>2. ASSUME BatchMax = 1, NEW m \in Message, status'[m] # status[m] PROVE m \in given'
    <3>1. m[1] = p /\ m[2] = o /\ m = <<m[1], m[2]>>
      BY <1>7, <2>1, <2>2 DEF Message
    <3> QED BY <1>1, <3>1
  <2>3. accepted \subseteq accepted' /\ accepted' \subseteq given'
    BY <1>1, <1>9, <1>12
  <2> QED BY <1>1, <1>5, <1>12, <2>1, <2>2, <2>3, AnswerStep
<1> QED BY <1>8, <1>10, <1>11, <1>12

\* The client reports, or forgets, what it was told.
LEMMA ReportStep ==
  ASSUME IInv, RocketStore \/ RocketClose \/ RocketCrash
  PROVE  RocketOK
<1>0. ClientTypeOK /\ RocketTypeOK /\ RocketInv
  BY DEF IInv, TypeOK
<1>1. ClientTypeOK' /\ Grows /\ given' = given /\ Log' = Log
  <2>1. CASE RocketCrash
    BY <1>0, <2>1, CrashType, Unmoved DEF RocketCrash, ProcessDies
  <2>2. CASE RocketStore
    <3>1. Grows /\ Log' = Log
      BY <1>0, <2>2, Unmoved DEF RocketStore, clientVars
    <3> QED BY <1>0, <2>2, <3>1 DEF RocketStore, clientVars, ClientTypeOK
  <2>3. CASE RocketClose
    <3>1. Grows /\ Log' = Log
      BY <1>0, <2>3, Unmoved DEF RocketClose
    <3> QED BY <1>0, <2>3, <3>1 DEF RocketClose, ClientTypeOK
  <2> QED BY <2>1, <2>2, <2>3
<1>2. UNCHANGED <<broadcasting, from, tries, accepted>>
  BY DEF RocketStore, RocketClose, RocketCrash
<1>3. /\ status' \in [Message -> Status]
      /\ \A m \in Message :
           status'[m] \in {"acked", "stored", "dead"} => status[m] \in {"acked", "stored", "dead"}
      /\ \A m \in Message : status'[m] \in {"acked", "stored"} => status[m] \in {"acked", "stored"}
  BY <1>0 DEF RocketStore, RocketClose, RocketCrash, RocketTypeOK, Status
<1>4. \/ batch' = batch /\ \A m \in Message : status[m] = "batch" => status'[m] = "batch"
      \/ batch' = [p \in Partition |-> NoBatch]
  BY <1>0 DEF RocketStore, RocketClose, RocketCrash, RocketTypeOK
<1>5. NoBatch \in BatchState /\ NoBatch.left = {} /\ NoBatch.handled = {}
  BY DEF NoBatch, BatchState
<1>6. batch' \in [Partition -> BatchState]
  BY <1>0, <1>4, <1>5 DEF RocketTypeOK
<1>11. start' \in [Partition -> (0 .. MaxOffset) \cup {None}]
  BY <1>0 DEF RocketStore, RocketClose, RocketCrash, RocketTypeOK
<1>7. RocketTypeOK'
  BY <1>0, <1>1, <1>2, <1>3, <1>6, <1>11
     DEF RocketStore, RocketClose, RocketCrash, RocketTypeOK
<1>8. Log \subseteq Message
  BY DEF Log
<1>9. ASSUME NEW p \in Partition
      PROVE  /\ \A o \in batch'[p].left \cup batch'[p].handled :
                  <<p, o>> \in Log /\ status'[<<p, o>>] = "batch"
             /\ \A o \in batch'[p].handled : <<p, o>> \in given \cap accepted
             /\ BatchMax = 1 => batch'[p].handled = {} /\ \A o, q \in batch'[p].left : o = q
  <2>1. CASE batch' = batch /\ \A m \in Message : status[m] = "batch" => status'[m] = "batch"
    BY <1>0, <1>8, <2>1 DEF RocketInv
  <2>2. CASE batch' = [q \in Partition |-> NoBatch]
    BY <1>5, <2>2
  <2> QED BY <1>4, <2>1, <2>2
<1>10. AckedWereAccepted'
  BY <1>0, <1>2, <1>3 DEF RocketInv, AckedWereAccepted
<1> QED BY <1>0, <1>1, <1>2, <1>3, <1>7, <1>9, <1>10 DEF RocketOK, RocketInv

LEMMA RocketStep ==
  ASSUME IInv, RocketNext
  PROVE  RocketOK
<1>0. ClientTypeOK /\ RocketTypeOK
  BY DEF IInv, TypeOK
<1>1. ASSUME NEW s \in Sub, CancelContext(s) /\ UNCHANGED rocketVars PROVE RocketOK
  BY <1>0, <1>1, CancelType, RocketKept DEF RocketOK
<1>2. ASSUME NEW p \in Partition, Produce(p) /\ UNCHANGED rocketVars PROVE RocketOK
  BY <1>0, <1>2, ProduceType, RocketKept DEF RocketOK
<1> QED BY <1>1, <1>2, RocketCalls, RocketPullStep, RocketHandleStep, ReportStep DEF RocketNext

----------------------------------------------------------------------------
(* Steps of the producers                                                   *)

Sent == Sender \X (1 .. BatchLen)

LEMMA Appended ==
  ASSUME NEW q \in Seq(Sent), NEW e \in Sent
  PROVE  /\ Append(q, e) \in Seq(Sent) /\ Len(q) \in Nat
         /\ DOMAIN q = 1 .. Len(q) /\ DOMAIN Append(q, e) = 1 .. Len(q) + 1
         /\ \A i \in 1 .. Len(q) : Append(q, e)[i] = q[i]
         /\ Append(q, e)[Len(q) + 1] = e
OBVIOUS

\* The next message of c, or one of another sender, is stored.
LEMMA AppendInOrder ==
  ASSUME NEW q \in Seq(Sent), NEW c \in Sender, NEW n \in 0 .. BatchLen, InOrder(q, c, n),
         NEW d \in Sender, NEW k \in 1 .. BatchLen, d = c => k = n + 1
  PROVE  /\ InOrder(Append(q, <<d, k>>), c, n)
         /\ d = c => InOrder(Append(q, <<d, k>>), c, n + 1)
<1> DEFINE e == <<d, k>>
           r == Append(q, e)
<1>1. /\ Len(q) \in Nat /\ DOMAIN q = 1 .. Len(q) /\ DOMAIN r = 1 .. Len(q) + 1
      /\ \A i \in 1 .. Len(q) : r[i] = q[i]
      /\ r[Len(q) + 1] = e
  <2>1. e \in Sent
    BY DEF Sent
  <2> HIDE DEF e
  <2> QED BY <2>1, Appended
<1>2. n \in Nat /\ BatchLen \in Nat
  BY ProducerAssumption
<1> HIDE DEF r
<1>3. \A m \in 1 .. n : \E i \in DOMAIN r : r[i] = <<c, m>>
  <2> SUFFICES ASSUME NEW m \in 1 .. n PROVE \E i \in DOMAIN r : r[i] = <<c, m>>
    OBVIOUS
  <2>1. PICK i \in 1 .. Len(q) : q[i] = <<c, m>>
    BY <1>1 DEF InOrder
  <2>2. i \in 1 .. Len(q) + 1
    BY <1>1
  <2> QED BY <1>1, <2>1, <2>2
<1>4. ASSUME NEW i \in DOMAIN r, NEW m \in 1 .. BatchLen, r[i] = <<c, m>>
      PROVE  m <= n + 1 /\ \A l \in 1 .. m - 1 : \E j \in 1 .. i - 1 : r[j] = <<c, l>>
  <2>1. CASE i \in 1 .. Len(q)
    <3>1. q[i] = <<c, m>>
      BY <1>1, <1>4, <2>1
    <3>2. m <= n + 1 /\ \A l \in 1 .. m - 1 : \E j \in 1 .. i - 1 : q[j] = <<c, l>>
      BY <1>1, <2>1, <3>1 DEF InOrder
    <3>3. \A j \in 1 .. i - 1 : j \in 1 .. Len(q)
      BY <1>1, <2>1
    <3> QED BY <1>1, <3>2, <3>3
  <2>2. CASE i = Len(q) + 1
    <3>1. d = c /\ m = n + 1
      BY <1>1, <1>4, <2>2
    <3>2. \A l \in 1 .. m - 1 : l \in 1 .. n
      BY <1>2, <3>1
    <3>3. \A l \in 1 .. m - 1 : \E j \in 1 .. Len(q) : q[j] = <<c, l>>
      BY <1>1, <3>2 DEF InOrder
    <3>4. 1 .. i - 1 = 1 .. Len(q)
      BY <1>1, <2>2
    <3>5. \A l \in 1 .. m - 1 : \E j \in 1 .. i - 1 : r[j] = <<c, l>>
      BY <1>1, <3>3, <3>4
    <3>6. m <= n + 1
      BY <1>2, <3>1
    <3> QED BY <3>5, <3>6
  <2>3. i \in 1 .. Len(q) \/ i = Len(q) + 1
    BY <1>1
  <2> QED BY <2>1, <2>2, <2>3
<1>5. InOrder(r, c, n)
  BY <1>3, <1>4 DEF InOrder
<1>6. ASSUME d = c PROVE InOrder(r, c, n + 1)
  <2>1. \A m \in 1 .. n + 1 : m \in 1 .. n \/ m = n + 1
    BY <1>2
  <2>2. r[Len(q) + 1] = <<c, n + 1>> /\ Len(q) + 1 \in DOMAIN r
    BY <1>1, <1>6
  <2>3. \A m \in 1 .. n + 1 : \E i \in DOMAIN r : r[i] = <<c, m>>
    BY <1>3, <2>1, <2>2
  <2>4. \A m \in 1 .. BatchLen : m <= n + 1 => m <= n + 1 + 1
    BY <1>2
  <2> QED BY <1>4, <2>3, <2>4 DEF InOrder
<1> QED BY <1>5, <1>6 DEF r

ProducerOK == ClientTypeOK' /\ Grows /\ ProducerTypeOK' /\ ProducerInv'

\* The sender moves; what is stored is all that was, or one message more.
LEMMA SenderStep ==
  ASSUME IInv, NEW c \in Sender, NEW pc, NEW at, SendGoto(c, pc, at), ClientTypeOK', Grows,
         [pc |-> pc, at |-> at] \in SendState,
         UNCHANGED async,
         \/ acked' = acked /\ stored' = stored
         \/ send[c].pc = "sending" /\ acked' = acked /\ stored' = Append(stored, <<c, send[c].at>>)
         \/ send[c].pc = "sending" /\ acked' = [acked EXCEPT ![c] = @ + 1]
            /\ stored' = Append(stored, <<c, send[c].at>>),
         pc # "idle", pc \in {"sending", "failed"} => at = acked'[c] + 1 /\ acked'[c] < BatchLen
  PROVE  ProducerOK
<1> DEFINE new == [pc |-> pc, at |-> at]
<1>0. /\ ProducerTypeOK /\ \A d \in Sender : SenderInv(d) /\ InOrder(stored, d, acked[d])
  BY DEF IInv, TypeOK, ProducerInv, StoredInOrder
<1>1. send' = [send EXCEPT ![c] = new] /\ new \in SendState /\ new.pc = pc /\ new.at = at
  BY DEF SendGoto
<1> HIDE DEF new
<1>2. send' \in [Sender -> SendState] /\ send'[c] = new
      /\ \A d \in Sender : d # c => send'[d] = send[d]
  BY <1>0, <1>1 DEF ProducerTypeOK
<1>3. /\ stored \in Seq(Sent) /\ acked \in [Sender -> 0 .. BatchLen]
      /\ send[c].pc = "sending" =>
           send[c].at = acked[c] + 1 /\ send[c].at \in 1 .. BatchLen
  <2>1. stored \in Seq(Sent) /\ acked \in [Sender -> 0 .. BatchLen]
    BY <1>0 DEF ProducerTypeOK, Sent
  <2>2. acked[c] \in Nat
    BY <2>1, ProducerAssumption
  <2>3. send[c].pc = "sending" => send[c].at = acked[c] + 1 /\ acked[c] < BatchLen
    BY <1>0 DEF SenderInv
  <2> QED BY <2>1, <2>2, <2>3, ProducerAssumption
<1>4. acked' \in [Sender -> 0 .. BatchLen] /\ stored' \in Seq(Sent)
      /\ (\A d \in Sender : d # c => acked'[d] = acked[d])
  <2>1. acked' = acked \/ (acked' = [acked EXCEPT ![c] = @ + 1] /\ acked[c] + 1 \in 0 .. BatchLen)
    BY <1>3, ProducerAssumption
  <2>2. stored' = stored
        \/ (stored' = Append(stored, <<c, send[c].at>>) /\ <<c, send[c].at>> \in Sent)
    BY <1>3 DEF Sent
  <2> DEFINE e == <<c, send[c].at>>
  <2>3. stored' \in Seq(Sent)
    <3>1. stored' = stored \/ (stored' = Append(stored, e) /\ e \in Sent)
      BY <2>2
    <3> HIDE DEF e
    <3> QED BY <1>3, <3>1, Appended
  <2> QED BY <1>3, <2>1, <2>3
<1>5. ASSUME NEW d \in Sender PROVE InOrder(stored', d, acked'[d])
  <2>1. InOrder(stored, d, acked[d]) /\ acked[d] \in 0 .. BatchLen
    BY <1>0, <1>3
  <2>2. CASE acked' = acked /\ stored' = stored
    BY <2>1, <2>2
  <2>3. CASE send[c].pc = "sending" /\ stored' = Append(stored, <<c, send[c].at>>)
    <3> DEFINE k == send[c].at
    <3>1. k \in 1 .. BatchLen /\ (c = d => k = acked[d] + 1)
      BY <1>3, <2>3
    <3> HIDE DEF k
    <3>2. stored' = Append(stored, <<c, k>>)
      BY <2>3 DEF k
    <3>3. InOrder(stored', d, acked[d]) /\ (c = d => InOrder(stored', d, acked[d] + 1))
      BY <1>3, <2>1, <3>1, <3>2, AppendInOrder
    <3>4. acked'[d] = acked[d] \/ (c = d /\ acked'[d] = acked[d] + 1)
      BY <1>3
    <3> QED BY <3>3, <3>4
  <2> QED BY <2>2, <2>3
<1>6. ASSUME NEW d \in Sender PROVE SenderInv(d)'
  BY <1>0, <1>1, <1>2, <1>4 DEF SenderInv
<1>7. ProducerTypeOK'
  BY <1>0, <1>2, <1>4 DEF ProducerTypeOK, Sent
<1> QED BY <1>5, <1>6, <1>7 DEF ProducerOK, ProducerInv, StoredInOrder

LEMMA ProducerStep ==
  ASSUME IInv, ProducerNext
  PROVE  ProducerOK
<1>0. /\ ClientTypeOK /\ ProducerTypeOK /\ ProducerInv /\ cancel \in Sub \cup {None} /\ told \in Sub \cup {None}
      /\ closing \in {"open", "waiting", "closed"} /\ faults \in 0 .. MaxFaults
  BY DEF IInv, TypeOK, ClientTypeOK
<1>1. /\ UNCHANGED <<produced, given, main, done, cancel, told>> /\ faults' \in 0 .. MaxFaults
      /\ closing' \in {"open", "waiting", "closed"}
  BY <1>0, FaultType
     DEF ProducerNext, BatchCall, BatchSend, BatchSendFails, SendOnClosed, SendAsync, AsyncRun,
         ProducerClose, clientVars
<1>2. ClientTypeOK' /\ Grows
  BY <1>0, <1>1, CallType
<1>3. ASSUME UNCHANGED <<stored, send, acked>>,
             async' \in [Sender -> {"none", "called", "sent", "failed", "panic"}]
      PROVE  ProducerOK
  <2>1. ProducerTypeOK' /\ \A c \in Sender : SenderInv(c)'
    BY <1>0, <1>3 DEF ProducerTypeOK, ProducerInv, SenderInv
  <2>2. StoredInOrder'
    <3>1. StoredInOrder
      BY <1>0 DEF ProducerInv
    <3> QED BY <1>3, <3>1 DEF StoredInOrder
  <2> QED BY <1>2, <2>1, <2>2 DEF ProducerOK, ProducerInv
<1>4. CASE ProducerClose
  BY <1>0, <1>3, <1>4 DEF ProducerClose, producerVars, ProducerTypeOK
<1>5. ASSUME NEW c \in Sender,
             \/ BatchCall(c) \/ BatchSend(c) \/ BatchSendFails(c)
             \/ SendOnClosed(c) \/ SendAsync(c) \/ AsyncRun(c)
      PROVE  ProducerOK
  <2>0. /\ SenderInv(c) /\ send[c] \in SendState /\ acked[c] \in 0 .. BatchLen
        /\ BatchLen \in Nat \ {0} /\ acked[c] \in Nat
    BY <1>0, ProducerAssumption DEF ProducerTypeOK, ProducerInv
  <2>1. CASE SendAsync(c) \/ AsyncRun(c)
    BY <1>0, <1>3, <2>1 DEF SendAsync, AsyncRun, ProducerTypeOK
  <2>2. CASE BatchCall(c)
    <3> DEFINE at == acked[c] + 1
    <3>1. acked[c] < BatchLen
      BY <2>0, <2>2 DEF BatchCall, SenderInv
    <3>2. [pc |-> "sending", at |-> at] \in SendState
      BY <2>0 DEF SendState
    <3>3. SendGoto(c, "sending", at) /\ UNCHANGED <<stored, acked, async>>
      BY <2>2 DEF BatchCall
    <3>4. at = acked'[c] + 1 /\ acked'[c] < BatchLen
      BY <3>1, <3>3
    <3> HIDE DEF at
    <3> QED BY <1>2, <3>2, <3>3, <3>4, SenderStep
  <2>3. CASE BatchSend(c)
    <3> DEFINE at == send[c].at + 1
               pc == IF send[c].at = BatchLen THEN "done" ELSE "sending"
    <3>1. /\ SendGoto(c, pc, at) /\ send[c].pc = "sending" /\ UNCHANGED async
          /\ acked' = [acked EXCEPT ![c] = @ + 1] /\ stored' = Append(stored, <<c, send[c].at>>)
      BY <2>3 DEF BatchSend
    <3>2. send[c].at = acked[c] + 1 /\ acked[c] < BatchLen
      BY <2>0, <3>1 DEF SenderInv
    <3>3. acked'[c] = acked[c] + 1
      BY <1>0, <3>1 DEF ProducerTypeOK
    <3>4. [pc |-> pc, at |-> at] \in SendState
      BY <2>0, <3>2 DEF SendState
    <3>5. pc # "idle" /\ (pc \in {"sending", "failed"} => at = acked'[c] + 1 /\ acked'[c] < BatchLen)
      BY <2>0, <3>2, <3>3
    <3> HIDE DEF at, pc
    <3> QED BY <1>2, <3>1, <3>4, <3>5, SenderStep
  <2>4. CASE BatchSendFails(c)
    <3> DEFINE at == send[c].at
    <3>1. /\ SendGoto(c, "failed", at) /\ send[c].pc = "sending" /\ UNCHANGED async
          /\ acked' = acked /\ (stored' = stored \/ stored' = Append(stored, <<c, send[c].at>>))
      BY <2>4 DEF BatchSendFails
    <3>2. at = acked'[c] + 1 /\ acked'[c] < BatchLen
      BY <2>0, <3>1 DEF SenderInv
    <3>3. [pc |-> "failed", at |-> at] \in SendState
      BY <2>0 DEF SendState
    <3> HIDE DEF at
    <3> QED BY <1>2, <3>1, <3>2, <3>3, SenderStep
  <2>5. CASE SendOnClosed(c)
    <3> DEFINE at == send[c].at
    <3>1. PICK pc \in {"failed", "panic"} : SendGoto(c, pc, at)
      BY <2>5 DEF SendOnClosed
    <3>2. send[c].pc = "sending" /\ UNCHANGED <<stored, acked, async>>
      BY <2>5 DEF SendOnClosed
    <3>3. at = acked'[c] + 1 /\ acked'[c] < BatchLen
      BY <2>0, <3>2 DEF SenderInv
    <3>4. [pc |-> pc, at |-> at] \in SendState /\ pc # "idle"
      BY <2>0, <3>1 DEF SendState
    <3> HIDE DEF at
    <3> QED BY <1>2, <3>1, <3>2, <3>3, <3>4, SenderStep
  <2> QED BY <1>5, <2>1, <2>2, <2>3, <2>4, <2>5
<1> QED BY <1>4, <1>5 DEF ProducerNext

----------------------------------------------------------------------------
(* The invariant                                                            *)

LEMMA InitInv == Init => IInv
<1> SUFFICES ASSUME Init PROVE IInv
  OBVIOUS
<1> USE MqAssumption
<1>1. ClientTypeOK
  BY DEF Init, ClientInit, ClientTypeOK, MainPc
<1>2. GroupTypeOK /\ ReadyIsOpen
  BY DEF Init, GroupInit, GroupTypeOK, GroupConfig, LoopPc, NoClaim, ClaimState, ReadyIsOpen
<1>3. ASSUME NEW p \in Partition PROVE ClaimInv(p)
  <2>1. claim[p] = NoClaim /\ committed[p] = None /\ base[p] = 0
    BY DEF Init, GroupInit
  <2>2. \A o \in 0 .. 0 - 1 : FALSE
    OBVIOUS
  <2> QED BY <2>1, <2>2 DEF ClaimInv, GivenUpTo, NoClaim
<1>4. SeekTypeOK
  BY <1>1 DEF Init, SeekInit, SeekTypeOK, ClientTypeOK, ConsumerState, NoWorker, WorkerState,
              NoSeek, SeekState, NoManual, ManualState
<1>5. SeekInv
  BY DEF Init, SeekInit, SeekInv, IdleIsOff, HeldIsLog, NonePassedOver, NoWorker
<1>6. RocketTypeOK /\ RocketInv
  <2>1. /\ NoBatch \in BatchState /\ NoBatch.left = {} /\ NoBatch.handled = {}
        /\ "ready" \in Status /\ 0 \in 0 .. MaxReconsume
    BY RocketAssumption DEF NoBatch, BatchState, Status
  <2>2. RocketTypeOK
    BY <2>1 DEF Init, RocketInit, RocketTypeOK
  <2>3. \A p \in Partition : batch[p] = NoBatch
    BY DEF Init, RocketInit
  <2>4. accepted = {} /\ \A m \in Message : status[m] = "ready"
    BY DEF Init, RocketInit
  <2> QED BY <2>1, <2>2, <2>3, <2>4 DEF RocketInv, AckedWereAccepted
<1>7. ProducerTypeOK
  BY ProducerAssumption DEF Init, ProducerInit, ProducerTypeOK, SendState
<1>8. ASSUME NEW c \in Sender PROVE SenderInv(c) /\ InOrder(stored, c, acked[c])
  <2>1. stored = <<>> /\ acked[c] = 0 /\ send[c].pc = "idle"
    BY DEF Init, ProducerInit
  <2>2. \A m \in 1 .. 0 : FALSE
    OBVIOUS
  <2>3. \A i \in DOMAIN << >> : FALSE
    OBVIOUS
  <2> QED BY <2>1, <2>2, <2>3 DEF SenderInv, InOrder
<1> QED
  BY <1>1, <1>2, <1>3, <1>4, <1>5, <1>6, <1>7, <1>8
     DEF Init, IInv, TypeOK, GroupInv, ProducerInv, StoredInOrder

LEMMA InvStep == IInv /\ [Next]_vars => IInv'
<1> SUFFICES ASSUME IInv, [Next]_vars PROVE IInv'
  OBVIOUS
<1>0. kind \in Kinds /\ ClientTypeOK
  BY DEF IInv, TypeOK
<1>1. CASE InGroup(GroupNext)
  <2>1. GroupOK /\ kind = "group" /\ UNCHANGED <<kind, seekVars, rocketVars, producerVars>>
    BY <1>1, GroupStep DEF InGroup
  <2> QED BY <1>0, <2>1, SeekKept, RocketKept, ProducerKept DEF GroupOK, IInv, TypeOK
<1>2. CASE InSeek(SeekNext)
  <2>1. SeekOK /\ kind = "seek" /\ UNCHANGED <<kind, groupVars, rocketVars, producerVars>>
    BY <1>2, SeekStep DEF InSeek
  <2> QED BY <1>0, <2>1, GroupKept, RocketKept, ProducerKept DEF SeekOK, IInv, TypeOK
<1>3. CASE InRocket(RocketNext)
  <2>1. RocketOK /\ kind = "rocket" /\ UNCHANGED <<kind, groupVars, seekVars, producerVars>>
    BY <1>3, RocketStep DEF InRocket
  <2> QED BY <1>0, <2>1, GroupKept, SeekKept, ProducerKept DEF RocketOK, IInv, TypeOK
<1>4. CASE InProducer(ProducerNext)
  <2>1. ProducerOK /\ kind = "producer" /\ UNCHANGED <<kind, groupVars, seekVars, rocketVars>>
    BY <1>4, ProducerStep DEF InProducer
  <2> QED BY <1>0, <2>1, GroupKept, SeekKept, RocketKept DEF ProducerOK, IInv, TypeOK
<1>5. CASE UNCHANGED vars
  <2>1. UNCHANGED <<produced, given, main, done, cancel, told, closing, faults, kind>>
        /\ UNCHANGED groupVars /\ UNCHANGED seekVars /\ UNCHANGED rocketVars
        /\ UNCHANGED producerVars
    BY <1>5 DEF vars, clientVars
  <2>2. Grows /\ Log' = Log
    BY <1>0, <2>1, Unmoved
  <2>3. ClientTypeOK'
    BY <1>0, <2>1, <2>2 DEF ClientTypeOK
  <2>4. SeekTypeOK' /\ SeekInv'
    BY <2>1, <2>2 DEF IInv, TypeOK, SeekTypeOK, SeekInv, IdleIsOff, HeldIsLog, NonePassedOver,
                      seekVars
  <2> QED BY <1>0, <2>1, <2>2, <2>3, <2>4, GroupKept, RocketKept, ProducerKept DEF IInv, TypeOK
<1> QED BY <1>1, <1>2, <1>3, <1>4, <1>5 DEF Next

LEMMA Invariance == Spec => []IInv
BY InitInv, InvStep, PTL DEF Spec

\* Whatever the implementation, the fields, the calls of Subscribe and the
\* goroutines stay what the code's types and states allow; in particular Setup
\* never closes a closed channel (consumer.go of mq/kafka).
THEOREM MessagingTypeCorrect == Spec => []TypeOK
BY Invariance, PTL DEF IInv

\* For every size of batch and number of retries: RocketMQ is told that a
\* message is consumed only after the handler accepted it (the closure of
\* Subscribe in mq/rocketmq/consumer.go).
THEOREM AckedAreAccepted == Spec => []AckedWereAccepted
BY Invariance, PTL DEF IInv, RocketInv

\* With any number of overlapping Subscribes, Seeks, Consumes, cancels and a
\* Close, what a partition's consumer has gone past was handled, or is in the
\* hand of a goroutine (mq/kafka/consumer_seek.go).
THEOREM NothingIsPassedOver == Spec => []NonePassedOver
BY Invariance, PTL DEF IInv, SeekInv

LEMMA FirstIs ==
  ASSUME stored \in Seq(Sent), NEW m, NEW i \in DOMAIN stored, stored[i] = m
  PROVE  /\ FirstAt(m) \in 1 .. Len(stored) /\ stored[FirstAt(m)] = m
         /\ \A j \in 1 .. FirstAt(m) - 1 : stored[j] # m
<1> DEFINE at == {j \in 1 .. Len(stored) : stored[j] = m}
           o == Least(at)
<1>1. Len(stored) \in Nat /\ DOMAIN stored = 1 .. Len(stored)
  OBVIOUS
<1>2. at \in SUBSET Nat /\ at # {}
  BY <1>1
<1>3. o \in at /\ \A j \in at : o <= j
  <2> HIDE DEF at
  <2> QED BY <1>2, LeastIs
<1>4. ASSUME NEW j \in 1 .. o - 1 PROVE stored[j] # m
  <2>1. o \in 1 .. Len(stored)
    BY <1>3
  <2> HIDE DEF o
  <2>2. j \in 1 .. Len(stored) /\ ~(o <= j)
    BY <1>1, <2>1
  <2> QED BY <1>3, <2>2
<1>5. o \in 1 .. Len(stored) /\ stored[o] = m
  BY <1>3
<1> HIDE DEF o
<1>6. \E k \in 1 .. Len(stored) : stored[k] = m /\ \A j \in 1 .. k - 1 : stored[j] # m
  BY <1>4, <1>5
<1> QED BY <1>6 DEF FirstAt

LEMMA InOrderIsPrefix == IInv => ResultsArePrefix
<1> SUFFICES ASSUME IInv, NEW c \in Sender
             PROVE  LET sent == {n \in 1 .. BatchLen :
                                   \E i \in 1 .. Len(stored) : stored[i] = <<c, n>>}
                    IN /\ 1 .. acked[c] \subseteq sent
                       /\ sent \subseteq 1 .. acked[c] + 1
                       /\ \A m, n \in sent : m < n => FirstAt(<<c, m>>) < FirstAt(<<c, n>>)
  BY DEF ResultsArePrefix
<1> DEFINE sent == {n \in 1 .. BatchLen : \E i \in 1 .. Len(stored) : stored[i] = <<c, n>>}
<1>1. /\ stored \in Seq(Sent) /\ acked[c] \in 0 .. BatchLen /\ BatchLen \in Nat
      /\ InOrder(stored, c, acked[c])
  BY ProducerAssumption DEF IInv, TypeOK, ProducerTypeOK, ProducerInv, StoredInOrder, Sent
<1>2. Len(stored) \in Nat /\ DOMAIN stored = 1 .. Len(stored)
  BY <1>1
<1>3. 1 .. acked[c] \subseteq sent
  <2>1. \A m \in 1 .. acked[c] : m \in 1 .. BatchLen
    BY <1>1
  <2> QED BY <1>1, <1>2, <2>1 DEF InOrder
<1>4. sent \subseteq 1 .. acked[c] + 1
  <2>1. \A m \in sent : m \in 1 .. BatchLen /\ m <= acked[c] + 1
    BY <1>1, <1>2 DEF InOrder
  <2> QED BY <1>1, <2>1
<1>5. ASSUME NEW m \in sent, NEW n \in sent, m < n PROVE FirstAt(<<c, m>>) < FirstAt(<<c, n>>)
  <2> DEFINE i == FirstAt(<<c, n>>)
             j == FirstAt(<<c, m>>)
  <2>1. i \in 1 .. Len(stored) /\ stored[i] = <<c, n>>
    BY <1>1, <1>2, FirstIs
  <2>2. j \in 1 .. Len(stored) /\ \A k \in 1 .. j - 1 : stored[k] # <<c, m>>
    BY <1>1, <1>2, FirstIs
  <2> HIDE DEF i, j
  <2>3. m \in 1 .. n - 1 /\ n \in 1 .. BatchLen
    BY <1>5
  <2>4. PICK k \in 1 .. i - 1 : stored[k] = <<c, m>>
    BY <1>1, <1>2, <2>1, <2>3 DEF InOrder
  <2>5. ~(k \in 1 .. j - 1)
    BY <2>2, <2>4
  <2>6. k \in Nat /\ 1 <= k /\ k <= i - 1 /\ i \in Nat /\ j \in Nat
    BY <1>2, <2>1, <2>2, <2>4
  <2>7. j < i
    BY <2>5, <2>6
  <2> QED BY <2>7 DEF i, j
<1> QED BY <1>3, <1>4, <1>5

\* For any number of senders, batches of any length and any faults: the messages
\* with results are the first ones, stored in their order, and at most the one
\* that failed is stored beyond them (SendBatch of both producers).
THEOREM BatchesKeepTheirOrder == Spec => []ResultsArePrefix
BY Invariance, InOrderIsPrefix, PTL

----------------------------------------------------------------------------
(* The abstract specification AtLeastOnce, without its liveness             *)

\* RocketMQ's closure is called with one message at a time, and what is not the
\* RocketMQ consumer tells its broker nothing.
OneAtATime == kind = "rocket" => BatchMax = 1

OthersReportNothing ==
  kind # "rocket" => \A m \in Message : status[m] \notin {"stored", "dead"}

Promises == IInv /\ OneAtATime /\ OthersReportNothing

LEMMA PromisesInit == Init /\ OneAtATime => Promises
BY InitInv DEF Promises, OthersReportNothing, Init, RocketInit

LEMMA PromisesStep == Promises /\ [Next]_vars => Promises'
<1> SUFFICES ASSUME Promises, [Next]_vars PROVE Promises'
  OBVIOUS
<1>1. kind' = kind
  BY DEF Next, InGroup, InSeek, InRocket, InProducer, vars
<1>2. kind # "rocket" => status' = status
  BY DEF Next, InGroup, InSeek, InRocket, InProducer, vars, rocketVars
<1>3. IInv'
  BY InvStep DEF Promises
<1> QED BY <1>1, <1>2, <1>3 DEF Promises, OneAtATime, OthersReportNothing

LEMMA SettledWereGiven == Promises => Settled \subseteq given
<1> SUFFICES ASSUME IInv, OneAtATime, OthersReportNothing, NEW m \in Settled PROVE m \in given
  BY DEF Promises
<1>1. m \in Message /\ m[1] \in Partition /\ m = <<m[1], m[2]>>
  BY DEF Settled, Message
<1>2. CASE status[m] \in {"stored", "dead"}
  <2>1. BatchMax = 1
    BY <1>1, <1>2 DEF OneAtATime, OthersReportNothing
  <2> QED BY <1>1, <1>2, <2>1 DEF IInv, RocketInv
<1>3. CASE committed[m[1]] # None /\ m[2] \in base[m[1]] .. committed[m[1]] - 1
  BY <1>1, <1>3 DEF IInv, GroupInv, ClaimInv, GivenUpTo
<1> QED BY <1>2, <1>3 DEF Settled

LEMMA SettledWillBeGiven == (Promises => Settled \subseteq given)'
<1>1. Promises => Settled \subseteq given
  BY SettledWereGiven
<1> QED BY <1>1, PTL

\* An offset that is committed is never taken back.
LEMMA CommitsStay ==
  ASSUME IInv, [Next]_vars, NEW p \in Partition, committed[p] # None
  PROVE  committed'[p] # None /\ committed[p] <= committed'[p] /\ base'[p] = base[p]
<1>0. /\ GroupTypeOK /\ ClaimInv(p) /\ committed[p] \in Nat /\ committed[p] <= committed[p]
      /\ claim[p] \in ClaimState /\ MaxOffset \in Nat
  BY MqAssumption DEF IInv, TypeOK, GroupTypeOK, GroupInv
<1>1. ASSUME committed'[p] = Flushed[p], base' = base
      PROVE  committed'[p] # None /\ committed[p] <= committed'[p] /\ base'[p] = base[p]
  <2>1. Flushed[p] = IF claim[p].marked = None THEN committed[p] ELSE claim[p].marked
    BY DEF Flushed
  <2> QED BY <1>0, <1>1, <2>1 DEF ClaimInv
<1>2. CASE UNCHANGED <<committed, base>>
  BY <1>0, <1>2
<1>3. CASE InGroup(GroupNext)
  <2>1. CASE \E s \in Sub : GroupSetup(s)
    BY <1>0, <2>1 DEF GroupSetup
  <2>2. CASE \E s \in Sub : GroupRelease(s)
    <3>1. base' = base /\ (committed' = committed \/ committed' = Flushed)
      BY <2>2 DEF GroupRelease
    <3> QED BY <1>1, <1>2, <3>1
  <2>3. CASE GroupAutoCommit
    BY <1>1, <2>3 DEF GroupAutoCommit
  <2>4. ASSUME ~(\E s \in Sub : GroupSetup(s)), ~(\E s \in Sub : GroupRelease(s)), ~GroupAutoCommit
        PROVE  UNCHANGED <<committed, base>>
    BY <1>3, <2>4
       DEF InGroup, GroupNext, GroupSteps, GroupConsume, ClaimSteps, GroupSubscribe, GroupSpawn,
           GroupReadReady, GroupConsumeFails, GroupSessionEnds, ClaimTake, ClaimHandle, ClaimLeave, GroupClose,
           GroupClosed, GroupCrash, groupVars
  <2> QED BY <1>2, <2>1, <2>2, <2>3, <2>4
<1> QED BY <1>2, <1>3 DEF Next, InSeek, InRocket, InProducer, vars, groupVars

\* Nor is a message that the broker has settled.
LEMMA ReportsStay ==
  ASSUME IInv, [Next]_vars, NEW m \in Message, status[m] \in {"stored", "dead"}
  PROVE  status'[m] = status[m]
<1>1. CASE UNCHANGED status
  BY <1>1
<1>2. CASE InRocket(RocketNext)
  <2>1. ASSUME NEW p \in Partition, RocketPull(p) PROVE status'[m] = status[m]
    <3>1. PICK os \in SUBSET {o \in Offset : <<p, o>> \in Log /\ status[<<p, o>>] = "ready"} :
            status' = [n \in Message |-> IF n[1] = p /\ n[2] \in os THEN "batch" ELSE status[n]]
      BY <2>1 DEF RocketPull, Deliverable
    <3>2. m = <<m[1], m[2]>>
      BY DEF Message
    <3>3. ~(m[1] = p /\ m[2] \in os)
      BY <3>2
    <3> QED BY <3>1, <3>3
  <2>2. ASSUME NEW p \in Partition, RocketHandle(p) PROVE status'[m] = status[m]
    <3> DEFINE o == Least(batch[p].left)
    <3>0. batch[p].left \in SUBSET Nat /\ batch[p].left # {}
      <4>1. batch[p].left \in SUBSET Offset /\ Offset \subseteq Nat
        BY MqAssumption DEF IInv, TypeOK, RocketTypeOK, BatchState, Offset
      <4> QED BY <2>2, <4>1 DEF RocketHandle
    <3>1. o \in batch[p].left
      BY <3>0, LeastIs
    <3> DEFINE os == batch[p].handled \cup {o}
    <3>2. os \cup (batch[p].left \ {o}) \subseteq batch[p].left \cup batch[p].handled
      BY <3>1
    <3>3. \A q \in batch[p].left \cup batch[p].handled : status[<<p, q>>] = "batch"
      BY DEF IInv, RocketInv
    <3>4. m = <<m[1], m[2]>>
      BY DEF Message
    <3>5. ~(m[1] = p /\ m[2] \in batch[p].left \cup batch[p].handled)
      BY <3>3, <3>4
    <3>6. \/ status' = status
          \/ Ack(p, os) \/ Ack(p, os \cup (batch[p].left \ {o})) \/ SendBack(p, os \cup (batch[p].left \ {o}))
      BY <2>2 DEF RocketHandle
    <3> HIDE DEF o, os
    <3> QED BY <3>2, <3>5, <3>6 DEF Ack, SendBack
  <2>3. CASE RocketStore \/ RocketClose \/ RocketCrash
    BY <2>3 DEF RocketStore, RocketClose, RocketCrash
  <2>4. CASE \/ RocketPause \/ RocketResume
             \/ \E s \in Sub : RocketSubscribe(s) \/ RocketReturn(s)
             \/ UNCHANGED rocketVars
    BY <2>4 DEF RocketPause, RocketResume, RocketSubscribe, RocketReturn, rocketVars
  <2> QED BY <1>2, <2>1, <2>2, <2>3, <2>4 DEF InRocket, RocketNext
<1> QED BY <1>1, <1>2 DEF Next, InGroup, InSeek, InProducer, vars, rocketVars

LEMMA SettledStays ==
  ASSUME IInv, [Next]_vars
  PROVE  Settled \subseteq Settled'
<1> SUFFICES ASSUME NEW m \in Settled PROVE m \in Settled'
  OBVIOUS
<1>1. m \in Message /\ m[1] \in Partition
  BY DEF Settled, Message
<1>2. CASE status[m] \in {"stored", "dead"}
  BY <1>1, <1>2, ReportsStay DEF Settled
<1>3. CASE committed[m[1]] # None /\ m[2] \in base[m[1]] .. committed[m[1]] - 1
  <2> DEFINE p == m[1]
  <2>1. committed'[p] # None /\ committed[p] <= committed'[p] /\ base'[p] = base[p]
    BY <1>1, <1>3, CommitsStay
  <2>2. committed[p] \in Int /\ committed'[p] \in Int /\ base[p] \in Int
    <3>1. GroupTypeOK /\ GroupTypeOK'
      BY InvStep DEF IInv, TypeOK
    <3> QED BY <1>1, <1>3, <2>1, <3>1, MqAssumption DEF GroupTypeOK
  <2>3. m[2] \in base'[p] .. committed'[p] - 1
    BY <1>3, <2>1, <2>2
  <2> QED BY <1>1, <2>1, <2>3 DEF Settled
<1> QED BY <1>2, <1>3 DEF Settled

LEMMA PromiseStep ==
  ASSUME Promises, [Next]_vars
  PROVE  [Promise!Next]_(Promise!vars)
<1>0. IInv
  BY DEF Promises
<1>1. Settled \subseteq Settled' /\ Settled' \subseteq given' /\ Settled \subseteq given
  <2>1. Settled' \subseteq given'
    BY PromisesStep, SettledWillBeGiven
  <2> QED BY <1>0, <2>1, SettledStays, SettledWereGiven
<1>2. Entitled' \subseteq Message
  BY DEF Entitled
<1>3. CASE UNCHANGED <<given, produced>>
  <2>1. Log' = Log
    BY <1>3 DEF Log
  <2>2. Promise!Settle
    BY <1>1, <1>2, <1>3, <2>1 DEF Promise!Settle
  <2> QED BY <2>2 DEF Promise!Next
<1>4. ASSUME NEW p \in Partition, Produce(p), UNCHANGED <<kind, groupVars, seekVars, rocketVars>>
      PROVE  \E m \in Message : Promise!Send(m)
  <2> DEFINE m0 == <<p, produced[p]>>
  <2>1. produced' = [produced EXCEPT ![p] = @ + 1] /\ produced[p] < MaxOffset
        /\ UNCHANGED <<given, main, done, cancel, told, closing, faults>>
    BY <1>4 DEF Produce
  <2>2. produced \in [Partition -> 0 .. MaxOffset] /\ MaxOffset \in Nat
    BY <1>0, MqAssumption DEF IInv, TypeOK, ClientTypeOK
  <2>3. m0 \in Message
    BY <2>1, <2>2 DEF Message, Offset
  <2>4. Log' = Log \cup {m0}
    <3>1. ASSUME NEW m \in Message
          PROVE  m[2] < produced'[m[1]] <=> m[2] < produced[m[1]] \/ m = m0
      <4>1. m = <<m[1], m[2]>> /\ m[1] \in Partition /\ m[2] \in Int
        BY <2>2 DEF Message, Offset
      <4>2. CASE m[1] = p
        <5>1. produced'[p] = produced[p] + 1 /\ produced[p] \in Int
          BY <2>1, <2>2
        <5>2. m[2] < produced[p] + 1 <=> m[2] < produced[p] \/ m[2] = produced[p]
          BY <4>1, <5>1
        <5> QED BY <4>1, <4>2, <5>1, <5>2
      <4>3. CASE m[1] # p
        <5>1. produced'[m[1]] = produced[m[1]]
          BY <2>1, <2>2, <4>1, <4>3
        <5> QED BY <4>3, <5>1
      <4> QED BY <4>2, <4>3
    <3> HIDE DEF m0
    <3> QED BY <2>3, <3>1 DEF Log
  <2>5. Settled' = Settled /\ Entitled' = Entitled
    BY <1>4, <2>1
       DEF Settled, Entitled, GroupEntitled, SeekEntitled, RocketEntitled, Asked, groupVars, seekVars,
           rocketVars
  <2> QED BY <2>1, <2>3, <2>4, <2>5 DEF Promise!Send
<1>5. ASSUME NEW m \in Log, given' = given \cup {m}, UNCHANGED produced,
             Entitled' \subseteq Entitled, Entitled \ {m} \subseteq Entitled'
      PROVE  \E n \in Message : Promise!Give(n)
  <2>1. Log' = Log /\ m \in Message
    BY <1>5 DEF Log
  <2>2. Entitled' \in {Entitled, Entitled \ {m}}
    BY <1>5
  <2> QED BY <1>1, <1>5, <2>1, <2>2 DEF Promise!Give
<1>6. CASE InGroup(GroupNext)
  <2>1. CASE \E p \in Partition : Produce(p) /\ UNCHANGED groupVars
    BY <1>4, <1>6, <2>1 DEF InGroup, Promise!Next
  <2>2. ASSUME NEW p \in Partition, ClaimHandle(p) PROVE Promise!Next
    <3>1. given' = given \cup {<<p, claim[p].pos>>} /\ claim[p].pc = "handle"
          /\ UNCHANGED <<produced, main, done, closing, config, committed>>
      BY <2>2 DEF ClaimHandle
    <3>2. claim[p].pos < produced[p] /\ claim[p].pos \in Nat /\ produced[p] \in 0 .. MaxOffset
      BY <1>0, <3>1, MqAssumption
         DEF IInv, GroupInv, ClaimInv, TypeOK, GroupTypeOK, ClientTypeOK, ClaimState
    <3>3. claim[p].pos \in Offset
      BY <3>2, MqAssumption DEF Offset
    <3>4. <<p, claim[p].pos>> \in Log
      BY <3>2, <3>3 DEF Log, Message
    <3>5. Entitled' = Entitled
      BY <1>6, <3>1 DEF InGroup, Entitled, GroupEntitled, Asked
    <3> QED BY <1>5, <3>1, <3>4, <3>5 DEF Promise!Next
  <2>3. ASSUME ~(\E p \in Partition : Produce(p) /\ UNCHANGED groupVars),
               ~(\E p \in Partition : ClaimHandle(p))
        PROVE  UNCHANGED <<given, produced>>
    BY <1>6, <2>3
       DEF InGroup, GroupNext, GroupSteps, GroupConsume, ClaimSteps, GroupSubscribe, GroupReadReady,
           GroupSpawn, GroupSetup, GroupConsumeFails, GroupSessionEnds, GroupRelease, ClaimTake, ClaimLeave,
           GroupAutoCommit, GroupClose, GroupClosed, GroupCrash, ProcessDies, CancelContext,
           clientVars
  <2> QED BY <1>3, <2>1, <2>2, <2>3
<1>7. CASE InSeek(SeekNext)
  <2>1. CASE \E p \in Partition : Produce(p) /\ UNCHANGED seekVars
    BY <1>4, <1>7, <2>1 DEF InSeek, Promise!Next
  <2>3. ASSUME NEW s \in Sub, NEW p \in Partition, SeekHandle(s, p) PROVE Promise!Next
    <3> DEFINE w == worker[s][p]
               m0 == <<p, w.msg>>
    <3>1. /\ given' = given \cup {m0} /\ w.pc = "handle"
          /\ UNCHANGED <<produced, main, done, cur, kind>> /\ kind = "seek"
          /\ NewWorker(s, p, [pc |-> "select", old |-> w.old, msg |-> None])
      BY <1>7, <2>3 DEF InSeek, SeekHandle, Handled, WorkerGoto, NewWorker
    <3>2. SeekTypeOK /\ m0 \in Log /\ m0 \in Message
      BY <1>0, <3>1 DEF IInv, TypeOK, SeekInv, HeldIsLog, Log
    <3>3. /\ worker'[s][p].pc = "select" /\ worker'[s][p].old = w.old
          /\ \A t \in Sub, q \in Partition : t # s \/ q # p => worker'[t][q] = worker[t][q]
      <4>1. [pc |-> "select", old |-> w.old, msg |-> None] \in WorkerState
        BY <3>2 DEF SeekTypeOK, WorkerState
      <4> HIDE DEF w
      <4> QED BY <3>1, <3>2, <4>1, WorkerIs
    <3>4. \A t \in Sub, q \in Partition : worker'[t][q].old = worker[t][q].old
      BY <3>3
    <3>5. ASSUME NEW q \in Partition, NEW o, SeekEntitled(q, o)' PROVE SeekEntitled(q, o)
      BY <3>1, <3>3, <3>4, <3>5 DEF SeekEntitled
    <3>6. ASSUME NEW q \in Partition, NEW o, SeekEntitled(q, o), <<q, o>> # m0
          PROVE  SeekEntitled(q, o)'
      BY <3>1, <3>3, <3>4, <3>6 DEF SeekEntitled
    <3>7. \A m \in Message : m[1] \in Partition /\ m = <<m[1], m[2]>>
      BY DEF Message
    <3>8. Entitled' \subseteq Entitled /\ Entitled \ {m0} \subseteq Entitled'
      <4> HIDE DEF m0, w
      <4> QED BY <3>1, <3>5, <3>6, <3>7 DEF Entitled
    <3> HIDE DEF m0, w
    <3> QED BY <1>5, <3>1, <3>2, <3>8 DEF Promise!Next
  <2>2. ASSUME ~(\E p \in Partition : Produce(p) /\ UNCHANGED seekVars),
               ~(\E s \in Sub, p \in Partition : SeekHandle(s, p))
        PROVE  UNCHANGED <<given, produced>>
    BY <1>7, <2>2
       DEF InSeek, SeekNext, SeekSteps, SeekSubscribe, SeekReturn, SeekSpawn, SeekTake,
           SeekTakeBuffered, SeekLeave, CancelContext, SeekClose, SeekOpen, SeekFails, ManualCall,
           ManualTake, ManualTakeBuffered, ManualSkip, ManualTimeout, SeekConsumerClose, SeekConsumerClosed, SeekCrash, ProcessDies,
           clientVars
  <2> QED BY <1>3, <2>1, <2>2, <2>3
<1>8. CASE InRocket(RocketNext)
  <2>1. CASE \E p \in Partition : Produce(p) /\ UNCHANGED rocketVars
    BY <1>4, <1>8, <2>1 DEF InRocket, Promise!Next
  <2>2. ASSUME NEW p \in Partition, RocketHandle(p) PROVE Promise!Next
    <3> DEFINE m0 == <<p, Least(batch[p].left)>>
    <3>1. given' = given \cup {m0} /\ batch[p].left # {}
          /\ UNCHANGED <<produced, start, client, suspended>>
      BY <2>2 DEF RocketHandle
    <3>2. batch[p].left \in SUBSET Nat
      <4>1. batch[p].left \in SUBSET Offset /\ Offset \subseteq Nat
        BY <1>0, MqAssumption DEF IInv, TypeOK, RocketTypeOK, BatchState, Offset
      <4> QED BY <4>1
    <3>3. m0 \in Log
      BY <1>0, <3>1, <3>2, LeastIs DEF IInv, RocketInv
    <3>4. Entitled' = Entitled
      BY <1>8, <3>1 DEF InRocket, Entitled, RocketEntitled
    <3> HIDE DEF m0
    <3> QED BY <1>5, <3>1, <3>3, <3>4 DEF Promise!Next
  <2>3. ASSUME ~(\E p \in Partition : Produce(p) /\ UNCHANGED rocketVars),
               ~(\E p \in Partition : RocketHandle(p))
        PROVE  UNCHANGED <<given, produced>>
    BY <1>8, <2>3
       DEF InRocket, RocketNext, RocketSubscribe, RocketReturn, RocketPull, RocketPause,
           RocketResume, RocketStore, RocketClose, RocketCrash, ProcessDies, CancelContext,
           clientVars
  <2> QED BY <1>3, <2>1, <2>2, <2>3
<1>9. CASE InProducer(ProducerNext)
  BY <1>3, <1>9
     DEF InProducer, ProducerNext, BatchCall, BatchSend, BatchSendFails, SendOnClosed, SendAsync,
         AsyncRun, ProducerClose, clientVars
<1>10. CASE UNCHANGED vars
  BY <1>3, <1>10 DEF vars, clientVars
<1> QED BY <1>6, <1>7, <1>8, <1>9, <1>10 DEF Next

\* Every step of the consumers is one that AtLeastOnce allows: over rebalances,
\* failed sessions, lost commits and crashes no offset is committed, and no
\* message acknowledged or sent to the dead letters, that the handler was not
\* called with.  For RocketMQ this needs batches of one message, which is the
\* client's default and no option of NewRocketMQConsumer changes; for Kafka it needs nothing.
THEOREM PromiseIsKept ==
  Spec /\ OneAtATime => Promise!Init /\ [][Promise!Next]_(Promise!vars)
<1>1. Init /\ OneAtATime => Promise!Init
  <2> SUFFICES ASSUME Init, OneAtATime PROVE Promise!Init
    OBVIOUS
  <2>1. given = {} /\ Log \subseteq Message /\ Entitled \subseteq Message
    BY DEF Init, ClientInit, Log, Entitled
  <2>2. Settled \subseteq given
    BY PromisesInit, SettledWereGiven
  <2> QED BY <2>1, <2>2 DEF Promise!Init
<1>2. Promises /\ [Next]_vars => [Promise!Next]_(Promise!vars)
  BY PromiseStep
<1> QED BY <1>1, <1>2, PromisesInit, PromisesStep, PTL DEF Spec
=============================================================================
