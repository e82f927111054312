----------------------------- MODULE KafkaGroup -----------------------------
(***************************************************************************)
(* mq/kafka/consumer.go: a consumer in a Kafka consumer group.  Subscribe    *)
(* starts a goroutine that calls sarama's Consume again and again; a call    *)
(* holds the group's lock, and is one session: Setup, one ConsumeClaim per   *)
(* partition, Cleanup.  sarama and the group coordinator are external.       *)
(***************************************************************************)
EXTENDS MqClient

CONSTANT AutoCommits

ASSUME GroupAssumption == AutoCommits \subseteq BOOLEAN

VARIABLES
  config,      \* NewKafkaConsumer: InitialOffset and AutoCommit
  loop,        \* the goroutine of each Subscribe
  ready,       \* its handler's channel: "open", "closed", "panic" (closed twice)
  claim,       \* ConsumeClaim of each partition, in the one session there is
  committed,   \* the group's offsets in the broker
  base         \* history: where the messages the group has committed begin

groupVars == <<config, loop, ready, claim, committed, base>>

\* Without AutoCommit nothing is ever committed: Commit and CommitAll are empty.
GroupConfig == [initial : {"newest", "oldest"}, autoCommit : AutoCommits]

LoopPc == {"off", "consume", "session", "leaving"}

ClaimState ==
  [pc : {"off", "select", "handle"}, pos : 0 .. MaxOffset,
   marked : (0 .. MaxOffset) \cup {None}]

NoClaim == [pc |-> "off", pos |-> 0, marked |-> None]

GroupTypeOK ==
  /\ config \in GroupConfig
  /\ loop \in [Sub -> LoopPc]
  /\ ready \in [Sub -> {"open", "closed"}]
  /\ claim \in [Partition -> ClaimState]
  /\ committed \in [Partition -> (0 .. MaxOffset) \cup {None}]
  /\ base \in [Partition -> 0 .. MaxOffset]

GroupInit ==
  /\ config \in GroupConfig
  /\ loop = [s \in Sub |-> "off"]
  /\ ready = [s \in Sub |-> "open"]
  /\ claim = [p \in Partition |-> NoClaim]
  /\ committed = [p \in Partition |-> None]
  /\ base = [p \in Partition |-> 0]

InSession(s) == loop[s] \in {"session", "leaving"}

LoopGoto(s, pc) == loop' = [loop EXCEPT ![s] = pc]

\* Where a session starts to read a partition.
StartOf(p) ==
  IF committed[p] # None THEN committed[p]
  ELSE IF config.initial = "oldest" THEN 0 ELSE produced[p]

\* What the offset manager sends: the marks of the session.
Flushed ==
  [p \in Partition |-> IF claim[p].marked = None THEN committed[p] ELSE claim[p].marked]

----------------------------------------------------------------------------
(* Subscribe                                                                *)

\* The context and the field cancel come first: Close, which takes no lock, may
\* run before the wait group has been told, and a Subscribe may come after it.
GroupSubscribe(s) ==
  /\ main[s] = "idle"
  /\ NewContext(s)
  /\ MainGoto(s, "opened")
  /\ UNCHANGED <<produced, given, closing, faults, groupVars>>

\* The handler with its channel, wg.Add and the goroutine.
GroupSpawn(s) ==
  /\ main[s] = "opened"
  /\ MainGoto(s, "start")
  /\ LoopGoto(s, "consume")
  /\ ready' = [ready EXCEPT ![s] = "open"]
  /\ UNCHANGED <<produced, given, done, cancel, told, closing, faults, config, claim,
                 committed, base>>

\* <-consumerHandler.ready: the caller reads the field, and waits until that
\* channel is closed.
GroupReadReady(s) ==
  /\ main[s] = "start"
  /\ MainGoto(s, IF ready[s] = "closed" THEN "returned" ELSE "wait")
  /\ UNCHANGED <<produced, given, done, cancel, told, closing, faults, groupVars>>

\* Consume begins a session: Setup closes ready, the claims begin.
GroupSetup(s) ==
  /\ loop[s] = "consume"
  /\ closing # "closed"
  /\ \A t \in Sub : ~InSession(t)
  /\ ready' = [ready EXCEPT ![s] = IF @ = "open" THEN "closed" ELSE "panic"]
  /\ MainGoto(s, IF main[s] = "wait" THEN "returned" ELSE main[s])
  /\ claim' = [p \in Partition |->
                 [pc |-> "select", pos |-> StartOf(p), marked |-> None]]
  /\ base' = [p \in Partition |-> IF committed[p] = None THEN StartOf(p) ELSE base[p]]
  /\ LoopGoto(s, "session")
  /\ UNCHANGED <<produced, given, done, cancel, told, closing, faults, config, committed>>

\* Mutant: the channel is not made anew.
ConsumeReturned_KeepsReady(s) ==
  /\ LoopGoto(s, IF done[s] THEN "off" ELSE "consume")
  /\ UNCHANGED <<main, ready>>

\* Consume has returned: the goroutine ends with its context, or makes a new
\* channel and calls Consume again.  A caller that waits for the channel that is
\* replaced waits for ever.
ConsumeReturned(s) ==
  IF done[s]
  THEN LoopGoto(s, "off") /\ UNCHANGED <<main, ready>>
  ELSE /\ LoopGoto(s, "consume")
       /\ MainGoto(s, IF main[s] = "wait" THEN "lost" ELSE main[s])
       /\ ready' = [ready EXCEPT ![s] = "open"]

\* Consume fails before Setup, which it may do for the context's sake, and
\* always does once the client is closed.
GroupConsumeFails(s) ==
  /\ loop[s] = "consume"
  /\ \A t \in Sub : ~InSession(t)
  /\ \/ (done[s] \/ closing = "closed") /\ UNCHANGED faults
     \/ Fault
  /\ ConsumeReturned(s)
  /\ UNCHANGED <<produced, given, done, cancel, told, closing, config, claim, committed, base>>

\* The session's context is done: that of Subscribe is, or the group rebalances.
GroupSessionEnds(s) ==
  /\ loop[s] = "session"
  /\ \/ done[s] /\ UNCHANGED faults
     \/ Fault
  /\ LoopGoto(s, "leaving")
  /\ UNCHANGED <<produced, given, main, done, cancel, told, closing, config, ready, claim,
                 committed, base>>

\* Every ConsumeClaim has returned; Cleanup; the offsets are flushed, if they
\* ever are, and Consume returns.
GroupRelease(s) ==
  /\ loop[s] = "leaving"
  /\ \A p \in Partition : claim[p].pc = "off"
  /\ \/ committed' = (IF config.autoCommit THEN Flushed ELSE committed) /\ UNCHANGED faults
     \/ Fault /\ UNCHANGED committed
  /\ claim' = [p \in Partition |-> NoClaim]
  /\ ConsumeReturned(s)
  /\ UNCHANGED <<produced, given, done, cancel, told, closing, config, base>>

----------------------------------------------------------------------------
(* ConsumeClaim                                                             *)

ClaimGoto(p, pc, pos, marked) ==
  claim' = [claim EXCEPT ![p] = [pc |-> pc, pos |-> pos, marked |-> marked]]

\* Mutant: the message is marked before the handler is called.
ClaimTake_Marks(p) ==
  /\ claim[p].pc = "select"
  /\ claim[p].pos < produced[p]
  /\ ClaimGoto(p, "handle", claim[p].pos, claim[p].pos + 1)
  /\ UNCHANGED <<clientVars, config, loop, ready, committed, base>>

ClaimTake(p) ==
  /\ claim[p].pc = "select"
  /\ claim[p].pos < produced[p]
  /\ ClaimGoto(p, "handle", claim[p].pos, claim[p].marked)
  /\ UNCHANGED <<clientVars, config, loop, ready, committed, base>>

\* The handler returns nil, and the message is marked; or an error: it is left
\* unmarked, and the next one is read all the same.
ClaimHandle(p) ==
  LET next == claim[p].pos + 1
  IN /\ claim[p].pc = "handle"
     /\ given' = given \cup {<<p, claim[p].pos>>}
     /\ \E marked \in {claim[p].marked, next} : ClaimGoto(p, "select", next, marked)
     /\ UNCHANGED <<produced, main, done, cancel, told, closing, faults, config, loop, ready,
                    committed, base>>

\* The session's context is done, or the claim's channel is closed.
ClaimLeave(p) ==
  /\ claim[p].pc = "select"
  /\ \E s \in Sub : loop[s] = "leaving"
  /\ ClaimGoto(p, "off", claim[p].pos, claim[p].marked)
  /\ UNCHANGED <<clientVars, config, loop, ready, committed, base>>

\* sarama commits the marks of the session every AutoCommitInterval.
GroupAutoCommit ==
  /\ config.autoCommit
  /\ \E s \in Sub : InSession(s)
  /\ committed' = Flushed
  /\ UNCHANGED <<clientVars, config, loop, ready, claim, base>>

----------------------------------------------------------------------------
(* Close, and a crash                                                       *)

\* Mutant: Close waits, and nobody was told to stop.
GroupClose_NoCancel ==
  /\ closing = "open"
  /\ told' = cancel
  /\ closing' = "waiting"
  /\ UNCHANGED <<produced, given, main, done, cancel, faults, groupVars>>

\* Bound: an application closes a consumer once.
GroupClose ==
  /\ closing = "open"
  /\ CancelLast
  /\ closing' = "waiting"
  /\ UNCHANGED <<produced, given, main, cancel, faults, groupVars>>

\* wg.Wait has returned.
GroupClosed ==
  /\ closing = "waiting"
  /\ \A s \in Sub : loop[s] = "off"
  /\ closing' = "closed"
  /\ UNCHANGED <<produced, given, main, done, cancel, told, faults, groupVars>>

GroupCrash ==
  /\ ProcessDies
  /\ loop' = [s \in Sub |-> "off"]
  /\ ready' = [s \in Sub |-> "open"]
  /\ claim' = [p \in Partition |-> NoClaim]
  /\ UNCHANGED <<config, committed, base>>

----------------------------------------------------------------------------

GroupSteps(s) ==
  \/ GroupSpawn(s) \/ GroupReadReady(s) \/ GroupRelease(s)
  \/ done[s] /\ GroupSessionEnds(s)

GroupConsume(s) == GroupSetup(s) \/ GroupConsumeFails(s)

ClaimSteps(p) == ClaimTake(p) \/ ClaimHandle(p)

GroupNext ==
  \/ \E s \in Sub : \/ GroupSubscribe(s) \/ GroupSteps(s) \/ GroupConsume(s)
                    \/ GroupSessionEnds(s)
                    \/ CancelContext(s) /\ UNCHANGED groupVars
  \/ \E p \in Partition : \/ ClaimSteps(p) \/ ClaimLeave(p)
                          \/ Produce(p) /\ UNCHANGED groupVars
  \/ GroupAutoCommit
  \/ GroupClose \/ GroupClosed \/ GroupCrash
============================================================================
