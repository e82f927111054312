---------------------------- MODULE MessageQueue ----------------------------
(***************************************************************************)
(* An application of mq/ holds one implementation of mq.Consumer, or a       *)
(* producer; which one is chosen in the initial state.  The state of the     *)
(* others stays as it was.                                                  *)
(***************************************************************************)
EXTENDS KafkaGroup, KafkaSeek, RocketPush, MqProducer

CONSTANT Kinds

ASSUME KindsAssumption == Kinds \subseteq {"group", "seek", "rocket", "producer"}

VARIABLE kind

vars == <<clientVars, groupVars, seekVars, rocketVars, producerVars, kind>>

TypeOK ==
  /\ kind \in Kinds
  /\ ClientTypeOK
  /\ GroupTypeOK
  /\ SeekTypeOK
  /\ RocketTypeOK
  /\ ProducerTypeOK

Init ==
  /\ kind \in Kinds
  /\ ClientInit
  /\ GroupInit /\ (kind # "group" => config = [initial |-> "newest", autoCommit |-> TRUE])
  /\ SeekInit
  /\ RocketInit /\ (kind # "rocket" => ~broadcasting /\ from = "newest")
  /\ ProducerInit

\* A step of the implementation that was chosen.
InGroup(A) == kind = "group" /\ A /\ UNCHANGED <<kind, seekVars, rocketVars, producerVars>>

InSeek(A) == kind = "seek" /\ A /\ UNCHANGED <<kind, groupVars, rocketVars, producerVars>>

InRocket(A) == kind = "rocket" /\ A /\ UNCHANGED <<kind, groupVars, seekVars, producerVars>>

InProducer(A) == kind = "producer" /\ A /\ UNCHANGED <<kind, groupVars, seekVars, rocketVars>>

Next ==
  \/ InGroup(GroupNext)
  \/ InSeek(SeekNext)
  \/ InRocket(RocketNext)
  \/ InProducer(ProducerNext)

Spec == Init /\ [][Next]_vars

\* Goroutines run, handlers return and requests end.  ClaimLeave and SeekLeave
\* are one branch of a select, which is taken in the end although the other is
\* ready again and again.  RocketMQ delivers while the client is not suspended.
Fairness ==
  /\ \A s \in Sub :
       /\ WF_vars(InGroup(GroupSteps(s))) /\ WF_vars(InGroup(GroupConsume(s)))
       /\ WF_vars(InSeek(SeekSteps(s)))
       /\ \A p \in Partition : SF_vars(InSeek(SeekLeave(s, p)))
  /\ \A p \in Partition :
       /\ WF_vars(InGroup(ClaimSteps(p))) /\ SF_vars(InGroup(ClaimLeave(p)))
       /\ WF_vars(InSeek(\E s \in Sub : SeekTake(s, p)))
       /\ WF_vars(InRocket(RocketPull(p))) /\ WF_vars(InRocket(RocketHandle(p)))
  /\ WF_vars(InSeek(SeekOpen \/ SeekFails))
  /\ WF_vars(InGroup(GroupClosed)) /\ SF_vars(InSeek(SeekConsumerClosed))

FairSpec == Spec /\ Fairness

----------------------------------------------------------------------------
(* What Subscribe promises                                                  *)

\* The broker has settled what the group has committed; what RocketMQ was told
\* is consumed, and the dead letters.
Settled ==
  {m \in Message :
     \/ committed[m[1]] # None /\ m[2] \in base[m[1]] .. committed[m[1]] - 1
     \/ status[m] \in {"stored", "dead"}}

\* A group is entitled to what comes after its offset in the broker, and without
\* one to everything if it starts at the oldest.
GroupEntitled(p, o) ==
  /\ \E s \in Sub : Asked(s)
  /\ \/ config.initial = "oldest"
     \/ committed[p] # None /\ committed[p] <= o

\* A seeking consumer's Subscribe that nobody ended: to what a partition's
\* consumer has yet to give, unless Seek has put it there since, and a goroutine
\* to what it has in hand.
SeekEntitled(p, o) ==
  \E s \in Sub :
    \/ worker[s][p].pc = "handle" /\ worker[s][p].msg = o
    \/ /\ main[s] = "blocked" /\ ~done[s] /\ ~worker[s][p].old
       /\ cur[p] # None /\ cur[p] <= o

\* RocketMQ's: to what comes after its start, while it runs and is not suspended.
RocketEntitled(p, o) ==
  client = "running" /\ ~suspended /\ start[p] # None /\ start[p] <= o

Entitled ==
  {m \in Message : \/ kind = "group" /\ GroupEntitled(m[1], m[2])
                   \/ kind = "seek" /\ SeekEntitled(m[1], m[2])
                   \/ kind = "rocket" /\ RocketEntitled(m[1], m[2])}

Promise == INSTANCE AtLeastOnce
  WITH Msg <- Message, log <- Log, given <- given, settled <- Settled, entitled <- Entitled

\* Over rebalances, failed sessions, lost commits, crashes, Seeks, overlapping
\* calls of Subscribe and a Close at any time: no offset is committed, and no
\* message acknowledged or dropped, that the handler was not called with, and a
\* message does not wait for ever for a subscription that is entitled to it
\* (ConsumeClaim, the loops of Subscribe, the closure of RocketMQ).  To call the
\* handler is enough: it may have returned an error.
KeepsPromise == Promise!Spec

\* RocketMQ's consumer gives a message up only if the handler accepted it, or
\* after MaxReconsumeTimes (line 114: one error is one for the whole batch).
AckedWereAccepted ==
  ~broadcasting => \A m \in Message : status[m] \in {"acked", "stored"} => m \in accepted

\* Every message that the consumer of a partition has gone past was given to a
\* handler, or is in the hand of a goroutine that will give it: with
\* overlapping Subscribes, Seeks, Consumes, cancels and a Close, none is dropped.
NonePassedOver ==
  \A p \in Partition : \A o \in passed[p] :
    \E s \in Sub : worker[s][p].pc = "handle" /\ ~worker[s][p].old /\ worker[s][p].msg = o

\* Close waits for ever (line 161, line 227) only for a Subscribe whose cancel it
\* did not call and whose context the application never cancels: a later one's
\* cancel was stored over its own (line 80, line 105), or it came when Close had
\* called the cancel it found.
Running(s) ==
  \/ loop[s] # "off"
  \/ \E p \in Partition : worker[s][p].pc # "off"

CloseReturns ==
  <>[](closing = "waiting") => []<>(\E s \in Sub \ {told} : Running(s) /\ ~done[s])

\* The messages that have results are the first ones of the batch, stored in
\* their order, and of the others at most the one that failed is stored: a
\* sender that sends the rest again after an error has all of them stored in
\* order in the end.
FirstAt(m) == CHOOSE i \in 1 .. Len(stored) :
                stored[i] = m /\ \A j \in 1 .. i - 1 : stored[j] # m

ResultsArePrefix ==
  \A c \in Sender :
    LET sent == {n \in 1 .. BatchLen : \E i \in 1 .. Len(stored) : stored[i] = <<c, n>>}
    IN /\ 1 .. acked[c] \subseteq sent
       /\ sent \subseteq 1 .. acked[c] + 1
       /\ \A m, n \in sent : m < n => FirstAt(<<c, m>>) < FirstAt(<<c, n>>)

=============================================================================
