----------------------------- MODULE RocketPush -----------------------------
(***************************************************************************)
(* mq/rocketmq/consumer.go: a push consumer of RocketMQ, whose client calls  *)
(* a closure with batches of messages of a topic.  The closure gives them to *)
(* the handler one by one and answers for the batch: success, or retry later *)
(* as soon as one fails.  The client and the broker are external; a          *)
(* Partition stands for a topic.                                            *)
(***************************************************************************)
EXTENDS MqClient

CONSTANTS
  BatchMax,    \* messages the client puts in a batch
  MaxReconsume \* MaxReconsumeTimes: then a message goes to the dead letters

ASSUME RocketAssumption == BatchMax \in Nat \ {0} /\ MaxReconsume \in Nat

VARIABLES
  broadcasting, \* MessageModel: Broadcasting or Clustering
  from,        \* ConsumeFromWhere: where a group that is new to a topic starts
  start,       \* where it started, or None while the topic does not know it
  client,      \* the PushConsumer
  suspended,   \* it is suspended
  callback,    \* the Subscribe whose handler the closure of a topic calls
  status,      \* where each message is
  tries,       \* how often it was sent back
  batch,       \* the batch a topic's closure has in hand: what is left of it,
               \* what it has handled, and whose handler it calls
  accepted     \* history: messages for which the handler returned nil

rocketVars ==
  <<broadcasting, from, start, client, suspended, callback, status, tries, batch, accepted>>

\* "acked" messages are consumed as far as the process knows; "stored" when
\* the broker (or, for broadcasting, the offset file) knows it too.
Status == {"ready", "batch", "acked", "stored", "dead"}

BatchState ==
  [left : SUBSET Offset, handled : SUBSET Offset, sub : Sub \cup {None}]

NoBatch == [left |-> {}, handled |-> {}, sub |-> None]

RocketTypeOK ==
  /\ broadcasting \in BOOLEAN
  /\ from \in {"newest", "oldest"}
  /\ start \in [Partition -> (0 .. MaxOffset) \cup {None}]
  /\ client \in {"created", "running", "failed", "shutdown"}
  /\ suspended \in BOOLEAN
  /\ callback \in [Partition -> Sub \cup {None}]
  /\ status \in [Message -> Status]
  /\ tries \in [Message -> 0 .. MaxReconsume]
  /\ batch \in [Partition -> BatchState]
  /\ accepted \subseteq Log

RocketInit ==
  /\ broadcasting \in BOOLEAN
  /\ from \in {"newest", "oldest"}
  /\ start = [p \in Partition |-> None]
  /\ client = "created"
  /\ suspended = FALSE
  /\ callback = [p \in Partition |-> None]
  /\ status = [m \in Message |-> "ready"]
  /\ tries = [m \in Message |-> 0]
  /\ batch = [p \in Partition |-> NoBatch]
  /\ accepted = {}

Least(os) == CHOOSE o \in os : \A q \in os : o <= q

FirstStart(p) == IF from = "oldest" THEN 0 ELSE produced[p]

\* What is sent back comes again whatever its offset.
Deliverable(p) ==
  {o \in Offset :
     /\ <<p, o>> \in Log
     /\ status[<<p, o>>] = "ready"
     /\ start[p] <= o \/ tries[<<p, o>>] > 0}

----------------------------------------------------------------------------

\* Every topic gets a closure over this call's handler, then Start.  Start is
\* called once by the client: a later Subscribe only replaces the closures.
RocketSubscribe(s) ==
  /\ main[s] = "idle"
  /\ client \in {"created", "running"}
  /\ callback' = [p \in Partition |-> s]
  /\ \/ /\ client' = "running"
        /\ start' = [p \in Partition |-> IF start[p] = None THEN FirstStart(p) ELSE start[p]]
        /\ MainGoto(s, "blocked")
        /\ UNCHANGED faults
     \/ /\ client = "created"
        /\ Fault
        /\ client' = "failed"
        /\ MainGoto(s, "returned")
        /\ UNCHANGED start
  /\ UNCHANGED <<produced, given, done, cancel, told, closing, broadcasting, from, suspended,
                 status, tries, batch, accepted>>

\* Subscribe returns when its context is done; the client goes on.
RocketReturn(s) ==
  /\ main[s] = "blocked"
  /\ done[s]
  /\ MainGoto(s, "returned")
  /\ UNCHANGED <<produced, given, done, cancel, told, closing, faults, rocketVars>>

\* Suspend and Resume are for all topics, whatever topics were asked for.
RocketPause ==
  /\ suspended' = TRUE
  /\ UNCHANGED <<clientVars, broadcasting, from, start, client, callback, status, tries, batch,
                 accepted>>

RocketResume ==
  /\ suspended' = FALSE
  /\ UNCHANGED <<clientVars, broadcasting, from, start, client, callback, status, tries, batch,
                 accepted>>

\* The client calls the closure of the topic with some messages.
RocketPull(p) ==
  /\ client = "running" /\ ~suspended
  /\ batch[p] = NoBatch
  /\ \E os \in SUBSET Deliverable(p) :
       /\ Cardinality(os) \in 1 .. BatchMax
       /\ batch' = [batch EXCEPT ![p] = [left |-> os, handled |-> {}, sub |-> callback[p]]]
       /\ status' = [m \in Message |->
                       IF m[1] = p /\ m[2] \in os THEN "batch" ELSE status[m]]
  /\ UNCHANGED <<clientVars, broadcasting, from, start, client, suspended, callback, tries,
                 accepted>>

\* The messages of p in os are consumed, or, one more time, sent back.
Ack(p, os) ==
  /\ status' = [m \in Message |-> IF m[1] = p /\ m[2] \in os THEN "acked" ELSE status[m]]
  /\ UNCHANGED tries

SendBack(p, os) ==
  LET back == {m \in Message : m[1] = p /\ m[2] \in os}
  IN /\ status' = [m \in Message |->
          IF m \in back THEN IF tries[m] = MaxReconsume THEN "dead" ELSE "ready"
          ELSE status[m]]
     /\ tries' = [m \in Message |->
          IF m \in back /\ tries[m] < MaxReconsume THEN tries[m] + 1 ELSE tries[m]]

\* Mutant: a message that fails is skipped, as the Kafka consumer does.
RocketHandle_Skips(p) ==
  /\ batch[p].left # {}
  /\ LET o == Least(batch[p].left)
         left == batch[p].left \ {o}
         all == batch[p].handled \cup {o}
     IN /\ given' = given \cup {<<p, o>>}
        /\ accepted' \in {accepted, accepted \cup {<<p, o>>}}
        /\ IF left = {}
           THEN Ack(p, all) /\ batch' = [batch EXCEPT ![p] = NoBatch]
           ELSE /\ batch' = [batch EXCEPT ![p].left = left, ![p].handled = all]
                /\ UNCHANGED <<status, tries>>
  /\ UNCHANGED <<produced, main, done, cancel, told, closing, faults, broadcasting, from, start,
                 client, suspended, callback>>

\* The handler returns nil and the batch goes on or is a success ...
RocketHandle(p) ==
  /\ batch[p].left # {}
  /\ LET o == Least(batch[p].left)
         left == batch[p].left \ {o}
         all == batch[p].handled \cup {o}
     IN /\ given' = given \cup {<<p, o>>}
        /\ \/ /\ accepted' = accepted \cup {<<p, o>>}
              /\ IF left = {}
                 THEN Ack(p, all) /\ batch' = [batch EXCEPT ![p] = NoBatch]
                 ELSE /\ batch' = [batch EXCEPT ![p].left = left, ![p].handled = all]
                      /\ UNCHANGED <<status, tries>>
           \* ... or an error: ConsumeRetryLater for the whole batch, which a
           \* broadcasting client drops.
           \/ /\ IF broadcasting THEN Ack(p, all \cup left) ELSE SendBack(p, all \cup left)
              /\ batch' = [batch EXCEPT ![p] = NoBatch]
              /\ UNCHANGED accepted
  /\ UNCHANGED <<produced, main, done, cancel, told, closing, faults, broadcasting, from, start,
                 client, suspended, callback>>

\* The client reports its progress from time to time.
RocketStore ==
  /\ client = "running"
  /\ status' = [m \in Message |-> IF status[m] = "acked" THEN "stored" ELSE status[m]]
  /\ UNCHANGED <<clientVars, broadcasting, from, start, client, suspended, callback, tries, batch,
                 accepted>>

\* Shutdown reports the progress for the last time.
RocketClose ==
  /\ closing = "open"
  /\ closing' = "closed"
  /\ client' = "shutdown"
  /\ status' = [m \in Message |-> IF status[m] = "acked" THEN "stored" ELSE status[m]]
  /\ UNCHANGED <<produced, given, main, done, cancel, told, faults, broadcasting, from, start,
                 suspended, callback, tries, batch, accepted>>

\* What was not reported is delivered again; a group that has reported nothing of
\* a topic may be new to it again.
RocketCrash ==
  /\ ProcessDies
  /\ start' \in [Partition -> (0 .. MaxOffset) \cup {None}]
  /\ \A p \in Partition :
       \/ start'[p] = start[p]
       \/ start'[p] = None /\ \A m \in Message : m[1] = p => status[m] # "stored"
  /\ client' = "created"
  /\ suspended' = FALSE
  /\ callback' = [p \in Partition |-> None]
  /\ status' = [m \in Message |->
                  IF status[m] \in {"batch", "acked"} THEN "ready" ELSE status[m]]
  /\ batch' = [p \in Partition |-> NoBatch]
  /\ UNCHANGED <<broadcasting, from, tries, accepted>>

----------------------------------------------------------------------------

RocketNext ==
  \/ \E s \in Sub : \/ RocketSubscribe(s) \/ RocketReturn(s)
                    \/ CancelContext(s) /\ UNCHANGED rocketVars
  \/ \E p \in Partition : \/ RocketPull(p) \/ RocketHandle(p)
                          \/ Produce(p) /\ UNCHANGED rocketVars
  \/ RocketPause \/ RocketResume \/ RocketStore
  \/ RocketClose \/ RocketCrash
============================================================================
