----------------------------- MODULE MqProducer -----------------------------
(***************************************************************************)
(* mq/kafka/producer.go and mq/rocketmq/producer.go, which differ in the     *)
(* client they call: Send, SendBatch (Send for one message after the other,  *)
(* up to the first error) and SendAsync (a goroutine that calls Send, or the *)
(* client's).  A Sender is a goroutine of the application that sends a batch *)
(* and, after an error, what SendBatch gave no result for.                   *)
(***************************************************************************)
EXTENDS MqClient, Sequences

CONSTANTS
  Sender,
  BatchLen     \* messages of a sender's batch: 1 .. BatchLen

ASSUME ProducerAssumption == BatchLen \in Nat \ {0}

VARIABLES
  stored,      \* the messages the broker stored, in order
  send,        \* each sender's SendBatch: where it is, the message it is at
  acked,       \* how many of its messages have a result
  async        \* the message it gave to SendAsync, which `stored` does not count

producerVars == <<stored, send, acked, async>>

SendState == [pc : {"idle", "sending", "failed", "done", "panic"}, at : 0 .. BatchLen + 1]

ProducerTypeOK ==
  /\ stored \in Seq(Sender \X (1 .. BatchLen))
  /\ send \in [Sender -> SendState]
  /\ acked \in [Sender -> 0 .. BatchLen]
  /\ async \in [Sender -> {"none", "called", "sent", "failed", "panic"}]

ProducerInit ==
  /\ stored = <<>>
  /\ send = [c \in Sender |-> [pc |-> "idle", at |-> 0]]
  /\ acked = [c \in Sender |-> 0]
  /\ async = [c \in Sender |-> "none"]

\* A panic in a goroutine ends the process.
Alive == \A c \in Sender : send[c].pc # "panic" /\ async[c] # "panic"

SendGoto(c, pc, at) == send' = [send EXCEPT ![c] = [pc |-> pc, at |-> at]]

----------------------------------------------------------------------------

\* The messages the sender has no result for, the first time or again.
BatchCall(c) ==
  /\ send[c].pc \in {"idle", "failed"}
  /\ SendGoto(c, "sending", acked[c] + 1)
  /\ UNCHANGED <<clientVars, stored, acked, async>>

\* Send of the message the loop is at, and its result.
BatchSend(c) ==
  /\ send[c].pc = "sending"
  /\ closing = "open"
  /\ stored' = Append(stored, <<c, send[c].at>>)
  /\ acked' = [acked EXCEPT ![c] = @ + 1]
  /\ SendGoto(c, IF send[c].at = BatchLen THEN "done" ELSE "sending", send[c].at + 1)
  /\ UNCHANGED <<clientVars, async>>

\* Mutant: the loop goes on after an error, and reports it at the end.
BatchSendFails_GoesOn(c) ==
  /\ send[c].pc = "sending"
  /\ closing = "open"
  /\ Fault
  /\ stored' \in {stored, Append(stored, <<c, send[c].at>>)}
  /\ SendGoto(c, IF send[c].at = BatchLen THEN "failed" ELSE "sending", send[c].at + 1)
  /\ UNCHANGED <<produced, given, main, done, cancel, told, closing, acked, async>>

\* An error; the broker may have stored the message.
BatchSendFails(c) ==
  /\ send[c].pc = "sending"
  /\ closing = "open"
  /\ Fault
  /\ stored' \in {stored, Append(stored, <<c, send[c].at>>)}
  /\ SendGoto(c, "failed", send[c].at)
  /\ UNCHANGED <<produced, given, main, done, cancel, told, closing, acked, async>>

\* A closed producer: RocketMQ's client returns an error, sarama's sends on the
\* channel that its Close has closed.
SendOnClosed(c) ==
  /\ send[c].pc = "sending"
  /\ closing = "closed"
  /\ \E pc \in {"failed", "panic"} : SendGoto(c, pc, send[c].at)
  /\ UNCHANGED <<clientVars, stored, acked, async>>

SendAsync(c) ==
  /\ async[c] = "none"
  /\ async' = [async EXCEPT ![c] = "called"]
  /\ UNCHANGED <<clientVars, stored, send, acked>>

\* The goroutine of SendAsync, or the client's, whenever it runs: neither Close nor
\* Flush, which does nothing at all, waits for it.
AsyncRun(c) ==
  /\ async[c] = "called"
  /\ \E result \in IF closing = "open" THEN {"sent", "failed"} ELSE {"failed", "panic"} :
       async' = [async EXCEPT ![c] = result]
  /\ UNCHANGED <<clientVars, stored, send, acked>>

ProducerClose ==
  /\ closing = "open"
  /\ closing' = "closed"
  /\ UNCHANGED <<produced, given, main, done, cancel, told, faults, producerVars>>

ProducerNext ==
  /\ Alive
  /\ \/ \E c \in Sender : \/ BatchCall(c) \/ BatchSend(c) \/ BatchSendFails(c)
                          \/ SendOnClosed(c) \/ SendAsync(c) \/ AsyncRun(c)
     \/ ProducerClose
============================================================================
