------------------------------ MODULE MqClient ------------------------------
(***************************************************************************)
(* What the consumers of mq/ share: the partitions of a broker, and the      *)
(* calls an application makes of any mq.Consumer.  A Sub is one call of      *)
(* Subscribe, with the context it was given; a handler is called with the    *)
(* messages of a partition, named by their offsets.                          *)
(***************************************************************************)
EXTENDS Integers, FiniteSets

CONSTANTS
  Sub,         \* calls of Subscribe in the life of a process (a bound)
  Partition,   \* partitions (Kafka), topics with one queue each (RocketMQ)
  MaxOffset,   \* messages of a partition (a bound)
  MaxFaults,   \* crashes, rebalances and failed requests (a bound)
  None

ASSUME MqAssumption ==
  /\ MaxOffset \in Nat
  /\ MaxFaults \in Nat
  /\ None \notin Nat \cup Sub \cup Partition

VARIABLES
  produced,    \* the messages of each partition so far
  given,       \* history: the messages a handler was called with, and returned
  main,        \* where the caller of Subscribe is
  done,        \* the context of the call (consumerCtx) is done
  cancel,      \* the field cancel: the last call's CancelFunc
  told,        \* history: the call whose CancelFunc Close has called
  closing,     \* Close: "open", "waiting" for the goroutines, "closed"
  faults       \* faults that can still happen

clientVars == <<produced, given, main, done, cancel, told, closing, faults>>

Offset == 0 .. MaxOffset - 1

Message == Partition \X Offset

Log == {m \in Message : m[2] < produced[m[1]]}

MainPc == {"idle", "opened", "start", "wait", "lost", "blocked", "returned"}

ClientTypeOK ==
  /\ produced \in [Partition -> 0 .. MaxOffset]
  /\ given \subseteq Log
  /\ main \in [Sub -> MainPc]
  /\ done \in [Sub -> BOOLEAN]
  /\ cancel \in Sub \cup {None}
  /\ told \in Sub \cup {None}
  /\ closing \in {"open", "waiting", "closed"}
  /\ faults \in 0 .. MaxFaults

ClientInit ==
  /\ produced = [p \in Partition |-> 0]
  /\ given = {}
  /\ main = [s \in Sub |-> "idle"]
  /\ done = [s \in Sub |-> FALSE]
  /\ cancel = None
  /\ told = None
  /\ closing = "open"
  /\ faults = MaxFaults

Fault == faults > 0 /\ faults' = faults - 1

MainGoto(s, pc) == main' = [main EXCEPT ![s] = pc]

\* context.WithCancel, and the field that Close will call: the CancelFunc of
\* an earlier call that has not ended is lost.
NewContext(s) == cancel' = s /\ UNCHANGED <<done, told>>

\* Close calls the CancelFunc it finds, if there is one.
CancelLast ==
  /\ done' = [s \in Sub |-> done[s] \/ s = cancel]
  /\ told' = cancel

\* The application asked for messages, and did not take it back.
Asked(s) == main[s] # "idle" /\ ~done[s] /\ closing # "closed"

----------------------------------------------------------------------------
(* Steps of the world around a consumer: they leave its own state alone.    *)

Produce(p) ==
  /\ produced[p] < MaxOffset
  /\ produced' = [produced EXCEPT ![p] = @ + 1]
  /\ UNCHANGED <<given, main, done, cancel, told, closing, faults>>

CancelContext(s) ==
  /\ main[s] # "idle"
  /\ ~done[s]
  /\ done' = [done EXCEPT ![s] = TRUE]
  /\ UNCHANGED <<produced, given, main, cancel, told, closing, faults>>

\* The process dies; a new one has a new consumer.
ProcessDies ==
  /\ Fault
  /\ main' = [s \in Sub |-> "idle"]
  /\ done' = [s \in Sub |-> FALSE]
  /\ cancel' = None
  /\ told' = None
  /\ closing' = "open"
  /\ UNCHANGED <<produced, given>>
============================================================================
