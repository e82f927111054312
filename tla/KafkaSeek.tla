----------------------------- MODULE KafkaSeek -----------------------------
(***************************************************************************)
(* mq/kafka/consumer_seek.go: a consumer without a group, one                *)
(* PartitionConsumer of sarama per partition.  Seek closes the partition's   *)
(* consumer and puts one in its place that reads from the offset asked for.  *)
(* A goroutine of Subscribe keeps the PartitionConsumer it was started with. *)
(***************************************************************************)
EXTENDS MqClient

VARIABLES
  cur,         \* consumers: the PartitionConsumer of each partition
  buffered,    \* what those of them that were closed have left in their channels
  passed,      \* history: the messages cur[p] has given out that no handler had yet
  worker,      \* the goroutine of a Subscribe for a partition
  seeking,     \* Seek holds mu: its partition and offset
  manual       \* Consume: the partition it waits for, those it has yet to try

seekVars == <<cur, buffered, passed, worker, seeking, manual>>

\* The offset it will give next, or None when it is closed.
ConsumerState == (0 .. MaxOffset) \cup {None}

\* old: its PartitionConsumer is, or was, no longer the one in consumers.
WorkerState ==
  [pc : {"off", "new", "select", "handle"}, old : BOOLEAN, msg : Offset \cup {None}]

NoWorker == [pc |-> "off", old |-> FALSE, msg |-> None]

ManualState == [at : Partition \cup {None}, old : BOOLEAN, left : SUBSET Partition]

NoManual == [at |-> None, old |-> FALSE, left |-> {}]

SeekState == [at : Partition \cup {None}, offset : 0 .. MaxOffset]

NoSeek == [at |-> None, offset |-> 0]

SeekTypeOK ==
  /\ cur \in [Partition -> ConsumerState]
  /\ buffered \in [Partition -> SUBSET Offset]
  /\ passed \in [Partition -> SUBSET Offset]
  /\ worker \in [Sub -> [Partition -> WorkerState]]
  /\ seeking \in SeekState
  /\ manual \in ManualState

SeekInit ==
  /\ cur = produced    \* ConsumePartition at OffsetNewest
  /\ buffered = [p \in Partition |-> {}]
  /\ passed = [p \in Partition |-> {}]
  /\ worker = [s \in Sub |-> [p \in Partition |-> NoWorker]]
  /\ seeking = NoSeek
  /\ manual = NoManual

WorkerGoto(s, p, pc, msg) ==
  worker' = [worker EXCEPT ![s][p] = [pc |-> pc, old |-> worker[s][p].old, msg |-> msg]]

\* The next message of the partition's consumer is taken.
Readable(p) == cur[p] # None /\ cur[p] < produced[p]

Advance(p) == cur' = [cur EXCEPT ![p] = @ + 1]

\* pc.Close drops nothing that the channel holds: some of what would come next.
Leaves(p) ==
  IF cur[p] = None THEN {{}} ELSE {cur[p] .. n - 1 : n \in cur[p] .. produced[p]}

\* A message that is still in the channel of a closed PartitionConsumer of p.
TakeBuffered(p, o) ==
  /\ o \in buffered[p]
  /\ buffered' = [buffered EXCEPT ![p] = @ \ {o}]

----------------------------------------------------------------------------
(* Subscribe                                                                *)

SeekSubscribe(s) ==
  /\ main[s] = "idle"
  /\ NewContext(s)
  /\ MainGoto(s, "blocked")
  /\ worker' = [worker EXCEPT ![s] = [p \in Partition |-> [NoWorker EXCEPT !.pc = "new"]]]
  /\ UNCHANGED <<produced, given, closing, faults, cur, buffered, passed, seeking, manual>>

\* One step of the loops over consumers, which take no lock: a Seek may run
\* between two steps.  When it writes the map while the loop reads it, the
\* runtime may also end the process, which is then a SeekCrash.
SeekSpawn(s, p) ==
  /\ worker[s][p].pc = "new"
  /\ worker' = [worker EXCEPT ![s][p] = [NoWorker EXCEPT !.pc = "select"]]
  /\ UNCHANGED <<clientVars, cur, buffered, passed, seeking, manual>>

\* Subscribe returns when its context is done; its goroutines may still run.
SeekReturn(s) ==
  /\ main[s] = "blocked"
  /\ done[s] /\ \A p \in Partition : worker[s][p].pc # "new"
  /\ MainGoto(s, "returned")
  /\ UNCHANGED <<produced, given, done, cancel, told, closing, faults, seekVars>>

Handled(s, p) ==
  /\ given' = given \cup {<<p, worker[s][p].msg>>}
  /\ passed' = IF worker[s][p].old THEN passed
               ELSE [passed EXCEPT ![p] = @ \ {worker[s][p].msg}]

\* Mutant: the message in hand is dropped when the context is done.
SeekHandle_ChecksContext(s, p) ==
  /\ worker[s][p].pc = "handle"
  /\ IF done[s]
     THEN WorkerGoto(s, p, "off", None) /\ UNCHANGED <<given, passed>>
     ELSE /\ Handled(s, p)
          /\ WorkerGoto(s, p, "select", None)
  /\ UNCHANGED <<produced, main, done, cancel, told, closing, faults, cur, buffered, seeking,
                 manual>>

SeekTake(s, p) ==
  /\ worker[s][p].pc = "select"
  /\ ~worker[s][p].old
  /\ Readable(p)
  /\ WorkerGoto(s, p, "handle", cur[p])
  /\ Advance(p)
  /\ passed' = [passed EXCEPT ![p] = @ \cup {cur[p]}]
  /\ UNCHANGED <<clientVars, buffered, seeking, manual>>

\* Its PartitionConsumer was closed, and the channel is not empty.
SeekTakeBuffered(s, p) ==
  /\ worker[s][p].pc = "select"
  /\ worker[s][p].old \/ cur[p] = None
  /\ \E o \in Offset :
       /\ TakeBuffered(p, o)
       /\ WorkerGoto(s, p, "handle", o)
       /\ passed' = IF worker[s][p].old THEN passed
                    ELSE [passed EXCEPT ![p] = @ \cup {o}]
  /\ UNCHANGED <<clientVars, cur, seeking, manual>>

\* The handler's error goes to ErrorHandler; the next message is read anyway.
SeekHandle(s, p) ==
  /\ worker[s][p].pc = "handle"
  /\ Handled(s, p)
  /\ WorkerGoto(s, p, "select", None)
  /\ UNCHANGED <<produced, main, done, cancel, told, closing, faults, cur, buffered, seeking,
                 manual>>

\* Mutant: an error from Errors() ends the goroutine.
SeekLeave_OnError(s, p) ==
  /\ worker[s][p].pc = "select"
  /\ WorkerGoto(s, p, "off", None)
  /\ UNCHANGED <<clientVars, cur, buffered, passed, seeking, manual>>

\* Messages() of a closed consumer gives nil once its channel is empty (others'
\* may not be), or the context is done.
SeekLeave(s, p) ==
  /\ worker[s][p].pc = "select"
  /\ worker[s][p].old \/ cur[p] = None \/ done[s]
  /\ WorkerGoto(s, p, "off", None)
  /\ UNCHANGED <<clientVars, cur, buffered, passed, seeking, manual>>

----------------------------------------------------------------------------
(* Seek: under mu from SeekClose to SeekOpen                                *)

SeekClose(p, offset) ==
  /\ seeking.at = None
  /\ seeking' = [at |-> p, offset |-> offset]
  /\ cur' = [cur EXCEPT ![p] = None]
  /\ \E os \in Leaves(p) : buffered' = [buffered EXCEPT ![p] = @ \cup os]
  /\ UNCHANGED <<clientVars, passed, worker, manual>>

\* A goroutine that runs, or has ended although its Subscribe has not.
Started(s, p) ==
  worker[s][p].pc \in IF main[s] = "blocked" THEN {"off", "select", "handle"}
                      ELSE {"select", "handle"}

\* Those who hold the closed consumer keep it.
SeekOpen ==
  LET p == seeking.at
  IN /\ p # None
     /\ closing # "closed" /\ seeking.offset <= produced[p]
     /\ cur' = [cur EXCEPT ![p] = seeking.offset]
     /\ passed' = [passed EXCEPT ![p] = {}]
     /\ worker' = [s \in Sub |->
          IF Started(s, p) THEN [worker[s] EXCEPT ![p].old = TRUE] ELSE worker[s]]
     /\ manual' = [manual EXCEPT !.old = @ \/ manual.at = p]
     /\ seeking' = NoSeek
     /\ UNCHANGED <<clientVars, buffered>>

\* The offset is out of range, the client is closed or a request fails: the
\* closed consumer stays.
SeekFails ==
  /\ seeking.at # None
  /\ \/ (seeking.offset > produced[seeking.at] \/ closing = "closed") /\ UNCHANGED faults
     \/ Fault
  /\ seeking' = NoSeek
  /\ UNCHANGED <<produced, given, main, done, cancel, told, closing, cur, buffered, passed, worker,
                 manual>>

----------------------------------------------------------------------------
(* Consume                                                                  *)

\* The map is tried in any order; Consume waits for the partition it is at.
ManualNext(p, left) ==
  /\ p \in left
  /\ manual' = [at |-> p, old |-> FALSE, left |-> left \ {p}]

ManualCall ==
  /\ manual.at = None
  /\ \E p \in Partition : ManualNext(p, Partition)
  /\ UNCHANGED <<clientVars, cur, buffered, passed, worker, seeking>>

\* The message is the caller's.
ManualTake ==
  LET p == manual.at
  IN /\ p # None
     /\ ~manual.old
     /\ Readable(p)
     /\ Advance(p)
     /\ manual' = NoManual
     /\ UNCHANGED <<clientVars, buffered, passed, worker, seeking>>

ManualTakeBuffered ==
  LET p == manual.at
  IN /\ p # None
     /\ manual.old \/ cur[p] = None
     /\ \E o \in Offset : TakeBuffered(p, o)
     /\ manual' = NoManual
     /\ UNCHANGED <<clientVars, cur, passed, worker, seeking>>

\* A closed consumer: the next one, or ErrConsumeFailed.
ManualSkip ==
  /\ manual.at # None
  /\ manual.old \/ cur[manual.at] = None
  /\ IF manual.left = {} THEN manual' = NoManual
     ELSE \E p \in Partition : ManualNext(p, manual.left)
  /\ UNCHANGED <<clientVars, cur, buffered, passed, worker, seeking>>

ManualTimeout ==
  /\ manual.at # None
  /\ manual' = NoManual
  /\ UNCHANGED <<clientVars, cur, buffered, passed, worker, seeking>>

----------------------------------------------------------------------------
(* Close, and a crash                                                       *)

\* Mutant: Close waits, and nobody was told to stop.
SeekConsumerClose_NoCancel ==
  /\ closing = "open"
  /\ told' = cancel
  /\ closing' = "waiting"
  /\ UNCHANGED <<produced, given, main, done, cancel, faults, seekVars>>

\* Bound: an application closes a consumer once.
SeekConsumerClose ==
  /\ closing = "open"
  /\ CancelLast
  /\ closing' = "waiting"
  /\ UNCHANGED <<produced, given, main, cancel, faults, seekVars>>

\* wg.Wait has returned; under mu every PartitionConsumer is closed.
SeekConsumerClosed ==
  /\ closing = "waiting"
  /\ \A s \in Sub, p \in Partition : worker[s][p].pc \in {"off", "new"}
  /\ seeking.at = None
  /\ cur' = [p \in Partition |-> None]
  /\ \E left \in [Partition -> SUBSET Offset] :
       /\ \A p \in Partition : left[p] \in Leaves(p)
       /\ buffered' = [p \in Partition |-> buffered[p] \cup left[p]]
  /\ closing' = "closed"
  /\ UNCHANGED <<produced, given, main, done, cancel, told, faults, passed, worker, seeking,
                 manual>>

SeekCrash ==
  /\ ProcessDies
  /\ cur' = produced'
  /\ buffered' = [p \in Partition |-> {}]
  /\ passed' = [p \in Partition |-> {}]
  /\ worker' = [s \in Sub |-> [p \in Partition |-> NoWorker]]
  /\ seeking' = NoSeek
  /\ manual' = NoManual

----------------------------------------------------------------------------

SeekSteps(s) ==
  \/ SeekReturn(s)
  \/ \E p \in Partition : SeekSpawn(s, p) \/ SeekHandle(s, p)

SeekNext ==
  \/ \E s \in Sub : \/ SeekSubscribe(s) \/ SeekSteps(s)
                    \/ \E p \in Partition : \/ SeekTake(s, p) \/ SeekTakeBuffered(s, p)
                                           \/ SeekLeave(s, p)
                    \/ CancelContext(s) /\ UNCHANGED seekVars
  \/ \E p \in Partition : \/ \E o \in 0 .. MaxOffset : SeekClose(p, o)
                          \/ Produce(p) /\ UNCHANGED seekVars
  \/ SeekOpen \/ SeekFails
  \/ ManualCall \/ ManualTake \/ ManualTakeBuffered \/ ManualSkip \/ ManualTimeout
  \/ SeekConsumerClose \/ SeekConsumerClosed \/ SeekCrash
============================================================================
