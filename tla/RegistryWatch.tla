--------------------------- MODULE RegistryWatch ---------------------------
(***************************************************************************)
(* Watch and Subscribe of service_registry/registry/etcd/registry.go: a     *)
(* goroutine per watcher (watchService, watchServiceWithHandler) that opens *)
(* an etcd watch, delivers the list of instances, and on every event reads  *)
(* the list again and delivers it; and what Close does to these goroutines. *)
(*                                                                          *)
(* A list of instances is named by the number of changes it reflects: 0 is  *)
(* the empty list.  A watcher of kind "channel" (Watch) sends to a buffered *)
(* channel that the application reads; one of kind "handler" (Subscribe)    *)
(* calls the handler.                                                       *)
(***************************************************************************)
EXTENDS Naturals, Sequences, SequencesExt

CONSTANTS
  Watcher,
  Handler,     \* the watchers of kind "handler"
  Capacity,    \* of the channel Watch returns (10 in the code)
  MaxRev,      \* bound: changes of the service
  MaxFaults,   \* bound: failures of Discover and of etcd watches
  MayClose     \* TRUE: the application calls Close

ASSUME WatchAssumption ==
  /\ Handler \subseteq Watcher
  /\ Capacity \in Nat \ {0}
  /\ MaxRev \in Nat /\ MaxFaults \in Nat
  /\ MayClose \in BOOLEAN

VARIABLES
  rev,         \* etcd: the changes under the prefix so far
  faults,      \* the failures of etcd so far
  pc,          \* the goroutine of each watcher
  cursor,      \* the last change its watch has reported
  stream,      \* its watchChan: "none", "open" or "closed"
  snap,        \* the list it has read last
  ch,          \* the buffer of its channel
  chClosed,    \* the channels Close has closed
  ctxDone,     \* the watchers whose context is cancelled
  seen,        \* the list its reader or handler was given last
  phase        \* "open", "stopping" or "closed": as far as Close has come

vars == <<rev, faults, pc, cursor, stream, snap, ch, chClosed, ctxDone, seen, phase>>

Revs == 0..MaxRev

Buffers == Seq(Revs)

TypeOK ==
  /\ rev \in Revs /\ faults \in 0..MaxFaults
  /\ pc \in [Watcher -> {"off", "watch", "first", "send", "loop", "discover",
                         "end", "panic"}]
  /\ cursor \in [Watcher -> Revs]
  /\ stream \in [Watcher -> {"none", "open", "closed"}]
  /\ snap \in [Watcher -> Revs]
  /\ ch \in [Watcher -> Buffers]
  /\ chClosed \subseteq Watcher
  /\ ctxDone \subseteq Watcher
  /\ seen \in [Watcher -> Revs]
  /\ phase \in {"open", "stopping", "closed"}

At(w, p) == pc[w] = p

Goto(w, p) == pc' = [pc EXCEPT ![w] = p]

Connected == phase # "closed"

Init ==
  /\ rev = 0 /\ faults = 0
  /\ pc = [w \in Watcher |-> "off"]
  /\ cursor = [w \in Watcher |-> 0]
  /\ stream = [w \in Watcher |-> "none"]
  /\ snap = [w \in Watcher |-> 0]
  /\ ch = [w \in Watcher |-> <<>>]
  /\ chClosed = {}
  /\ ctxDone = {}
  /\ seen = [w \in Watcher |-> 0]
  /\ phase = "open"

----------------------------------------------------------------------------
(* The watcher goroutines                                                   *)

\* An instance is registered, updated or gone.
Change ==
  /\ rev < MaxRev
  /\ rev' = rev + 1
  /\ UNCHANGED <<faults, pc, cursor, stream, snap, ch, chClosed, ctxDone, seen, phase>>

\* Watch and Subscribe start the goroutine.  Close no longer knows channels
\* that are added after it.
Start(w) ==
  /\ At(w, "off")
  /\ Goto(w, "watch")
  /\ UNCHANGED <<rev, faults, cursor, stream, snap, ch, chClosed, ctxDone, seen, phase>>

\* After client.Watch.  A request whose context is done before it starts
\* always fails: the first Discover is then over and its list is empty, as
\* snap[w] still is.
WatchOpened(w) == Goto(w, IF w \in ctxDone THEN "send" ELSE "first")

\* Mutant: the watch starts one change too late.
OpenWatch_OffByOne(w) ==
  /\ At(w, "watch")
  /\ Connected
  /\ stream' = [stream EXCEPT ![w] = "open"]
  /\ cursor' = [cursor EXCEPT ![w] = rev + 1]
  /\ WatchOpened(w)
  /\ UNCHANGED <<rev, faults, snap, ch, chClosed, ctxDone, seen, phase>>

\* client.Watch returns when etcd has confirmed the watch, which reports the
\* changes from there on, or else a channel that is closed.
OpenWatch(w) ==
  /\ At(w, "watch")
  /\ \/ /\ Connected
        /\ stream' = [stream EXCEPT ![w] = "open"]
        /\ cursor' = [cursor EXCEPT ![w] = rev]
     \/ /\ ~Connected \/ w \in ctxDone
        /\ stream' = [stream EXCEPT ![w] = "closed"]
        /\ UNCHANGED cursor
  /\ WatchOpened(w)
  /\ UNCHANGED <<rev, faults, snap, ch, chClosed, ctxDone, seen, phase>>

Fault == faults < MaxFaults /\ faults' = faults + 1

\* A request ends in an error: etcd fails, or the client or context is done.
Fails(w) == Fault \/ ((~Connected \/ w \in ctxDone) /\ UNCHANGED faults)

\* Mutant: the list was read before the watch was opened.
FirstDiscover_BeforeWatch(w) ==
  /\ At(w, "first")
  /\ \E r \in 0..cursor[w] : snap' = [snap EXCEPT ![w] = r]
  /\ Goto(w, "send")
  /\ UNCHANGED <<rev, faults, cursor, stream, ch, chClosed, ctxDone, seen, phase>>

\* The first Discover: its error is ignored, the list is then empty.
FirstDiscover(w) ==
  /\ At(w, "first")
  /\ \/ Connected /\ snap' = [snap EXCEPT ![w] = rev] /\ UNCHANGED faults
     \/ Fails(w) /\ snap' = [snap EXCEPT ![w] = 0]
  /\ Goto(w, "send")
  /\ UNCHANGED <<rev, cursor, stream, ch, chClosed, ctxDone, seen, phase>>

\* ch <- instances, or handler(serviceName, instances).
Deliver(w) ==
  /\ At(w, "send")
  /\ IF w \in Handler
     THEN /\ seen' = [seen EXCEPT ![w] = snap[w]]
          /\ Goto(w, "loop")
          /\ UNCHANGED ch
     ELSE /\ w \notin chClosed
          /\ Len(ch[w]) < Capacity
          /\ ch' = [ch EXCEPT ![w] = Append(@, snap[w])]
          /\ Goto(w, "loop")
          /\ UNCHANGED seen
  /\ UNCHANGED <<rev, faults, cursor, stream, snap, chClosed, ctxDone, phase>>

\* A send on a closed channel panics.
SendPanics(w) ==
  /\ At(w, "send")
  /\ w \in chClosed \ Handler
  /\ Goto(w, "panic")
  /\ UNCHANGED <<rev, faults, cursor, stream, snap, ch, chClosed, ctxDone, seen, phase>>

\* <-ctx.Done(): in the loop, and while a send to the channel is blocked.
Leave(w) ==
  /\ At(w, "loop") \/ (At(w, "send") /\ w \notin Handler)
  /\ w \in ctxDone
  /\ Goto(w, "end")
  /\ UNCHANGED <<rev, faults, cursor, stream, snap, ch, chClosed, ctxDone, seen, phase>>

\* Mutant: the Discover after an event does not use the watcher's context.
Event_OwnContext(w) ==
  /\ At(w, "loop")
  /\ stream[w] = "open"
  /\ \E r \in (cursor[w] + 1)..rev : cursor' = [cursor EXCEPT ![w] = r]
  /\ Goto(w, "discover")
  /\ UNCHANGED <<rev, faults, stream, snap, ch, chClosed, ctxDone, seen, phase>>

\* A response with one or more events, or the zero value of a closed watch
\* channel, which is no error either.  With its context done the Discover
\* that follows fails, and the goroutine is back in its loop.
Event(w) ==
  /\ At(w, "loop")
  /\ \/ /\ stream[w] = "open"
        /\ \E r \in (cursor[w] + 1)..rev : cursor' = [cursor EXCEPT ![w] = r]
     \/ stream[w] = "closed" /\ UNCHANGED cursor
  /\ Goto(w, IF w \in ctxDone THEN "loop" ELSE "discover")
  /\ UNCHANGED <<rev, faults, stream, snap, ch, chClosed, ctxDone, seen, phase>>

\* A response that carries an error is the last of its channel.
WatchBreaks(w) ==
  /\ At(w, "loop")
  /\ stream[w] = "open"
  /\ Fault
  /\ stream' = [stream EXCEPT ![w] = "closed"]
  /\ UNCHANGED <<rev, pc, cursor, snap, ch, chClosed, ctxDone, seen, phase>>

\* Mutant: a serializable read, which a lagging etcd member may answer.
Discover_Serializable(w) ==
  /\ At(w, "discover")
  /\ \E r \in 0..rev : snap' = [snap EXCEPT ![w] = r]
  /\ Goto(w, "send")
  /\ UNCHANGED <<rev, faults, cursor, stream, ch, chClosed, ctxDone, seen, phase>>

\* Mutant: the list of the first Discover is delivered again.
Discover_Cached(w) ==
  /\ At(w, "discover")
  /\ Goto(w, "send")
  /\ UNCHANGED <<rev, faults, cursor, stream, snap, ch, chClosed, ctxDone, seen, phase>>

\* The list is read again; after an error the event is dropped.  A context that
\* is cancelled during the request may or may not fail it.
Discover(w) ==
  /\ At(w, "discover")
  /\ \/ /\ Connected
        /\ snap' = [snap EXCEPT ![w] = rev]
        /\ Goto(w, "send")
        /\ UNCHANGED faults
     \/ Fails(w) /\ Goto(w, "loop") /\ UNCHANGED snap
  /\ UNCHANGED <<rev, cursor, stream, ch, chClosed, ctxDone, seen, phase>>

----------------------------------------------------------------------------
(* The application                                                          *)

Read(w) ==
  /\ ch[w] # <<>>
  /\ seen' = [seen EXCEPT ![w] = Head(ch[w])]
  /\ ch' = [ch EXCEPT ![w] = Tail(@)]
  /\ UNCHANGED <<rev, faults, pc, cursor, stream, snap, chClosed, ctxDone, phase>>

Cancel(w) ==
  /\ w \notin ctxDone
  /\ pc[w] # "off"
  /\ ctxDone' = ctxDone \cup {w}
  /\ UNCHANGED <<rev, faults, pc, cursor, stream, snap, ch, chClosed, seen, phase>>

\* Close closes the channels in watchers; it knows of no handler.
CloseWatchers ==
  /\ MayClose
  /\ phase = "open"
  /\ phase' = "stopping"
  /\ chClosed' = {w \in Watcher \ Handler : pc[w] # "off"}
  /\ UNCHANGED <<rev, faults, pc, cursor, stream, snap, ch, ctxDone, seen>>

\* client.Close: the watch channels are closed.
CloseClient ==
  /\ phase = "stopping"
  /\ phase' = "closed"
  /\ stream' = [w \in Watcher |-> IF stream[w] = "none" THEN "none" ELSE "closed"]
  /\ UNCHANGED <<rev, faults, pc, cursor, snap, ch, chClosed, ctxDone, seen>>

GoroutineSteps(w) ==
  OpenWatch(w) \/ FirstDiscover(w) \/ Deliver(w) \/ SendPanics(w) \/ Event(w) \/ Discover(w)

Next ==
  \/ Change
  \/ \E w \in Watcher :
       \/ GoroutineSteps(w) \/ Start(w) \/ Leave(w) \/ WatchBreaks(w)
       \/ Read(w) \/ Cancel(w)
  \/ CloseWatchers \/ CloseClient

Spec == Init /\ [][Next]_vars

\* Goroutines are scheduled, requests are answered, the application goes on
\* reading; a select in which ctx.Done() stays ready takes it at last.
Fairness ==
  /\ \A w \in Watcher : /\ WF_vars(GoroutineSteps(w))
                        /\ WF_vars(Leave(w))
                        /\ WF_vars(Read(w))
  /\ WF_vars(CloseClient)

FairSpec == Spec /\ Fairness

----------------------------------------------------------------------------
(* Properties                                                               *)

\* A watcher is attached from the time its goroutine starts until its context
\* is cancelled or the registry closes.
Attached == {w \in Watcher : pc[w] # "off" /\ w \notin ctxDone /\ phase = "open"}

\* What is on its way to the reader of w, oldest first.
OnTheWay(w) ==
  <<seen[w]>> \o ch[w] \o (IF At(w, "send") THEN <<snap[w]>> ELSE <<>>)

\* Lists arrive in the order of the changes they reflect: a reader or handler
\* is never given an older list after a newer one, although reading the list
\* and delivering it are separate steps and the channel holds several.
NeverOlder ==
  \A w \in Watcher :
    LET s == OnTheWay(w) IN \A i \in 1..(Len(s) - 1) : s[i] <= s[i + 1]

\* An event the watch has reported is reflected by a list that was read after
\* it, and a change the first list does not reflect is still to be reported:
\* the watch is opened before the list is read (lines 365-368).  A Discover
\* that fails does lose the event, hence the condition.
NothingMissed ==
  faults = 0 => \A w \in Attached : At(w, "loop") \/ At(w, "send") => snap[w] >= cursor[w]

\* The goroutine does not send on the channel that Close has closed: Close
\* lets the background tasks leave gracefully (line 261).
NoSendOnClosed == \A w \in Watcher : ~At(w, "panic")

\* Watch and Subscribe keep the promise of SnapshotFeed: lists in order, and
\* the latest list at last for a watcher that stays attached.  A failed
\* request may lose an event, and detaches everybody for good.
Feed == INSTANCE SnapshotFeed WITH attached <- IF faults = 0 THEN Attached ELSE {}

FeedKept == Feed!Spec
============================================================================
