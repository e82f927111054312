------------------------ MODULE RegistryWatch_proofs ------------------------
(***************************************************************************)
(* Theorems about RegistryWatch for any number of watchers and changes.     *)
(***************************************************************************)
EXTENDS RegistryWatch, TLAPS, SequenceTheorems

USE WatchAssumption

LEMMA RevsAreNaturals == Revs \subseteq Nat /\ \A r \in Revs : \A q \in 0..r : q \in Revs
BY DEF Revs

LEMMA TypeInit == Init => TypeOK
BY DEF Init, TypeOK, Revs, Buffers

LEMMA TypeStep == TypeOK /\ [Next]_vars => TypeOK'
<1> SUFFICES ASSUME TypeOK, [Next]_vars PROVE TypeOK'
  OBVIOUS
<1> USE DEF TypeOK, At, Goto
<1>1. CASE Change
  BY <1>1 DEF Change, Revs
<1>2. ASSUME NEW w \in Watcher, Start(w) PROVE TypeOK'
  BY <1>2 DEF Start
<1>3. ASSUME NEW w \in Watcher, OpenWatch(w) PROVE TypeOK'
  <2>1. cursor' \in [Watcher -> Revs] /\ stream' \in [Watcher -> {"none", "open", "closed"}]
    BY <1>3 DEF OpenWatch, WatchOpened
  <2> QED BY <1>3, <2>1 DEF OpenWatch, WatchOpened
<1>4. ASSUME NEW w \in Watcher, FirstDiscover(w) PROVE TypeOK'
  <2>1. faults' \in 0..MaxFaults /\ snap' \in [Watcher -> Revs]
    BY <1>4 DEF FirstDiscover, Fails, Fault, Revs
  <2> QED BY <1>4, <2>1 DEF FirstDiscover
<1>5. ASSUME NEW w \in Watcher, Discover(w) PROVE TypeOK'
  <2>1. snap' \in [Watcher -> Revs]
    BY <1>5 DEF Discover
  <2>2. faults' \in 0..MaxFaults
    BY <1>5 DEF Discover, Fails, Fault
  <2>3. pc' \in [Watcher -> {"off", "watch", "first", "send", "loop", "discover",
                            "end", "panic"}]
    BY <1>5 DEF Discover
  <2> QED BY <1>5, <2>1, <2>2, <2>3 DEF Discover
<1>6. ASSUME NEW w \in Watcher, Deliver(w) PROVE TypeOK'
  <2>1. ch' \in [Watcher -> Buffers]
    <3>1. \A q \in Buffers, r \in Revs : Append(q, r) \in Buffers
      BY DEF Buffers
    <3>2. CASE w \in Handler
      BY <1>6, <3>2 DEF Deliver
    <3>3. CASE w \notin Handler
      <4>1. ch' = [ch EXCEPT ![w] = Append(@, snap[w])]
        BY <1>6, <3>3 DEF Deliver
      <4>2. Append(ch[w], snap[w]) \in Buffers
        BY <3>1
      <4> QED BY <4>1, <4>2
    <3> QED BY <3>2, <3>3
  <2>2. seen' \in [Watcher -> Revs]
    BY <1>6 DEF Deliver
  <2>3. pc' \in [Watcher -> {"off", "watch", "first", "send", "loop", "discover",
                            "end", "panic"}]
    BY <1>6 DEF Deliver
  <2> QED BY <1>6, <2>1, <2>2, <2>3 DEF Deliver
<1>7. ASSUME NEW w \in Watcher, SendPanics(w) \/ Leave(w) \/ Cancel(w) PROVE TypeOK'
  BY <1>7 DEF SendPanics, Leave, Cancel
<1>8. ASSUME NEW w \in Watcher, WatchBreaks(w) PROVE TypeOK'
  BY <1>8 DEF WatchBreaks, Fault
<1>9. ASSUME NEW w \in Watcher, Event(w) PROVE TypeOK'
  <2>1. \A r \in (cursor[w] + 1)..rev : r \in Revs
    <3>1. rev \in Nat /\ cursor[w] \in Nat
      BY RevsAreNaturals
    <3>2. \A r \in (cursor[w] + 1)..rev : r \in 0..rev
      BY <3>1
    <3> QED BY <3>2, RevsAreNaturals
  <2>2. cursor' \in [Watcher -> Revs]
    <3>1. CASE UNCHANGED cursor
      BY <3>1
    <3>2. CASE \E r \in (cursor[w] + 1)..rev : cursor' = [cursor EXCEPT ![w] = r]
      <4>1. PICK r \in (cursor[w] + 1)..rev : cursor' = [cursor EXCEPT ![w] = r]
        BY <3>2
      <4>2. r \in Revs
        BY <2>1
      <4> QED BY <4>1, <4>2
    <3> QED BY <1>9, <3>1, <3>2 DEF Event
  <2> QED BY <1>9, <2>2 DEF Event
<1>10. ASSUME NEW w \in Watcher, Read(w) PROVE TypeOK'
  BY <1>10 DEF Read, Buffers
<1>11. CASE CloseWatchers \/ CloseClient
  BY <1>11 DEF CloseWatchers, CloseClient
<1>12. CASE UNCHANGED vars
  BY <1>12 DEF vars
<1> QED
  BY <1>1, <1>2, <1>3, <1>4, <1>5, <1>6, <1>7, <1>8, <1>9, <1>10, <1>11, <1>12
     DEF Next, GoroutineSteps

\* Every variable keeps its type, for any number of watchers.
THEOREM WatchTypeCorrect == Spec => []TypeOK
BY TypeInit, TypeStep, PTL DEF Spec

----------------------------------------------------------------------------

\* A watch reports only changes that have happened.
CursorBehind == \A w \in Watcher : cursor[w] <= rev

LEMMA BehindStep == TypeOK /\ CursorBehind /\ [Next]_vars => CursorBehind'
<1> SUFFICES ASSUME TypeOK, CursorBehind, [Next]_vars PROVE CursorBehind'
  OBVIOUS
<1> USE RevsAreNaturals DEF TypeOK, CursorBehind
<1>1. CASE Change
  <2>1. \A w \in Watcher : cursor[w] \in Nat /\ rev \in Nat
    OBVIOUS
  <2>2. rev' = rev + 1 /\ cursor' = cursor
    BY <1>1 DEF Change
  <2> QED BY <2>1, <2>2
<1>2. ASSUME NEW w \in Watcher, OpenWatch(w) PROVE CursorBehind'
  BY <1>2 DEF OpenWatch, WatchOpened
<1>3. ASSUME NEW w \in Watcher, Event(w) PROVE CursorBehind'
  <2>1. rev' = rev
    BY <1>3 DEF Event
  <2>2. CASE UNCHANGED cursor
    BY <2>1, <2>2
  <2>3. CASE \E r \in (cursor[w] + 1)..rev : cursor' = [cursor EXCEPT ![w] = r]
    <3>1. PICK r \in (cursor[w] + 1)..rev : cursor' = [cursor EXCEPT ![w] = r]
      BY <2>3
    <3>2. r <= rev
      OBVIOUS
    <3> QED BY <2>1, <3>1, <3>2
  <2> QED BY <1>3, <2>2, <2>3 DEF Event
<1>4. CASE UNCHANGED <<rev, cursor>>
  BY <1>4
<1>5. ASSUME ~(UNCHANGED <<rev, cursor>>)
      PROVE  Change \/ \E w \in Watcher : OpenWatch(w) \/ Event(w)
  BY <1>5 DEF Next, GoroutineSteps, vars, Start, FirstDiscover, Discover, Deliver,
     SendPanics, Leave, Cancel, WatchBreaks, Read, CloseWatchers, CloseClient
<1> QED BY <1>1, <1>2, <1>3, <1>4, <1>5

LEMMA MissedStep ==
  TypeOK /\ CursorBehind /\ NothingMissed /\ [Next]_vars => NothingMissed'
<1> SUFFICES ASSUME TypeOK, CursorBehind, NothingMissed, [Next]_vars, faults' = 0,
                    NEW v \in Watcher, v \in Attached', (At(v, "loop") \/ At(v, "send"))'
             PROVE  snap'[v] >= cursor'[v]
  BY DEF NothingMissed, Attached
<1> USE RevsAreNaturals DEF TypeOK, CursorBehind, NothingMissed, At, Goto, Attached
<1>1. CASE Change
  BY <1>1 DEF Change
<1>2. ASSUME NEW w \in Watcher, Start(w) \/ OpenWatch(w) PROVE snap'[v] >= cursor'[v]
  BY <1>2 DEF Start, OpenWatch, WatchOpened
<1>3. ASSUME NEW w \in Watcher, FirstDiscover(w) \/ Discover(w) PROVE snap'[v] >= cursor'[v]
  <2>1. UNCHANGED <<rev, cursor, ctxDone, phase>> /\ faults \in Nat
    BY <1>3 DEF FirstDiscover, Discover
  <2>2. CASE v = w
    BY <1>3, <2>1, <2>2 DEF FirstDiscover, Discover, Fails, Fault, Connected
  <2>3. CASE v # w
    <3>1. snap'[v] = snap[v] /\ pc'[v] = pc[v] /\ faults = 0
      BY <1>3, <2>1, <2>3 DEF FirstDiscover, Discover, Fails, Fault
    <3> QED BY <2>1, <3>1
  <2> QED BY <2>2, <2>3
<1>4. ASSUME NEW w \in Watcher, Deliver(w) PROVE snap'[v] >= cursor'[v]
  BY <1>4 DEF Deliver
<1>5. ASSUME NEW w \in Watcher, Read(w) \/ Cancel(w) PROVE snap'[v] >= cursor'[v]
  BY <1>5 DEF Read, Cancel
<1>6. ASSUME NEW w \in Watcher, SendPanics(w) \/ Leave(w) PROVE snap'[v] >= cursor'[v]
  BY <1>6 DEF SendPanics, Leave
<1>7. ASSUME NEW w \in Watcher, WatchBreaks(w) PROVE snap'[v] >= cursor'[v]
  BY <1>7 DEF WatchBreaks, Fault
<1>8. ASSUME NEW w \in Watcher, Event(w) PROVE snap'[v] >= cursor'[v]
  <2>1. v # w /\ cursor'[v] = cursor[v] /\ pc'[v] = pc[v]
    BY <1>8 DEF Event
  <2> QED BY <1>8, <2>1 DEF Event
<1>9. CASE CloseWatchers \/ CloseClient
  BY <1>9, phase' # "open" DEF CloseWatchers, CloseClient
<1>10. CASE UNCHANGED vars
  BY <1>10 DEF vars
<1> QED
  BY <1>1, <1>2, <1>3, <1>4, <1>5, <1>6, <1>7, <1>8, <1>9, <1>10 DEF Next, GoroutineSteps

\* As long as no request failed, an attached watcher has read its list no
\* earlier than the last change its watch has reported.
THEOREM NothingIsMissed == Spec => []NothingMissed
<1>1. Init => CursorBehind /\ NothingMissed
  BY DEF Init, CursorBehind, NothingMissed, At, Attached
<1> QED BY <1>1, TypeInit, TypeStep, BehindStep, MissedStep, PTL DEF Spec

----------------------------------------------------------------------------
(* The order of the lists                                                   *)

\* A sequence of lists from one that is not older than lo to one not newer than hi.
Between(q, lo, hi) ==
  /\ lo <= hi
  /\ \A i \in DOMAIN q : /\ lo <= q[i] /\ q[i] <= hi
                         /\ \A j \in DOMAIN q : i < j => q[i] <= q[j]

\* What the reader has, what is in the channel, what was read last and what
\* there is, in this order; nothing of it before the first list was read.
InOrder(w) ==
  /\ snap[w] <= rev
  /\ Between(ch[w], seen[w], snap[w])
  /\ w \in Handler => ch[w] = <<>>
  /\ pc[w] \in {"off", "watch", "first"} => snap[w] = 0 /\ ch[w] = <<>>

Ordered == \A w \in Watcher : InOrder(w)

LEMMA BufferType ==
  ASSUME NEW q \in Buffers
  PROVE  q \in Seq(Nat) /\ Len(q) \in Nat /\ DOMAIN q = 1 .. Len(q) /\ \A i \in DOMAIN q : q[i] \in Nat
<1>1. q \in Seq(Revs)
  BY DEF Buffers
<1>2. Len(q) \in Nat /\ DOMAIN q = 1 .. Len(q) /\ \A i \in DOMAIN q : q[i] \in Revs
  BY <1>1
<1>3. \A i \in DOMAIN q : q[i] \in Nat
  BY <1>2, RevsAreNaturals
<1>4. q \in [1 .. Len(q) -> Nat]
  BY <1>1, <1>2, <1>3, LenProperties
<1> QED BY <1>2, <1>3, <1>4, SeqDef

\* A channel that is given a newer list, or that has one taken out.
LEMMA ChannelOrder ==
  ASSUME NEW q \in Buffers, NEW lo \in Revs, NEW hi \in Revs, Between(q, lo, hi)
  PROVE  /\ \A r \in Revs : hi <= r => Between(q, lo, r)
         /\ Between(Append(q, hi), lo, hi)
         /\ q # <<>> => /\ Head(q) \in Revs /\ lo <= Head(q) /\ Head(q) <= hi
                        /\ Between(Tail(q), Head(q), hi)
         /\ q = <<>> => Between(q, hi, hi)
<1> USE DEF Between
<1>0. lo \in Nat /\ hi \in Nat /\ q \in Seq(Nat) /\ Len(q) \in Nat /\ DOMAIN q = 1 .. Len(q)
      /\ \A i \in DOMAIN q : q[i] \in Nat
  BY BufferType, RevsAreNaturals
<1>1. \A r \in Revs : hi <= r => Between(q, lo, r)
  BY <1>0, RevsAreNaturals
<1>2. Between(Append(q, hi), lo, hi)
  <2> DEFINE t == Append(q, hi)
  <2>1. DOMAIN t = 1 .. Len(q) + 1 /\ t[Len(q) + 1] = hi /\ \A i \in DOMAIN q : t[i] = q[i]
    BY <1>0, AppendProperties
  <2> HIDE DEF t
  <2>2. ASSUME NEW i \in DOMAIN t
        PROVE  lo <= t[i] /\ t[i] <= hi /\ \A j \in DOMAIN t : i < j => t[i] <= t[j]
    <3>1. CASE i = Len(q) + 1
      BY <1>0, <2>1, <3>1
    <3>2. CASE i \in DOMAIN q
      <4>1. t[i] = q[i] /\ lo <= q[i] /\ q[i] <= hi
        BY <2>1, <3>2
      <4>2. ASSUME NEW j \in DOMAIN t, i < j PROVE t[i] <= t[j]
        <5>1. CASE j = Len(q) + 1
          BY <2>1, <4>1, <5>1
        <5>2. CASE j \in DOMAIN q
          BY <2>1, <3>2, <4>1, <4>2, <5>2
        <5> QED BY <1>0, <2>1, <5>1, <5>2
      <4> QED BY <4>1, <4>2
    <3> QED BY <1>0, <2>1, <3>1, <3>2
  <2> QED BY <2>2 DEF t
<1>3. ASSUME q # <<>>
      PROVE  Head(q) \in Revs /\ lo <= Head(q) /\ Head(q) <= hi /\ Between(Tail(q), Head(q), hi)
  <2>1. Head(q) = q[1] /\ 1 \in DOMAIN q /\ q[1] \in Revs
    BY <1>0, <1>3, EmptySeq DEF Buffers
  <2>2. DOMAIN Tail(q) = 1 .. Len(q) - 1 /\ \A i \in 1 .. Len(q) - 1 : Tail(q)[i] = q[i + 1]
    BY <1>0, <1>3, HeadTailProperties
  <2>3. \A i \in 1 .. Len(q) - 1 : i + 1 \in DOMAIN q /\ 1 < i + 1
    BY <1>0
  <2>4. ASSUME NEW i \in DOMAIN Tail(q)
        PROVE  /\ q[1] <= Tail(q)[i] /\ Tail(q)[i] <= hi
               /\ \A j \in DOMAIN Tail(q) : i < j => Tail(q)[i] <= Tail(q)[j]
    <3>1. i \in 1 .. Len(q) - 1 /\ Tail(q)[i] = q[i + 1] /\ i + 1 \in DOMAIN q /\ 1 < i + 1
      BY <2>2, <2>3
    <3>2. ASSUME NEW j \in DOMAIN Tail(q), i < j PROVE Tail(q)[i] <= Tail(q)[j]
      <4>1. Tail(q)[j] = q[j + 1] /\ j + 1 \in DOMAIN q /\ i + 1 < j + 1
        BY <2>2, <2>3, <3>1, <3>2
      <4> QED BY <3>1, <4>1
    <3> QED BY <2>1, <3>1, <3>2
  <2> QED BY <2>1, <2>4
<1>4. q = <<>> => Between(q, hi, hi)
  BY <1>0
<1> QED BY <1>1, <1>2, <1>3, <1>4

LEMMA OrderedInit == Init => Ordered
BY DEF Init, Ordered, InOrder, Between

LEMMA OrderedStep == TypeOK /\ Ordered /\ [Next]_vars => Ordered'
<1> SUFFICES ASSUME TypeOK, Ordered, [Next]_vars, NEW v \in Watcher
             PROVE  InOrder(v)'
  BY DEF Ordered
<1>0. /\ snap[v] <= rev
      /\ Between(ch[v], seen[v], snap[v])
      /\ v \in Handler => ch[v] = <<>>
      /\ pc[v] \in {"off", "watch", "first"} => snap[v] = 0 /\ ch[v] = <<>>
      /\ snap[v] \in Revs /\ seen[v] \in Revs /\ rev \in Revs /\ ch[v] \in Buffers
      /\ Revs \subseteq Nat
  BY RevsAreNaturals DEF Ordered, InOrder, TypeOK
<1>1. ASSUME UNCHANGED <<ch, seen, snap>>, rev' \in {rev, rev + 1},
             pc'[v] \in {"off", "watch", "first"} => pc[v] \in {"off", "watch", "first"}
      PROVE  InOrder(v)'
  <2>1. ch'[v] = ch[v] /\ seen'[v] = seen[v] /\ snap'[v] = snap[v]
    BY <1>1
  <2>2. snap[v] <= rev'
    <3>1. snap[v] \in Nat /\ rev \in Nat
      BY <1>0
    <3> QED BY <1>0, <1>1, <3>1
  <2> QED BY <1>0, <1>1, <2>1, <2>2 DEF InOrder
<1>2. CASE Change \/ UNCHANGED vars \/ CloseWatchers \/ CloseClient
  <2>1. UNCHANGED <<ch, seen, snap, pc>> /\ rev' \in {rev, rev + 1}
    BY <1>2 DEF Change, vars, CloseWatchers, CloseClient
  <2> QED BY <1>1, <2>1
<1>3. ASSUME NEW w \in Watcher,
             Start(w) \/ OpenWatch(w) \/ SendPanics(w) \/ Leave(w) \/ Event(w) \/ WatchBreaks(w) \/ Cancel(w)
      PROVE  InOrder(v)'
  <2>1. UNCHANGED <<ch, seen, snap, rev>>
    BY <1>3 DEF Start, OpenWatch, SendPanics, Leave, Event, WatchBreaks, Cancel
  <2>2. pc'[v] \in {"off", "watch", "first"} => pc[v] \in {"off", "watch", "first"}
    BY <1>3 DEF Start, OpenWatch, WatchOpened, SendPanics, Leave, Event, WatchBreaks, Cancel,
                Goto, At, TypeOK
  <2> QED BY <1>1, <2>1, <2>2
<1>4. ASSUME NEW w \in Watcher, FirstDiscover(w) PROVE InOrder(v)'
  <2>1. UNCHANGED <<rev, ch, seen>> /\ pc[w] = "first" /\ pc' = [pc EXCEPT ![w] = "send"]
        /\ \E r \in {0, rev} : snap' = [snap EXCEPT ![w] = r]
    BY <1>4 DEF FirstDiscover, At, Goto
  <2>2. CASE v = w
    <3>1. snap'[v] \in {0, rev} /\ pc'[v] = "send" /\ snap[v] = 0
      BY <1>0, <2>1, <2>2 DEF TypeOK
    <3>2. snap'[v] \in Revs /\ snap[v] <= snap'[v] /\ snap'[v] <= rev
      BY <1>0, <3>1
    <3>3. Between(ch[v], seen[v], snap'[v])
      BY <1>0, <3>2, ChannelOrder
    <3> QED BY <1>0, <2>1, <3>1, <3>2, <3>3 DEF InOrder
  <2>3. CASE v # w
    BY <1>0, <2>1, <2>3 DEF TypeOK, InOrder
  <2> QED BY <2>2, <2>3
<1>5. ASSUME NEW w \in Watcher, Discover(w) PROVE InOrder(v)'
  <2>1. UNCHANGED <<rev, ch, seen>> /\ pc'[w] \in {"send", "loop"}
        /\ (v # w => pc'[v] = pc[v])
        /\ (snap' = snap \/ snap' = [snap EXCEPT ![w] = rev])
    BY <1>5 DEF Discover, At, Goto, TypeOK
  <2>2. snap'[v] \in {snap[v], rev} /\ (v # w => snap'[v] = snap[v])
    BY <2>1 DEF TypeOK
  <2>3. snap'[v] \in Revs /\ snap[v] <= snap'[v] /\ snap'[v] <= rev
    BY <1>0, <2>2
  <2>4. Between(ch[v], seen[v], snap'[v])
    BY <1>0, <2>3, ChannelOrder
  <2> QED BY <1>0, <2>1, <2>2, <2>3, <2>4 DEF InOrder
<1>6. ASSUME NEW w \in Watcher, Deliver(w) PROVE InOrder(v)'
  <2>1. UNCHANGED <<rev, snap>> /\ pc[w] = "send" /\ pc' = [pc EXCEPT ![w] = "loop"]
    BY <1>6 DEF Deliver, At, Goto
  <2>2. CASE v # w
    <3>1. ch'[v] = ch[v] /\ seen'[v] = seen[v] /\ pc'[v] = pc[v]
      BY <1>6, <2>1, <2>2 DEF Deliver, TypeOK
    <3> QED BY <1>0, <2>1, <3>1 DEF InOrder
  <2>3. CASE v = w /\ w \in Handler
    <3>1. ch'[v] = ch[v] /\ seen'[v] = snap[v] /\ pc'[v] = "loop"
      BY <1>6, <2>1, <2>3 DEF Deliver, TypeOK
    <3>2. Between(ch'[v], seen'[v], snap[v])
      BY <1>0, <2>3, <3>1, ChannelOrder
    <3> QED BY <1>0, <2>1, <2>3, <3>1, <3>2 DEF InOrder
  <2>4. CASE v = w /\ w \notin Handler
    <3>1. ch'[v] = Append(ch[v], snap[v]) /\ seen'[v] = seen[v] /\ pc'[v] = "loop"
      BY <1>6, <2>1, <2>4 DEF Deliver, TypeOK
    <3>2. Between(Append(ch[v], snap[v]), seen[v], snap[v])
      BY <1>0, ChannelOrder
    <3>3. Between(ch'[v], seen'[v], snap[v])
      BY <3>1, <3>2
    <3> QED BY <1>0, <2>1, <2>4, <3>1, <3>3 DEF InOrder
  <2> QED BY <2>2, <2>3, <2>4
<1>7. ASSUME NEW w \in Watcher, Read(w) PROVE InOrder(v)'
  <2>1. UNCHANGED <<rev, snap, pc>> /\ ch[w] # <<>>
    BY <1>7 DEF Read
  <2>2. CASE v # w
    <3>1. ch'[v] = ch[v] /\ seen'[v] = seen[v]
      BY <1>7, <2>2 DEF Read, TypeOK
    <3> QED BY <1>0, <2>1, <3>1 DEF InOrder
  <2>3. CASE v = w
    <3>1. ch'[v] = Tail(ch[v]) /\ seen'[v] = Head(ch[v])
      BY <1>7, <2>3 DEF Read, TypeOK
    <3>2. Between(ch'[v], seen'[v], snap[v])
      BY <1>0, <2>1, <2>3, <3>1, ChannelOrder
    <3> QED BY <1>0, <2>1, <2>3, <3>2 DEF InOrder
  <2> QED BY <2>2, <2>3
<1> QED
  BY <1>2, <1>3, <1>4, <1>5, <1>6, <1>7 DEF Next, GoroutineSteps

LEMMA OrderedIsNeverOlder == TypeOK /\ Ordered => NeverOlder
<1> SUFFICES ASSUME TypeOK, Ordered, NEW w \in Watcher, NEW i \in 1 .. Len(OnTheWay(w)) - 1
             PROVE  OnTheWay(w)[i] <= OnTheWay(w)[i + 1]
  BY DEF NeverOlder
<1> DEFINE q == ch[w]
           n == Len(q)
           last == IF At(w, "send") THEN <<snap[w]>> ELSE <<>>
           s == OnTheWay(w)
<1>1. q \in Seq(Nat) /\ seen[w] \in Nat /\ snap[w] \in Nat /\ n \in Nat /\ DOMAIN q = 1 .. n
  BY RevsAreNaturals, BufferType DEF TypeOK
<1>2. Between(q, seen[w], snap[w])
  BY DEF Ordered, InOrder
<1>3. last \in Seq(Nat) /\ Len(last) <= 1 /\ \A j \in 1 .. Len(last) : last[j] = snap[w]
  BY <1>1
<1>4. s = (<<seen[w]>> \o q) \o last
  BY DEF OnTheWay
<1> HIDE DEF last, q, s, n
<1>5. LET t == <<seen[w]>> \o q
      IN t \in Seq(Nat) /\ Len(t) = n + 1 /\ t[1] = seen[w] /\ \A j \in 1 .. n : t[j + 1] = q[j]
  BY <1>1 DEF n
<1>10. s \in Seq(Nat) /\ Len(s) = n + 1 + Len(last)
  BY <1>1, <1>3, <1>4, <1>5, ConcatProperties
<1>6. /\ Len(s) = n + 1 + Len(last) /\ s[1] = seen[w] /\ \A j \in 1 .. n : s[j + 1] = q[j]
      /\ \A j \in 1 .. Len(last) : s[n + 1 + j] = snap[w]
  <2> DEFINE t == <<seen[w]>> \o q
  <2>1. t \in Seq(Nat) /\ Len(t) = n + 1 /\ t[1] = seen[w] /\ \A j \in 1 .. n : t[j + 1] = q[j]
    BY <1>5
  <2> HIDE DEF t
  <2>2. s = t \o last
    BY <1>4 DEF t
  <2>3. \A j \in 1 .. n + 1 : s[j] = t[j]
    BY <1>1, <1>3, <2>1, <2>2, ConcatProperties
  <2>4. \A j \in 1 .. Len(last) : n + 1 + j \in 1 .. n + 1 + Len(last) /\ n + 1 + j > n + 1
                                /\ n + 1 + j - (n + 1) = j
    BY <1>1, <1>3
  <2>5. \A j \in 1 .. Len(last) : s[n + 1 + j] = last[j]
    BY <1>1, <1>3, <2>1, <2>2, <2>4, ConcatProperties
  <2>6. 1 \in 1 .. n + 1 /\ \A j \in 1 .. n : j + 1 \in 1 .. n + 1
    BY <1>1
  <2> QED BY <1>3, <1>10, <2>1, <2>3, <2>5, <2>6
<1>7. Len(last) \in Nat /\ i \in Nat /\ i <= n + Len(last) /\ i >= 1
  BY <1>1, <1>3, <1>6 DEF s
<1>8. CASE i + 1 <= n + 1
  <2>1. i \in DOMAIN q /\ s[i + 1] = q[i]
    BY <1>1, <1>6, <1>7, <1>8
  <2>2. CASE i = 1
    BY <1>2, <1>6, <2>1, <2>2 DEF Between, s
  <2>3. CASE i # 1
    <3>1. i - 1 \in DOMAIN q /\ i - 1 < i /\ (i - 1) + 1 = i
      BY <1>1, <1>7, <2>1, <2>3
    <3>2. s[i] = q[i - 1]
      BY <1>1, <1>6, <3>1
    <3> QED BY <1>2, <2>1, <3>1, <3>2 DEF Between, s
  <2> QED BY <2>2, <2>3
<1>9. CASE i + 1 = n + 2
  <2>1. s[i + 1] = snap[w] /\ i = n + 1
    BY <1>1, <1>3, <1>6, <1>7, <1>9
  <2>2. CASE n = 0
    BY <1>2, <1>6, <2>1, <2>2 DEF Between, s
  <2>3. CASE n # 0
    <3>1. n \in DOMAIN q /\ s[i] = q[n]
      BY <1>1, <1>6, <2>1, <2>3
    <3> QED BY <1>2, <2>1, <3>1 DEF Between, s
  <2> QED BY <2>2, <2>3
<1> QED BY <1>1, <1>3, <1>7, <1>8, <1>9

\* A reader or handler is never given an older list after a newer one, whatever
\* number of lists the channel holds and however reads and deliveries interleave.
THEOREM ListsArriveInOrder == Spec => []NeverOlder
BY OrderedIsNeverOlder, TypeInit, TypeStep, OrderedInit, OrderedStep, PTL DEF Spec

----------------------------------------------------------------------------
(* What the feed promises, step by step                                     *)

LEMMA FeedStep == TypeOK /\ Ordered /\ [Next]_vars => [Feed!Next]_(Feed!feedVars)
<1> DEFINE attached == IF faults = 0 THEN Attached ELSE {}
<1> SUFFICES ASSUME TypeOK, Ordered, [Next]_vars
             PROVE  Feed!Next \/ UNCHANGED <<rev, seen, attached>>
  BY DEF Feed!feedVars
<1>0. faults \in Nat /\ faults' \in Nat
  <2>1. TypeOK'
    BY TypeStep
  <2> QED BY <2>1 DEF TypeOK
<1>1. ASSUME UNCHANGED <<rev, seen>>, \E ws \in SUBSET Watcher : attached' = attached \ ws
      PROVE  Feed!Next
  BY <1>1 DEF Feed!Next, Feed!Detach
<1>2. ASSUME UNCHANGED <<rev, seen, ctxDone, phase>>, faults' \in {faults, faults + 1},
             \A v \in Watcher : pc'[v] # "off" <=> pc[v] # "off"
      PROVE  Feed!Next
  <2>1. Attached' = Attached
    BY <1>2 DEF Attached
  <2>2. attached' = attached \ {} \/ attached' = attached \ Watcher
    <3>1. Attached \subseteq Watcher
      BY DEF Attached
    <3> QED BY <1>0, <1>2, <2>1, <3>1
  <2> QED BY <1>1, <1>2, <2>2
<1>3. CASE Change
  BY <1>3 DEF Change, Attached, Feed!Next, Feed!Change
<1>4. CASE UNCHANGED vars
  BY <1>4 DEF vars, Attached
<1>5. ASSUME NEW w \in Watcher, Start(w)
      PROVE  Feed!Next \/ UNCHANGED <<rev, seen, attached>>
  <2>1. UNCHANGED <<rev, seen, faults, ctxDone, phase>>
        /\ \A v \in Watcher : pc'[v] # "off" <=> (pc[v] # "off" \/ v = w)
    BY <1>5 DEF Start, At, Goto, TypeOK
  <2>2. Attached' = Attached \cup {w} \/ Attached' = Attached
    BY <2>1 DEF Attached
  <2>3. attached' = attached \cup {w} \/ attached' = attached
    BY <2>1, <2>2
  <2> QED BY <2>1, <2>3 DEF Feed!Next, Feed!Attach
<1>6. ASSUME NEW w \in Watcher,
             \/ OpenWatch(w) \/ SendPanics(w) \/ Leave(w) \/ Event(w) \/ WatchBreaks(w)
             \/ FirstDiscover(w) \/ Discover(w)
      PROVE  Feed!Next
  <2>1. UNCHANGED <<rev, seen, ctxDone, phase>> /\ faults' \in {faults, faults + 1}
    BY <1>6 DEF OpenWatch, SendPanics, Leave, Event, WatchBreaks, FirstDiscover, Discover, Fails, Fault
  <2>2. \A v \in Watcher : pc'[v] # "off" <=> pc[v] # "off"
    BY <1>6 DEF OpenWatch, WatchOpened, SendPanics, Leave, Event, WatchBreaks, FirstDiscover,
                Discover, At, Goto, TypeOK
  <2> QED BY <1>2, <2>1, <2>2
<1>7. ASSUME NEW w \in Watcher, Cancel(w) PROVE Feed!Next
  <2>1. UNCHANGED <<rev, seen>> /\ attached' = attached \ {w}
    BY <1>7 DEF Cancel, Attached
  <2> QED BY <1>1, <2>1
<1>8. CASE CloseWatchers \/ CloseClient
  <2>1. UNCHANGED <<rev, seen>> /\ attached' = attached \ Watcher
    BY <1>8 DEF CloseWatchers, CloseClient, Attached
  <2> QED BY <1>1, <2>1
<1>9. ASSUME NEW w \in Watcher, Deliver(w) \/ Read(w), seen' # seen
      PROVE  Feed!Next
  <2>1. UNCHANGED <<rev, faults, ctxDone, phase>> /\ \A v \in Watcher : pc'[v] # "off" <=> pc[v] # "off"
    BY <1>9 DEF Deliver, Read, At, Goto, TypeOK
  <2>2. attached' = attached
    BY <2>1 DEF Attached
  <2>3. PICK r \in Revs : seen' = [seen EXCEPT ![w] = r] /\ seen[w] <= r /\ r <= snap[w]
    <3>1. /\ ch[w] \in Buffers /\ seen[w] \in Revs /\ snap[w] \in Revs
          /\ Between(ch[w], seen[w], snap[w])
      BY DEF TypeOK, Ordered, InOrder
    <3>2. CASE Deliver(w)
      <4>1. seen' = [seen EXCEPT ![w] = snap[w]]
        BY <1>9, <3>2 DEF Deliver
      <4>2. seen[w] <= snap[w] /\ snap[w] <= snap[w]
        <5>1. snap[w] \in Nat
          BY <3>1, RevsAreNaturals
        <5> QED BY <3>1, <5>1 DEF Between
      <4> QED BY <3>1, <4>1, <4>2
    <3>3. CASE Read(w)
      BY <3>1, <3>3, ChannelOrder DEF Read
    <3> QED BY <1>9, <3>2, <3>3
  <2>4. r \in seen[w] .. rev
    <3>1. seen[w] \in Nat /\ r \in Nat /\ snap[w] \in Nat /\ rev \in Nat /\ snap[w] <= rev
      BY RevsAreNaturals DEF TypeOK, Ordered, InOrder
    <3> QED BY <2>3, <3>1
  <2> QED BY <2>1, <2>2, <2>3, <2>4 DEF Feed!Next, Feed!Give
<1>10. ASSUME NEW w \in Watcher, Deliver(w) \/ Read(w), seen' = seen
       PROVE  Feed!Next
  <2>1. UNCHANGED <<rev, seen, faults, ctxDone, phase>>
        /\ \A v \in Watcher : pc'[v] # "off" <=> pc[v] # "off"
    BY <1>10 DEF Deliver, Read, At, Goto, TypeOK
  <2> QED BY <1>2, <2>1
<1> HIDE DEF attached
<1> QED
  BY <1>3, <1>4, <1>5, <1>6, <1>7, <1>8, <1>9, <1>10 DEF Next, GoroutineSteps

\* Every step of Watch and Subscribe is one of the feed they promise, or none:
\* the safety part of FeedKept.
THEOREM FeedIsKept == Spec => Feed!Init /\ [][Feed!Next]_(Feed!feedVars)
<1>1. Init => Feed!Init
  BY DEF Init, Feed!Init, Attached
<1> QED BY <1>1, TypeInit, TypeStep, OrderedInit, OrderedStep, FeedStep, PTL DEF Spec
=============================================================================
