---------------------------- MODULE SnapshotFeed ----------------------------
(***************************************************************************)
(* What Registry.Watch and Registry.Subscribe promise                       *)
(* (service_registry/registry/registry.go, lines 17 to 23): when a service  *)
(* changes, its watchers are given the latest list of instances.  The list  *)
(* is named by the number of changes it reflects.                           *)
(***************************************************************************)
EXTENDS Naturals

CONSTANT Watcher

VARIABLES
  rev,         \* the changes of the service so far
  seen,        \* the list each watcher was given last
  attached     \* the watchers that still want the list

feedVars == <<rev, seen, attached>>

Init == rev = 0 /\ seen = [w \in Watcher |-> 0] /\ attached = {}

Change == rev' = rev + 1 /\ UNCHANGED <<seen, attached>>

Attach(w) == attached' = attached \cup {w} /\ UNCHANGED <<rev, seen>>

Detach(ws) == attached' = attached \ ws /\ UNCHANGED <<rev, seen>>

\* Never an older list than before, never one that does not exist.
Give(w) ==
  /\ \E r \in seen[w]..rev : seen' = [seen EXCEPT ![w] = r]
  /\ UNCHANGED <<rev, attached>>

Next ==
  \/ Change
  \/ \E w \in Watcher : Attach(w) \/ Give(w)
  \/ \E ws \in SUBSET Watcher : Detach(ws)

\* A watcher that stays attached has the latest list at last.
UpToDate(w) == <>[](w \in attached) => []<>(seen[w] = rev)

Spec == Init /\ [][Next]_feedVars /\ \A w \in Watcher : UpToDate(w)
============================================================================
