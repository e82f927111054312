---------------------------- MODULE AtLeastOnce ----------------------------
(***************************************************************************)
(* What Subscribe of mq.Consumer promises (mq/consumer.go 29-31, 37-41):     *)
(* the handler is used for every message.  A message is settled when the     *)
(* broker will not deliver it any more, and only then may it be forgotten:   *)
(* it has been given to the handler before.                                  *)
(***************************************************************************)
CONSTANT Msg

VARIABLES
  log,         \* the messages of the broker
  given,       \* those the handler was called with
  settled,     \* those that will not be delivered again
  entitled     \* those, stored or to come, that a subscription is to be given

vars == <<log, given, settled, entitled>>

Init ==
  /\ log \subseteq Msg
  /\ given = {}
  /\ settled = {}
  /\ entitled \subseteq Msg

Send(m) ==
  /\ log' = log \cup {m}
  /\ UNCHANGED <<given, settled, entitled>>

\* A message is given, for the first time or again, even to a handler whose
\* subscription has just ended; what is given may be settled with it.
Give(m) ==
  /\ m \in log
  /\ given' = given \cup {m}
  /\ settled \subseteq settled' /\ settled' \subseteq given'
  /\ entitled' \in {entitled, entitled \ {m}}
  /\ UNCHANGED log

\* Subscriptions begin, end and say how far they are.
Settle ==
  /\ entitled' \subseteq Msg
  /\ settled \subseteq settled' /\ settled' \subseteq given
  /\ UNCHANGED <<log, given>>

Next == \/ \E m \in Msg : Send(m) \/ Give(m)
        \/ Settle

\* While a subscription stays entitled to it, no message waits for ever.
NoneWaits == \A m \in Msg : <>[](m \in entitled /\ m \in log) => <>(m \in given)

Spec == Init /\ [][Next]_vars /\ NoneWaits
============================================================================
