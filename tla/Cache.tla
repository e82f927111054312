-------------------------------- MODULE Cache --------------------------------
(***************************************************************************)
(* What cache.Cache promises (cache/cache.go): the keys are the caller's     *)
(* own.  A method takes effect at once, when it returns a result, and at     *)
(* most once more for every try whose answer was lost.  What each method does *)
(* with the values of its keys is a parameter.                               *)
(***************************************************************************)
CONSTANTS
  Key,
  Callable(_, _),     \* the methods for a number of keys, of some types
  AllTypes,
  Args(_),            \* their arguments
  Run(_, _, _, _, _), \* a method's effect and answer
  Absent,             \* the value of a key that is not there
  ErrRedis

VARIABLES
  store,       \* the value of every key
  answer,      \* what the last method returned
  shared       \* others were given the same keys

vars == <<store, answer, shared>>

Init ==
  /\ \A k, l \in Key : store[k] = store[l]   \* what the server has kept, or Absent
  /\ answer = <<>>
  /\ shared \in BOOLEAN

KeySeqs == {<<k>> : k \in Key} \cup {ks \in Key \X Key : ks[1] # ks[2]}

\* A method of cache.Cache: it has its effect, and returns its result unless
\* that is lost, with or without another try.
Call ==
  \E keys \in KeySeqs : \E m \in Callable(keys, AllTypes) : \E x \in Args(m), ttl \in BOOLEAN :
    LET r == Run(m, store, keys, x, ttl)
    IN store' = r.store /\ answer' \in {r.ans, answer, ErrRedis}

Fail == answer' \in {<<>>, ErrRedis} /\ UNCHANGED store

Expiry ==
  /\ \E k \in Key : store[k].expires /\ store' = [store EXCEPT ![k] = Absent]
  /\ UNCHANGED answer

Others == shared /\ UNCHANGED answer

Next == (Fail \/ Expiry \/ Others \/ Call) /\ UNCHANGED shared

Spec == Init /\ [][Next]_vars
==============================================================================
