---------------------------- MODULE CacheMethods ----------------------------
(***************************************************************************)
(* The methods of cache.Cache as cache/redis/redis.go implements them: every *)
(* one is one command of the server on the value of a key (of some keys),    *)
(* and what it answers.  An operator is given the data of the key, which is  *)
(* empty if there is no key, and an argument.  Numbers are those of          *)
(* MinInt .. MaxInt, as the server's are those of 64 bits.                   *)
(***************************************************************************)
EXTENDS Integers, Sequences, FiniteSets, SequencesExt, FiniteSetsExt, Functions

CONSTANTS
  Element,       \* elements of lists, members of sets, fields of hashes
  MaxInt,        \* the largest number (a bound)
  Text,          \* a string that is not a number
  Nil,           \* no string
  ErrKeyNotFound,
  ErrRedis       \* any other error: the server's, of the way to it, or of json.Marshal

ASSUME CacheAssumption ==
  /\ MaxInt \in Nat \ {0}
  /\ {Text, Nil, ErrKeyNotFound, ErrRedis} \cap (Int \cup Element) = {}
  /\ Text # Nil

MinInt == -MaxInt - 1

Number == MinInt .. MaxInt

\* An answer is a sequence of numbers and elements, or an error.
Reply(d, ans) == [data |-> d, ans |-> ans]

Update(f, x, v) == [y \in DOMAIN f \cup {x} |-> IF y = x THEN v ELSE f[y]]

Without(f, x) == [y \in DOMAIN f \ {x} |-> f[y]]

\* Adding to a number: it must be one, and the sum too.
Add(d, n, New(_)) ==
  LET sum == IF d = Nil THEN n ELSE d + n
  IN IF d = Text THEN Reply(New(d), ErrRedis)
     ELSE IF sum \notin Number THEN Reply(New(d), ErrRedis)
     ELSE Reply(New(sum), <<sum>>)

----------------------------------------------------------------------------
(* Strings                                                                  *)

Get(d) == Reply(d, IF d = Nil THEN ErrKeyNotFound ELSE <<d>>)

IncrBy(d, n) == Add(d, n, LAMBDA s : s)

Incr(d) == IncrBy(d, 1)

DecrBy(d, n) == Add(d, -n, LAMBDA s : s)

Decr(d) == DecrBy(d, 1)

----------------------------------------------------------------------------
(* Lists                                                                    *)

LPush(d, e) == Reply(<<e>> \o d, <<Len(d) + 1>>)

RPush(d, e) == Reply(Append(d, e), <<Len(d) + 1>>)

LPop(d) == IF d = <<>> THEN Reply(d, ErrKeyNotFound) ELSE Reply(Tail(d), <<Head(d)>>)

RPop(d) == IF d = <<>> THEN Reply(d, ErrKeyNotFound) ELSE Reply(Front(d), <<Last(d)>>)

\* start and stop count from 0, negative ones from the end.
Index(d, i) == IF i < 0 THEN i + Len(d) ELSE i

LRange(d, range) ==
  Reply(d, SubSeq(d, Max({1, Index(d, range[1]) + 1}), Min({Len(d), Index(d, range[2]) + 1})))

LLen(d) == Reply(d, <<Len(d)>>)

\* count = 1: the first one from the left.
LRem(d, e) ==
  IF Contains(d, e) THEN Reply(RemoveAt(d, SelectInSeq(d, LAMBDA y : y = e)), <<1>>)
  ELSE Reply(d, <<0>>)

----------------------------------------------------------------------------
(* Sets                                                                     *)

SAdd(d, e) == Reply(d \cup {e}, <<IF e \in d THEN 0 ELSE 1>>)

SRem(d, e) == Reply(d \ {e}, <<IF e \in d THEN 1 ELSE 0>>)

\* In some order.
SMembers(d) == Reply(d, SetToSeq(d))

SIsMember(d, e) == Reply(d, <<IF e \in d THEN 1 ELSE 0>>)

SCard(d) == Reply(d, <<Cardinality(d)>>)

SUnion(ds) == SetToSeq(UNION Range(ds))

SInter(ds) == SetToSeq({e \in ds[1] : \A i \in DOMAIN ds : e \in ds[i]})

SDiff(ds) == SetToSeq(ds[1] \ UNION {ds[i] : i \in DOMAIN ds \ {1}})

----------------------------------------------------------------------------
(* Sorted sets: a score for every member                                    *)

\* Members by score; those of the same score in some order.
ByScore(d, es) == SetToSortSeq(es, LAMBDA a, b : d[a] < d[b])

ZAdd(d, e) ==  \* e: a member and its score
  Reply(Update(d, e[1], e[2]), <<IF e[1] \in DOMAIN d THEN 0 ELSE 1>>)

ZRem(d, e) == Reply(Without(d, e), <<IF e \in DOMAIN d THEN 1 ELSE 0>>)

ZRange(d, range) == Reply(d, LRange(ByScore(d, DOMAIN d), range).ans)

ZRevRange(d, range) == Reply(d, LRange(Reverse(ByScore(d, DOMAIN d)), range).ans)

ZRangeByScore(d, range) ==
  Reply(d, ByScore(d, {e \in DOMAIN d : range[1] <= d[e] /\ d[e] <= range[2]}))

ZScore(d, e) == Reply(d, IF e \in DOMAIN d THEN <<d[e]>> ELSE ErrKeyNotFound)

ZCard(d) == Reply(d, <<Cardinality(DOMAIN d)>>)

ZIncrBy(d, e) ==  \* scores are floating-point numbers: the sum is one too
  LET score == IF e[1] \in DOMAIN d THEN d[e[1]] + e[2] ELSE e[2]
  IN Reply(Update(d, e[1], score), <<score>>)

----------------------------------------------------------------------------
(* Hashes: a string for every field                                         *)

Field(d, f) == IF f \in DOMAIN d THEN d[f] ELSE Nil

HSet(d, fv) == Reply(Update(d, fv[1], fv[2]), <<>>)

HGet(d, f) == Reply(d, IF f \in DOMAIN d THEN <<d[f]>> ELSE ErrKeyNotFound)

\* Every field gets the value.
HMSet(d, v) == Reply([f \in Element |-> v], <<>>)

HMGet(d) == Reply(d, [i \in 1 .. Cardinality(Element) |-> Field(d, SetToSeq(Element)[i])])

HKeys(d) == Reply(d, SetToSeq(DOMAIN d))

HVals(d) == Reply(d, [i \in 1 .. Cardinality(DOMAIN d) |-> d[SetToSeq(DOMAIN d)[i]]])

HGetAll(d) == Reply(d, HKeys(d).ans \o HVals(d).ans)

HDel(d, f) == Reply(Without(d, f), <<IF f \in DOMAIN d THEN 1 ELSE 0>>)

HExists(d, f) == Reply(d, <<IF f \in DOMAIN d THEN 1 ELSE 0>>)

HLen(d) == Reply(d, <<Cardinality(DOMAIN d)>>)

HIncrBy(d, f) == Add(Field(d, f), 1, LAMBDA s : IF s = Nil THEN d ELSE Update(d, f, s))

----------------------------------------------------------------------------
(* A method on a server, or on any other function from keys to values       *)

Absent == [type |-> "none", data |-> Nil, expires |-> FALSE]

Methods ==
  [string |-> {"Get", "Set", "Incr", "Decr", "IncrBy", "DecrBy"},
   list |-> {"LPush", "RPush", "LPop", "RPop", "LRange", "LLen", "LRem"},
   set |-> {"SAdd", "SRem", "SMembers", "SIsMember", "SCard"},
   zset |-> {"ZAdd", "ZRem", "ZRange", "ZRevRange", "ZRangeByScore", "ZScore", "ZCard", "ZIncrBy"},
   hash |-> {"HSet", "HGet", "HMSet", "HMGet", "HGetAll", "HDel", "HExists", "HLen", "HKeys",
             "HVals", "HIncrBy"},
   ttl |-> {"Expire", "TTL"}]

\* Methods of several keys.
ManyMethods ==
  [pair |-> {"MGet", "MSet", "Delete", "Exists"}, set |-> {"SUnion", "SInter", "SDiff"}]

AllTypes == DOMAIN Methods \cup DOMAIN ManyMethods

Type(m) == CHOOSE t \in DOMAIN Methods : m \in Methods[t]

Empty == [string |-> Nil, list |-> <<>>, set |-> {}, zset |-> <<>>, hash |-> <<>>]

Args(m) ==
  CASE m \in {"Set", "MSet"} -> {0, Text}
    [] m \in {"IncrBy", "DecrBy"} -> {MaxInt}
    [] m \in {"LRange", "ZRange", "ZRevRange"} -> {<<0, 0>>, <<-2, -1>>}
    [] m = "ZRangeByScore" -> {<<0, 0>>}
    [] m \in {"ZAdd", "ZIncrBy"} -> Element \X {1}
    [] m = "HSet" -> Element \X {0, Text}
    [] m = "HMSet" -> {Text}
    [] OTHER -> Element

On(m, d, x) ==
  CASE m = "Get" -> Get(d)        [] m = "Set" -> Reply(x, <<>>)
    [] m = "Incr" -> Incr(d)      [] m = "Decr" -> Decr(d)
    [] m = "IncrBy" -> IncrBy(d, x) [] m = "DecrBy" -> DecrBy(d, x)
    [] m = "LPush" -> LPush(d, x) [] m = "RPush" -> RPush(d, x)
    [] m = "LPop" -> LPop(d)      [] m = "RPop" -> RPop(d)
    [] m = "LRange" -> LRange(d, x) [] m = "LLen" -> LLen(d) [] m = "LRem" -> LRem(d, x)
    [] m = "SAdd" -> SAdd(d, x)   [] m = "SRem" -> SRem(d, x)
    [] m = "SMembers" -> SMembers(d) [] m = "SIsMember" -> SIsMember(d, x)
    [] m = "SCard" -> SCard(d)
    [] m = "ZAdd" -> ZAdd(d, x)   [] m = "ZRem" -> ZRem(d, x)
    [] m = "ZRange" -> ZRange(d, x) [] m = "ZRevRange" -> ZRevRange(d, x)
    [] m = "ZRangeByScore" -> ZRangeByScore(d, x)
    [] m = "ZScore" -> ZScore(d, x) [] m = "ZCard" -> ZCard(d)
    [] m = "ZIncrBy" -> ZIncrBy(d, x)
    [] m = "HSet" -> HSet(d, x)   [] m = "HGet" -> HGet(d, x)
    [] m = "HMSet" -> HMSet(d, x) [] m = "HMGet" -> HMGet(d)
    [] m = "HGetAll" -> HGetAll(d) [] m = "HDel" -> HDel(d, x)
    [] m = "HExists" -> HExists(d, x) [] m = "HLen" -> HLen(d)
    [] m = "HKeys" -> HKeys(d)    [] m = "HVals" -> HVals(d)
    [] m = "HIncrBy" -> HIncrBy(d, x)

\* Set, Expire and TTL take a key of any type: v is its value.
Set(x, ttl) == [value |-> [type |-> "string", data |-> x, expires |-> ttl], ans |-> <<>>]

Expire(v) == [value |-> IF v = Absent THEN v ELSE [v EXCEPT !.expires = TRUE], ans |-> <<>>]

TTL(v) == [value |-> v, ans |-> <<IF v = Absent THEN -2 ELSE IF v.expires THEN 1 ELSE -1>>]

\* What method m does to the value v of its key: a key of another type is an
\* error, and what is empty is no key.
Apply(m, v, x, ttl) ==
  CASE m = "Set" -> Set(x, ttl)
    [] m = "Expire" -> Expire(v)
    [] m = "TTL" -> TTL(v)
    [] OTHER ->
         IF v.type \notin {"none", Type(m)} THEN [value |-> v, ans |-> ErrRedis]
         ELSE LET t == Type(m)
                  r == On(m, IF v = Absent THEN Empty[t] ELSE v.data, x)
              IN [value |-> IF r.data = Empty[t] THEN Absent
                            ELSE [type |-> t, data |-> r.data, expires |-> v.expires],
                  ans |-> r.ans]

PutAll(s, keys, v) == [k \in DOMAIN s |-> IF k \in Range(keys) THEN v ELSE s[k]]

MSet(s, keys, x) ==
  [store |-> PutAll(s, keys, [type |-> "string", data |-> x, expires |-> FALSE]), ans |-> <<>>]

Delete(s, keys) == [store |-> PutAll(s, keys, Absent), ans |-> <<>>]

MGet(s, keys) ==
  [store |-> s,
   ans |-> [i \in DOMAIN keys |-> IF s[keys[i]].type = "string" THEN s[keys[i]].data ELSE Nil]]

Exists(s, keys) ==
  [store |-> s, ans |-> <<Cardinality({i \in DOMAIN keys : s[keys[i]] # Absent})>>]

\* SUnion, SInter and SDiff, if all that is there are sets.
Combine(m, s, keys) ==
  LET sets == [i \in DOMAIN keys |-> IF s[keys[i]] = Absent THEN {} ELSE s[keys[i]].data]
  IN [store |-> s,
      ans |-> IF \E i \in DOMAIN keys : s[keys[i]].type \notin {"none", "set"} THEN ErrRedis
              ELSE CASE m = "SUnion" -> SUnion(sets)
                     [] m = "SInter" -> SInter(sets)
                     [] m = "SDiff" -> SDiff(sets)]

ApplyMany(m, s, keys, x) ==
  CASE m = "MSet" -> MSet(s, keys, x)
    [] m = "Delete" -> Delete(s, keys)
    [] m = "MGet" -> MGet(s, keys)
    [] m = "Exists" -> Exists(s, keys)
    [] m \in ManyMethods.set -> Combine(m, s, keys)

\* The methods for some keys that an application which uses those types calls.
Callable(keys, types) ==
  LET table == IF Len(keys) = 1 THEN Methods ELSE ManyMethods
  IN UNION {table[t] : t \in types \cap DOMAIN table}

Run(m, s, keys, x, ttl) ==
  IF Len(keys) = 1
  THEN LET r == Apply(m, s[keys[1]], x, ttl)
       IN [store |-> [s EXCEPT ![keys[1]] = r.value], ans |-> r.ans]
  ELSE ApplyMany(m, s, keys, x)
=============================================================================
