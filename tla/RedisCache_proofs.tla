-------------------------- MODULE RedisCache_proofs --------------------------
(***************************************************************************)
(* A cache whose prefix overlaps no other one's is a cache of its own, for   *)
(* any number of caches, keys and lost answers: RedisCache implements the    *)
(* safety part, which is all there is, of Cache.  What makes it true is      *)
(* where a call can be (CallsAreOn): every full key is one of a config that  *)
(* the cache was given, so no other cache's command names a key of Home's.   *)
(***************************************************************************)
EXTENDS RedisCache, TLAPS

(***************************************************************************)
(* Keys                                                                     *)

LEMMA Concat ==
  ASSUME NEW a \in Seq(Char), NEW b \in Seq(Char), NEW c, c = a \o b
  PROVE  /\ c \in Seq(Char) /\ Len(c) = Len(a) + Len(b)
         /\ Len(a) \in Nat /\ Len(b) \in Nat
         /\ \A j \in 1 .. Len(a) : c[j] = a[j]
         /\ \A j \in 1 .. Len(b) : c[Len(a) + j] = b[j]
OBVIOUS

LEMMA SameSeq ==
  ASSUME NEW a \in Seq(Char), NEW b \in Seq(Char), Len(a) = Len(b),
         \A j \in 1 .. Len(a) : a[j] = b[j]
  PROVE  a = b
OBVIOUS

\* What has both as beginnings makes the shorter one a beginning of the other.
LEMMA Shorter ==
  ASSUME NEW a \in Seq(Char), NEW b \in Seq(Char), NEW x \in Seq(Char), NEW y \in Seq(Char),
         a \o x = b \o y, Len(a) <= Len(b)
  PROVE  IsPrefix(a, b)
<1> DEFINE c == a \o x
<1>1. c = a \o x /\ c = b \o y
  OBVIOUS
<1> HIDE DEF c
<1>2. \A j \in 1 .. Len(a) : c[j] = a[j]
  BY <1>1, Concat
<1>3. \A j \in 1 .. Len(b) : c[j] = b[j]
  BY <1>1, Concat
<1>4. Len(a) \in Nat /\ Len(b) \in Nat /\ \A j \in 1 .. Len(a) : j \in 1 .. Len(b)
  OBVIOUS
<1>5. \A j \in 1 .. Len(a) : a[j] = b[j]
  BY <1>2, <1>3, <1>4
<1> DEFINE p == SubSeq(b, 1, Len(a))
           q == SubSeq(a, 1, Len(a))
<1>6. /\ p \in Seq(Char) /\ Len(p) = Len(a) /\ \A j \in 1 .. Len(a) : p[j] = b[j]
      /\ q \in Seq(Char) /\ Len(q) = Len(a) /\ \A j \in 1 .. Len(a) : q[j] = a[j]
  BY <1>4
<1> HIDE DEF p, q
<1>7. p = q
  BY <1>5, <1>6, SameSeq
<1> QED BY <1>7 DEF p, q, IsPrefix

LEMMA Injective ==
  ASSUME NEW a \in Seq(Char), NEW x \in Seq(Char), NEW y \in Seq(Char), a \o x = a \o y
  PROVE  x = y
<1> DEFINE c == a \o x
<1>1. c = a \o x /\ c = a \o y
  OBVIOUS
<1> HIDE DEF c
<1>2. Len(c) = Len(a) + Len(x) /\ Len(c) = Len(a) + Len(y)
      /\ Len(a) \in Nat /\ Len(x) \in Nat /\ Len(y) \in Nat
  BY <1>1, Concat
<1>3. Len(x) = Len(y)
  BY <1>2
<1>4. \A j \in 1 .. Len(x) : c[Len(a) + j] = x[j]
  BY <1>1, Concat
<1>5. \A j \in 1 .. Len(y) : c[Len(a) + j] = y[j]
  BY <1>1, Concat
<1> QED BY <1>3, <1>4, <1>5, SameSeq

LEMMA ReachIs ==
  ASSUME NEW r \in Reaches
  PROVE  /\ \A c \in Client : \A cfg \in r[c] :
               cfg \in Configs /\ cfg.prefix \in Seq(Char) /\ cfg.ttl \in BOOLEAN
         /\ r[Home] = {HomeConfig} /\ Home \in Client
         /\ HomeConfig \in Configs /\ HomeConfig.prefix \in Seq(Char)
BY RedisAssumption DEF Configs

LEMMA KeyIs ==
  ASSUME NEW r \in Reaches, NEW c \in Client, NEW cfg \in r[c], NEW k \in Key
  PROVE  BuildKey(cfg, k) \in FullKey
BY ReachIs DEF FullKey, KeysUnder

LEMMA HomeKeyIs ==
  ASSUME NEW r \in Reaches, NEW k \in Key
  PROVE  HomeKey(k) \in FullKey
BY ReachIs, KeyIs DEF HomeKey

LEMMA HomeKeysDiffer ==
  ASSUME NEW r \in Reaches, NEW k \in Key, NEW l \in Key, HomeKey(k) = HomeKey(l)
  PROVE  k = l
<1>1. k \in Seq(Char) /\ l \in Seq(Char) /\ HomeConfig.prefix \in Seq(Char)
  BY RedisAssumption, ReachIs
<1> QED BY <1>1, Injective DEF HomeKey, BuildKey

\* A key of two configs: one prefix is the beginning of the other.
LEMMA Apart ==
  ASSUME NEW r \in Reaches, NEW c \in Client, NEW cfg \in r[c], NEW k \in Key, NEW l \in Key,
         BuildKey(cfg, k) = HomeKey(l)
  PROVE  Overlap(cfg, HomeConfig)
<1> DEFINE a == cfg.prefix
           b == HomeConfig.prefix
<1>1. /\ a \in Seq(Char) /\ b \in Seq(Char) /\ k \in Seq(Char) /\ l \in Seq(Char)
  BY RedisAssumption, ReachIs
<1>2. a \o k = b \o l
  BY DEF HomeKey, BuildKey
<1>3. Overlap(cfg, HomeConfig) <=> IsPrefix(a, b) \/ IsPrefix(b, a)
  BY DEF Overlap
<1> HIDE DEF a, b
<1>4. Len(a) \in Nat /\ Len(b) \in Nat
  BY <1>1
<1>5. CASE Len(a) <= Len(b)
  BY <1>1, <1>2, <1>3, <1>5, Shorter
<1>6. CASE Len(b) <= Len(a)
  BY <1>1, <1>2, <1>3, <1>6, Shorter
<1> QED BY <1>4, <1>5, <1>6

(***************************************************************************)
(* What a method does to some keys of a server is what it does to Home's.   *)

Of(s) == [k \in Key |-> s[HomeKey(k)]]

LEMMA CallableIs ==
  ASSUME NEW keys, NEW other, NEW T, Len(keys) = Len(other)
  PROVE  /\ Callable(keys, T) = Callable(other, T)
         /\ Callable(keys, T) \subseteq Callable(keys, AllTypes)
<1>1. Callable(keys, T) = Callable(other, T)
  BY DEF Callable
<1> DEFINE table == IF Len(keys) = 1 THEN Methods ELSE ManyMethods
<1>2. T \cap DOMAIN table \subseteq AllTypes \cap DOMAIN table
  BY DEF AllTypes
<1>3. \A U : Callable(keys, U) = UNION {table[t] : t \in U \cap DOMAIN table}
  BY DEF Callable
<1> HIDE DEF table
<1>4. Callable(keys, T) \subseteq Callable(keys, AllTypes)
  BY <1>2, <1>3
<1> QED BY <1>1, <1>4

LEMMA ManyIs ==
  ASSUME NEW keys, Len(keys) # 1, NEW T, NEW m \in Callable(keys, T)
  PROVE  m \in {"MGet", "MSet", "Delete", "Exists", "SUnion", "SInter", "SDiff"}
<1>1. m \in UNION {ManyMethods[t] : t \in T \cap DOMAIN ManyMethods}
  BY DEF Callable
<1>2. DOMAIN ManyMethods = {"pair", "set"}
  BY DEF ManyMethods
<1>3. ManyMethods["pair"] = {"MGet", "MSet", "Delete", "Exists"}
      /\ ManyMethods["set"] = {"SUnion", "SInter", "SDiff"}
  BY DEF ManyMethods
<1>4. m \in ManyMethods["pair"] \/ m \in ManyMethods["set"]
  BY <1>1, <1>2
<1> QED BY <1>3, <1>4

LEMMA RunOne ==
  ASSUME NEW r \in Reaches, NEW s, DOMAIN s = FullKey, NEW k \in Key, NEW m, NEW x, NEW ttl
  PROVE  LET on == Run(m, s, <<HomeKey(k)>>, x, ttl)
             own == Run(m, Of(s), <<k>>, x, ttl)
         IN Of(on.store) = own.store /\ on.ans = own.ans /\ DOMAIN on.store = FullKey
<1> DEFINE h == HomeKey(k)
           a == Apply(m, s[h], x, ttl)
<1>1. h \in FullKey /\ Of(s)[k] = s[h]
  BY HomeKeyIs DEF Of
<1> DEFINE v == a.value
<1>2. Run(m, s, <<h>>, x, ttl) = [store |-> [s EXCEPT ![h] = v], ans |-> a.ans]
  BY DEF Run
<1>3. Run(m, Of(s), <<k>>, x, ttl) = [store |-> [Of(s) EXCEPT ![k] = v], ans |-> a.ans]
  BY <1>1 DEF Run
<1>4. Of([s EXCEPT ![h] = v]) = [Of(s) EXCEPT ![k] = v]
  <2> HIDE DEF v
  <2>1. \A l \in Key : HomeKey(l) \in FullKey /\ (HomeKey(l) = h => l = k)
    BY HomeKeyIs, HomeKeysDiffer
  <2> QED BY <1>1, <2>1 DEF Of
<1> HIDE DEF a, v
<1>5. DOMAIN [s EXCEPT ![h] = v] = FullKey
  OBVIOUS
<1> DEFINE n == [s EXCEPT ![h] = v]
           o == [Of(s) EXCEPT ![k] = v]
           on == Run(m, s, <<h>>, x, ttl)
           own == Run(m, Of(s), <<k>>, x, ttl)
<1>6. on = [store |-> n, ans |-> a.ans] /\ own = [store |-> o, ans |-> a.ans]
  BY <1>2, <1>3
<1>7. Of(n) = o /\ DOMAIN n = FullKey
  BY <1>4, <1>5
<1> HIDE DEF n, o, on, own
<1>8. Of(on.store) = own.store /\ on.ans = own.ans /\ DOMAIN on.store = FullKey
  BY <1>6, <1>7
<1> QED BY <1>8 DEF on, own

\* What is put under two keys.
LEMMA RunTwoStore ==
  ASSUME NEW r \in Reaches, NEW s, DOMAIN s = FullKey, NEW k \in Key, NEW l \in Key, NEW m, NEW x,
         m \in {"MGet", "MSet", "Delete", "Exists", "SUnion", "SInter", "SDiff"}
  PROVE  LET on == ApplyMany(m, s, <<HomeKey(k), HomeKey(l)>>, x)
             own == ApplyMany(m, Of(s), <<k, l>>, x)
         IN Of(on.store) = own.store /\ DOMAIN on.store = FullKey
<1> DEFINE hs == <<HomeKey(k), HomeKey(l)>>
           ks == <<k, l>>
           on == ApplyMany(m, s, hs, x)
           own == ApplyMany(m, Of(s), ks, x)
           Put(v) == [j \in DOMAIN s |-> IF j \in Range(hs) THEN v ELSE s[j]]
           OwnPut(v) == [j \in DOMAIN Of(s) |-> IF j \in Range(ks) THEN v ELSE Of(s)[j]]
<1>1. Range(hs) = {HomeKey(k), HomeKey(l)} /\ Range(ks) = {k, l}
  BY DEF Range
<1>2. \A v : Of(Put(v)) = OwnPut(v) /\ DOMAIN Put(v) = FullKey
  <2>1. \A j \in Key : HomeKey(j) \in FullKey /\ (HomeKey(j) \in Range(hs) <=> j \in Range(ks))
    BY <1>1, HomeKeyIs, HomeKeysDiffer
  <2> HIDE DEF hs, ks
  <2> QED BY <2>1 DEF Of
<1>3. CASE m = "MSet"
  <2> DEFINE v == [type |-> "string", data |-> x, expires |-> FALSE]
  <2>1. on.store = Put(v) /\ own.store = OwnPut(v)
    BY <1>3 DEF ApplyMany, MSet, PutAll, ManyMethods
  <2> HIDE DEF v, Put, OwnPut, on, own
  <2> QED BY <1>2, <2>1 DEF on, own
<1>4. CASE m = "Delete"
  <2>1. on.store = Put(Absent) /\ own.store = OwnPut(Absent)
    BY <1>4 DEF ApplyMany, Delete, PutAll, ManyMethods
  <2> HIDE DEF Put, OwnPut, on, own
  <2> QED BY <1>2, <2>1 DEF on, own
<1>5. CASE m \in {"MGet", "Exists", "SUnion", "SInter", "SDiff"}
  <2>1. on.store = s /\ own.store = Of(s)
    BY <1>5 DEF ApplyMany, MGet, Exists, Combine, ManyMethods
  <2> QED BY <2>1
<1> QED BY <1>3, <1>4, <1>5

LEMMA RunTwoAns ==
  ASSUME NEW r \in Reaches, NEW s, NEW k \in Key, NEW l \in Key, NEW m, NEW x,
         m \in {"MGet", "MSet", "Delete", "Exists", "SUnion", "SInter", "SDiff"}
  PROVE  ApplyMany(m, s, <<HomeKey(k), HomeKey(l)>>, x).ans = ApplyMany(m, Of(s), <<k, l>>, x).ans
<1> DEFINE hs == <<HomeKey(k), HomeKey(l)>>
           ks == <<k, l>>
           vs == [i \in DOMAIN ks |-> Of(s)[ks[i]]]
           sets == [i \in DOMAIN ks |-> IF vs[i] = Absent THEN {} ELSE vs[i].data]
           hvs == [i \in DOMAIN hs |-> s[hs[i]]]
           hsets == [i \in DOMAIN hs |-> IF hvs[i] = Absent THEN {} ELSE hvs[i].data]
           on == ApplyMany(m, s, hs, x).ans
           own == ApplyMany(m, Of(s), ks, x).ans
<1>1. DOMAIN hs = DOMAIN ks /\ DOMAIN ks = {1, 2}
  OBVIOUS
<1>2. hvs = vs
  BY <1>1 DEF Of
<1>3. hsets = sets
  BY <1>1, <1>2
<1>4. CASE m \in {"MSet", "Delete"}
  BY <1>4 DEF ApplyMany, MSet, Delete, ManyMethods
<1>5. CASE m = "MGet"
  <2>1. /\ on = [i \in DOMAIN hs |-> IF hvs[i].type = "string" THEN hvs[i].data ELSE Nil]
        /\ own = [i \in DOMAIN ks |-> IF vs[i].type = "string" THEN vs[i].data ELSE Nil]
    BY <1>5 DEF ApplyMany, MGet, ManyMethods
  <2> HIDE DEF hs, ks, hvs, vs, on, own
  <2>2. on = own
    BY <1>1, <1>2, <2>1
  <2> QED BY <2>2 DEF on, own, hs, ks
<1>6. CASE m = "Exists"
  <2>1. /\ on = <<Cardinality({i \in DOMAIN hs : hvs[i] # Absent})>>
        /\ own = <<Cardinality({i \in DOMAIN ks : vs[i] # Absent})>>
    BY <1>6 DEF ApplyMany, Exists, ManyMethods
  <2> HIDE DEF hs, ks, hvs, vs, on, own
  <2>2. on = own
    BY <1>1, <1>2, <2>1
  <2> QED BY <2>2 DEF on, own, hs, ks
<1>7. CASE m \in {"SUnion", "SInter", "SDiff"}
  <2> DEFINE Wrong == \E i \in DOMAIN ks : vs[i].type \notin {"none", "set"}
             HWrong == \E i \in DOMAIN hs : hvs[i].type \notin {"none", "set"}
             Many(ss) == IF m = "SUnion" THEN SUnion(ss)
                         ELSE IF m = "SInter" THEN SInter(ss) ELSE SDiff(ss)
  <2>0. m \in ManyMethods.set
    BY <1>7 DEF ManyMethods
  <2>1. /\ on = (IF HWrong THEN ErrRedis ELSE Many(hsets))
        /\ own = (IF Wrong THEN ErrRedis ELSE Many(sets))
    <3>1. CASE m = "SUnion"
      BY <2>0, <3>1 DEF ApplyMany, Combine
    <3>2. CASE m = "SInter"
      BY <2>0, <3>2 DEF ApplyMany, Combine
    <3>3. CASE m = "SDiff"
      BY <2>0, <3>3 DEF ApplyMany, Combine
    <3> QED BY <1>7, <3>1, <3>2, <3>3
  <2> HIDE DEF hs, ks, hvs, vs, hsets, sets, on, own
  <2>2. on = own
    BY <1>1, <1>2, <1>3, <2>1
  <2> QED BY <2>2 DEF on, own, hs, ks
<1> QED BY <1>4, <1>5, <1>6, <1>7

\* A command leaves alone what it does not name.
LEMMA ElsewhereOne ==
  ASSUME NEW s, DOMAIN s = FullKey, NEW f, NEW m, NEW x, NEW ttl
  PROVE  LET on == Run(m, s, <<f>>, x, ttl)
         IN DOMAIN on.store = FullKey /\ \A h \in FullKey : f # h => on.store[h] = s[h]
<1> DEFINE on == Run(m, s, <<f>>, x, ttl)
           v == Apply(m, s[f], x, ttl).value
           n == [s EXCEPT ![f] = v]
<1>1. on.store = n
  BY DEF Run
<1> HIDE DEF v, on
<1>2. DOMAIN n = FullKey /\ \A h \in FullKey : f # h => n[h] = s[h]
  OBVIOUS
<1> HIDE DEF n
<1>3. DOMAIN on.store = FullKey /\ \A h \in FullKey : f # h => on.store[h] = s[h]
  BY <1>1, <1>2
<1> QED BY <1>3 DEF on

\* What a command of two keys puts under them, if it does.
PutBy(m, x) == IF m = "MSet" THEN [type |-> "string", data |-> x, expires |-> FALSE] ELSE Absent

\* What a command of two keys leaves on the server, and where.
LEMMA TwoPut ==
  ASSUME NEW s, DOMAIN s = FullKey, NEW f, NEW g, NEW m, NEW x, NEW ttl,
         m \in {"MGet", "MSet", "Delete", "Exists", "SUnion", "SInter", "SDiff"}
  PROVE  LET on == Run(m, s, <<f, g>>, x, ttl)
         IN /\ DOMAIN on.store = FullKey
            /\ \A h \in FullKey :
                 on.store[h] = IF m \in {"MSet", "Delete"} /\ h \in {f, g} THEN PutBy(m, x) ELSE s[h]
<1> DEFINE on == Run(m, s, <<f, g>>, x, ttl)
           n == [h \in DOMAIN s |-> IF h \in Range(<<f, g>>) THEN PutBy(m, x) ELSE s[h]]
<1>1. Range(<<f, g>>) = {f, g}
  BY DEF Range
<1>2. on = ApplyMany(m, s, <<f, g>>, x)
  BY DEF Run
<1>3. on.store = IF m \in {"MSet", "Delete"} THEN n ELSE s
  <2> DEFINE set == [type |-> "string", data |-> x, expires |-> FALSE]
             Put(v) == [h \in DOMAIN s |-> IF h \in Range(<<f, g>>) THEN v ELSE s[h]]
  <2>1. CASE m = "MSet"
    <3>0. ApplyMany(m, s, <<f, g>>, x).store = Put(set)
      BY <2>1 DEF ApplyMany, MSet, PutAll, ManyMethods
    <3>1. on.store = Put(set)
      BY <1>2, <3>0
    <3>2. PutBy(m, x) = set
      BY <2>1 DEF PutBy
    <3> HIDE DEF set, on
    <3> QED BY <2>1, <3>1, <3>2
  <2>2. CASE m = "Delete"
    <3>1. on.store = Put(Absent)
      BY <1>2, <2>2 DEF ApplyMany, Delete, PutAll, ManyMethods
    <3>2. PutBy(m, x) = Absent
      BY <2>2 DEF PutBy
    <3> HIDE DEF on
    <3> QED BY <2>2, <3>1, <3>2
  <2>3. CASE m \in {"MGet", "Exists", "SUnion", "SInter", "SDiff"}
    BY <1>2, <2>3 DEF ApplyMany, MGet, Exists, Combine, ManyMethods
  <2> QED BY <2>1, <2>2, <2>3
<1> HIDE DEF on
<1>4. DOMAIN n = FullKey /\ \A h \in FullKey : n[h] = IF h \in {f, g} THEN PutBy(m, x) ELSE s[h]
  BY <1>1
<1> HIDE DEF n
<1>5. /\ DOMAIN on.store = FullKey
      /\ \A h \in FullKey :
           on.store[h] = IF m \in {"MSet", "Delete"} /\ h \in {f, g} THEN PutBy(m, x) ELSE s[h]
  BY <1>3, <1>4
<1> QED BY <1>5 DEF on

(***************************************************************************)
(* Where a call can be: in every step the keys it has built are keys of      *)
(* configs its cache was given.                                             *)

AllMethods == Callable(<<1>>, AllTypes) \cup Callable(<<1, 2>>, AllTypes)

Arguments == UNION {Args(m) : m \in AllMethods}

CallState ==
  [keys : Seq(Key), full : Seq(FullKey), ttl : BOOLEAN,
   method : AllMethods \cup {None}, arg : Arguments \cup {None}]

One(r, u, T) ==
  /\ Callable(<<1>>, T) # {}
  /\ \E k \in Key : \/ u.keys = <<k>> /\ u.full = <<>>
                    \/ \E cfg \in r : u.keys = <<>> /\ u.full = <<BuildKey(cfg, k)>>

Two(r, u) ==
  \E k, l \in Key :
    /\ k # l
    /\ \/ u.keys = <<k, l>> /\ u.full = <<>>
       \/ \E cfg \in r : u.keys = <<l>> /\ u.full = <<BuildKey(cfg, k)>>
       \/ \E cfg, then \in r : u.keys = <<>> /\ u.full = <<BuildKey(cfg, k), BuildKey(then, l)>>

\* What is sent again is the command that was sent.
SentAgain(u, T) ==
  u.method # None =>
    u.keys = <<>> /\ u.full # <<>> /\ u.method \in Callable(u.full, T) /\ u.arg \in Args(u.method)

CallsAreOn ==
  \A c \in Client :
    /\ call[c] = NoCall \/ One(reach[c], call[c], types) \/ Two(reach[c], call[c])
    /\ SentAgain(call[c], types)

Frame ==
  /\ types \in Uses
  /\ reach \in Reaches
  /\ config \in [Client -> Configs] /\ \A c \in Client : config[c] \in reach[c]
  /\ call \in [Client -> CallState]
  /\ DOMAIN server = FullKey

IInv == Frame /\ CallsAreOn

LEMMA NoCallIs ==
  /\ NoCall \in CallState
  /\ NoCall = [keys |-> <<>>, full |-> <<>>, ttl |-> FALSE, method |-> None, arg |-> None]
  /\ \A T : SentAgain(NoCall, T)
BY DEF NoCall, CallState, SentAgain

LEMMA CallIs ==
  ASSUME NEW u \in CallState
  PROVE  /\ u.keys \in Seq(Key) /\ u.full \in Seq(FullKey) /\ u.ttl \in BOOLEAN
         /\ u.method \in AllMethods \cup {None} /\ u.arg \in Arguments \cup {None}
BY DEF CallState

\* A command is of one or two keys of the cache's own configs.
LEMMA Issued ==
  ASSUME IInv, NEW c \in Client, NEW m, NEW x, Sends(c, m, x)
  PROVE  /\ call[c].keys = <<>> /\ call[c].full # <<>>
         /\ m \in Callable(call[c].full, types) /\ x \in Args(m)
         /\ \/ \E k \in Key : \E cfg \in reach[c] : call[c].full = <<BuildKey(cfg, k)>>
            \/ \E k, l \in Key : \E cfg, then \in reach[c] :
                 k # l /\ call[c].full = <<BuildKey(cfg, k), BuildKey(then, l)>>
<1> DEFINE u == call[c]
<1>1. u.keys = <<>> /\ u.full # <<>>
  BY DEF Sends
<1>2. m \in Callable(u.full, types) /\ x \in Args(m)
  BY DEF Sends, IInv, CallsAreOn, SentAgain
<1>3. u # NoCall
  BY <1>1 DEF NoCall
<1>4. One(reach[c], u, types) \/ Two(reach[c], u)
  BY <1>3 DEF IInv, CallsAreOn
<1> HIDE DEF u
<1>5. One(reach[c], u, types) => \E k \in Key : \E cfg \in reach[c] : u.full = <<BuildKey(cfg, k)>>
  BY <1>1 DEF One
<1>6. Two(reach[c], u) => \E k, l \in Key : \E cfg, then \in reach[c] :
                            k # l /\ u.full = <<BuildKey(cfg, k), BuildKey(then, l)>>
  BY <1>1 DEF Two
<1> QED BY <1>1, <1>2, <1>4, <1>5, <1>6 DEF u

LEMMA ManyKeys ==
  \A f, g : Len(<<f, g>>) = 2 /\ Len(<<f>>) = 1 /\ <<f, g>> # <<>> /\ <<f>> # <<>>
OBVIOUS

LEMMA TwoKeys ==
  ASSUME IInv, NEW c \in Client, NEW m, NEW x, Sends(c, m, x), NEW f, NEW g, call[c].full = <<f, g>>
  PROVE  m \in {"MGet", "MSet", "Delete", "Exists", "SUnion", "SInter", "SDiff"}
BY Issued, ManyIs, ManyKeys

LEMMA AMethod ==
  ASSUME IInv, NEW c \in Client, NEW m, NEW x, Sends(c, m, x)
  PROVE  m \in AllMethods /\ x \in Arguments
<1>1. m \in Callable(call[c].full, types) /\ x \in Args(m)
  BY Issued
<1>2. Len(call[c].full) = Len(<<1>>) \/ Len(call[c].full) = Len(<<1, 2>>)
  BY Issued, ManyKeys
<1>3. m \in AllMethods
  BY <1>1, <1>2, CallableIs DEF AllMethods
<1> QED BY <1>1, <1>3 DEF Arguments

\* Of a command: the server keeps its keys, and other keys their values.
LEMMA CommandIs ==
  ASSUME IInv, NEW c \in Client, NEW m, NEW x, Sends(c, m, x)
  PROVE  /\ DOMAIN Executed(c, m, x).store = FullKey
         /\ \A h \in FullKey :
              (\A cfg \in reach[c] : \A k \in Key : BuildKey(cfg, k) # h)
              => Executed(c, m, x).store[h] = server[h]
<1>0. DOMAIN server = FullKey
  BY DEF IInv, Frame
<1>1. ASSUME NEW k \in Key, NEW cfg \in reach[c], call[c].full = <<BuildKey(cfg, k)>>
      PROVE  /\ DOMAIN Executed(c, m, x).store = FullKey
             /\ \A h \in FullKey :
                  BuildKey(cfg, k) # h => Executed(c, m, x).store[h] = server[h]
  BY <1>0, <1>1, ElsewhereOne DEF Executed
<1>2. ASSUME NEW k \in Key, NEW l \in Key, NEW cfg \in reach[c], NEW then \in reach[c],
             call[c].full = <<BuildKey(cfg, k), BuildKey(then, l)>>
      PROVE  /\ DOMAIN Executed(c, m, x).store = FullKey
             /\ \A h \in FullKey :
                  BuildKey(cfg, k) # h /\ BuildKey(then, l) # h
                  => Executed(c, m, x).store[h] = server[h]
  <2>1. m \in {"MGet", "MSet", "Delete", "Exists", "SUnion", "SInter", "SDiff"}
    BY <1>2, TwoKeys
  <2>2. Executed(c, m, x) =
          Run(m, server, <<BuildKey(cfg, k), BuildKey(then, l)>>, x, call[c].ttl)
    BY <1>2 DEF Executed
  <2> DEFINE f == BuildKey(cfg, k)
             g == BuildKey(then, l)
             on == Run(m, server, <<f, g>>, x, call[c].ttl)
  <2> HIDE DEF f, g
  <2>3. /\ DOMAIN on.store = FullKey
        /\ \A h \in FullKey :
             on.store[h] = IF m \in {"MSet", "Delete"} /\ h \in {f, g} THEN PutBy(m, x) ELSE server[h]
    BY <1>0, <2>1, TwoPut
  <2> HIDE DEF on
  <2>4. /\ DOMAIN on.store = FullKey
        /\ \A h \in FullKey : f # h /\ g # h => on.store[h] = server[h]
    BY <2>3
  <2> QED BY <2>2, <2>4 DEF f, g, on
<1> QED BY <1>1, <1>2, Issued

LEMMA Appended ==
  ASSUME NEW S, NEW s \in Seq(S), NEW b \in S
  PROVE  /\ Append(s, b) \in Seq(S) /\ Len(Append(s, b)) = Len(s) + 1
         /\ \A i \in 1 .. Len(s) : Append(s, b)[i] = s[i]
         /\ Append(s, b)[Len(s) + 1] = b
OBVIOUS

LEMMA Pair ==
  ASSUME NEW a, NEW b
  PROVE  Append(<<a>>, b) = <<a, b>>
<1> DEFINE S == {a, b}
           s == <<a>>
           p == <<a, b>>
           q == Append(s, b)
<1>1. s \in Seq(S) /\ Len(s) = 1 /\ s[1] = a /\ b \in S
  OBVIOUS
<1>2. p \in Seq(S) /\ Len(p) = 2 /\ p[1] = a /\ p[2] = b
  OBVIOUS
<1> HIDE DEF S, s, p
<1>3. q \in Seq(S) /\ Len(q) = 2 /\ q[1] = a /\ q[2] = b
  <2>1. /\ q \in Seq(S) /\ Len(q) = Len(s) + 1 /\ q[Len(s) + 1] = b
        /\ \A i \in 1 .. Len(s) : q[i] = s[i]
    BY <1>1, Appended
  <2> HIDE DEF q
  <2>2. Len(s) + 1 = 2 /\ 1 \in 1 .. Len(s)
    BY <1>1
  <2> QED BY <1>1, <2>1, <2>2
<1> HIDE DEF q
<1>4. p = q
  BY <1>2, <1>3
<1> QED BY <1>4 DEF p, q, s

\* A call that goes on as it should, and no other.
LEMMA CallGoesOn ==
  ASSUME IInv, NEW c \in Client, NEW u \in CallState, call' = [call EXCEPT ![c] = u],
         u = NoCall \/ One(reach[c], u, types) \/ Two(reach[c], u), SentAgain(u, types),
         reach' = reach, types' = types
  PROVE  call' \in [Client -> CallState] /\ CallsAreOn'
<1>1. call' \in [Client -> CallState]
  BY DEF IInv, Frame
<1>2. ASSUME NEW d \in Client
      PROVE  /\ call'[d] = NoCall \/ One(reach[d], call'[d], types) \/ Two(reach[d], call'[d])
             /\ SentAgain(call'[d], types)
  <2>1. CASE d = c
    <3>1. call'[d] = u
      BY <2>1 DEF IInv, Frame
    <3> QED BY <2>1, <3>1
  <2>2. CASE d # c
    <3>1. call'[d] = call[d]
      BY <2>2 DEF IInv, Frame
    <3> QED BY <3>1 DEF IInv, CallsAreOn
  <2> QED BY <2>1, <2>2
<1>3. CallsAreOn'
  BY <1>2 DEF CallsAreOn
<1> QED BY <1>1, <1>3

LEMMA BeginOn == IInv /\ (\E c \in Client : Begin(c)) => IInv'
<1> SUFFICES ASSUME IInv, NEW c \in Client, Begin(c) PROVE IInv'
  OBVIOUS
<1>1. PICK keys \in KeySeqs, ttl \in {config[c].ttl, TRUE} :
        /\ Callable(keys, types) # {}
        /\ call' = [call EXCEPT ![c] = [NoCall EXCEPT !.keys = keys, !.ttl = ttl]]
  BY DEF Begin
<1> DEFINE u == [NoCall EXCEPT !.keys = keys, !.ttl = ttl]
<1>2. ttl \in BOOLEAN
  <2>1. config[c] \in reach[c] /\ reach \in Reaches
    BY DEF IInv, Frame
  <2> QED BY <2>1, ReachIs
<1>3. NoCall \in CallState /\ NoCall.full = <<>> /\ NoCall.method = None
  BY NoCallIs DEF NoCall
<1>4. \/ \E k \in Key : keys = <<k>>
      \/ \E k, l \in Key : k # l /\ keys = <<k, l>>
  BY DEF KeySeqs
<1>5. keys \in Seq(Key)
  <2>1. \A k, l \in Key : <<k>> \in Seq(Key) /\ <<k, l>> \in Seq(Key)
    OBVIOUS
  <2> QED BY <1>4, <2>1
<1>6. u \in CallState
  BY <1>2, <1>3, <1>5 DEF CallState
<1>7. u.keys = keys /\ u.full = <<>> /\ u.method = None
  BY <1>3 DEF CallState
<1> HIDE DEF u
<1>8. One(reach[c], u, types) \/ Two(reach[c], u)
  <2>1. ASSUME NEW k \in Key, keys = <<k>> PROVE One(reach[c], u, types)
    <3>1. Callable(keys, types) # {} /\ Len(keys) = Len(<<1>>)
      BY <1>1, <2>1, ManyKeys
    <3>2. Callable(<<1>>, types) # {}
      BY <3>1, CallableIs
    <3> QED BY <1>7, <2>1, <3>2 DEF One
  <2> QED BY <1>4, <1>7, <2>1 DEF Two
<1>9. SentAgain(u, types)
  BY <1>7 DEF SentAgain
<1>10. /\ call' = [call EXCEPT ![c] = u] /\ types' = types /\ reach' = reach
       /\ UNCHANGED <<config, server>>
  BY <1>1 DEF u, Begin
<1>11. call' \in [Client -> CallState] /\ CallsAreOn'
  BY <1>6, <1>8, <1>9, <1>10, CallGoesOn
<1> QED BY <1>10, <1>11 DEF IInv, Frame

LEMMA MarshalFailsOn == IInv /\ (\E c \in Client : MarshalFails(c)) => IInv'
<1> SUFFICES ASSUME IInv, NEW c \in Client, MarshalFails(c) PROVE IInv'
  OBVIOUS
<1>1. /\ call' = [call EXCEPT ![c] = NoCall] /\ types' = types /\ reach' = reach
      /\ UNCHANGED <<config, server>>
  BY DEF MarshalFails
<1>2. call' \in [Client -> CallState] /\ CallsAreOn'
  BY <1>1, NoCallIs, CallGoesOn
<1> QED BY <1>1, <1>2 DEF IInv, Frame

LEMMA BuildOn == IInv /\ (\E c \in Client : Build(c)) => IInv'
<1> SUFFICES ASSUME IInv, NEW c \in Client, Build(c) PROVE IInv'
  OBVIOUS
<1> DEFINE v == call[c]
           key == BuildKey(config[c], Head(v.keys))
           u == [v EXCEPT !.keys = Tail(@), !.full = Append(@, key)]
<1>1. /\ call' = [call EXCEPT ![c] = u] /\ types' = types /\ reach' = reach
      /\ UNCHANGED <<config, server>> /\ v.keys # <<>>
  BY DEF Build, IInv, Frame
<1>2. v \in CallState /\ config[c] \in reach[c] /\ reach \in Reaches
  BY DEF IInv, Frame
<1>3. /\ u.keys = Tail(v.keys) /\ u.full = Append(v.full, key)
      /\ u.ttl = v.ttl /\ u.method = v.method /\ u.arg = v.arg
  BY <1>2 DEF CallState
<1>4. Head(v.keys) \in Key /\ Tail(v.keys) \in Seq(Key)
  BY <1>1, <1>2 DEF CallState
<1>5. key \in FullKey
  BY <1>2, <1>4, KeyIs
<1>6. u \in CallState
  <2> HIDE DEF key
  <2>1. v.full \in Seq(FullKey)
    BY <1>2, CallIs
  <2>2. Append(v.full, key) \in Seq(FullKey)
    BY <1>5, <2>1
  <2> QED BY <1>2, <1>4, <2>2 DEF CallState
<1>7. v.method = None
  BY <1>1 DEF IInv, CallsAreOn, SentAgain
<1>8. One(reach[c], v, types) \/ Two(reach[c], v)
  BY <1>1, NoCallIs DEF IInv, CallsAreOn
<1> HIDE DEF u, v
<1>9. ASSUME One(reach[c], v, types) PROVE One(reach[c], u, types)
  <2>1. PICK k \in Key : v.keys = <<k>> /\ v.full = <<>>
    BY <1>1, <1>9 DEF One
  <2>2. u.keys = <<>> /\ u.full = <<BuildKey(config[c], k)>>
    BY <1>3, <2>1
  <2>3. Callable(<<1>>, types) # {}
    BY <1>9 DEF One
  <2> HIDE DEF key
  <2> QED BY <1>2, <2>2, <2>3 DEF One
<1>10. ASSUME Two(reach[c], v) PROVE Two(reach[c], u)
  <2>1. PICK k \in Key, l \in Key :
          /\ k # l
          /\ \/ v.keys = <<k, l>> /\ v.full = <<>>
             \/ \E cfg \in reach[c] : v.keys = <<l>> /\ v.full = <<BuildKey(cfg, k)>>
    BY <1>1, <1>10 DEF Two
  <2>2. CASE v.keys = <<k, l>> /\ v.full = <<>>
    <3>1. u.keys = <<l>> /\ u.full = <<BuildKey(config[c], k)>>
      BY <1>3, <2>2
    <3> QED BY <1>2, <2>1, <3>1 DEF Two
  <2>3. ASSUME NEW cfg \in reach[c], v.keys = <<l>>, v.full = <<BuildKey(cfg, k)>>
        PROVE  Two(reach[c], u)
    <3> DEFINE a == BuildKey(cfg, k)
               b == BuildKey(config[c], l)
    <3>1. v.full = <<a>> /\ u.keys = Tail(<<l>>) /\ u.full = Append(<<a>>, b)
      BY <1>3, <2>3
    <3> HIDE DEF a, b
    <3>2. Tail(<<l>>) = <<>> /\ Append(<<a>>, b) = <<a, b>>
      <4>1. Tail(<<l>>) = <<>>
        OBVIOUS
      <4>2. Append(<<a>>, b) = <<a, b>>
        BY Pair
      <4> QED BY <4>1, <4>2
    <3>3. u.keys = <<>> /\ u.full = <<BuildKey(cfg, k), BuildKey(config[c], l)>>
      BY <3>1, <3>2 DEF a, b
    <3> QED BY <1>2, <2>1, <3>3 DEF Two
  <2> QED BY <2>1, <2>2, <2>3
<1>11. SentAgain(u, types)
  BY <1>3, <1>7 DEF SentAgain
<1>12. call' \in [Client -> CallState] /\ CallsAreOn'
  BY <1>1, <1>6, <1>8, <1>9, <1>10, <1>11, CallGoesOn
<1> QED BY <1>1, <1>12 DEF IInv, Frame

LEMMA ExecuteOn ==
  ASSUME IInv, NEW c \in Client, NEW m, NEW x, Execute(c, m, x)
  PROVE  IInv'
<1>1. /\ Sends(c, m, x) /\ server' = Executed(c, m, x).store
      /\ call' = [call EXCEPT ![c] = NoCall] /\ types' = types /\ reach' = reach
      /\ config' = config
  BY DEF Execute
<1>2. call' \in [Client -> CallState] /\ CallsAreOn'
  BY <1>1, NoCallIs, CallGoesOn
<1>3. DOMAIN server' = FullKey
  BY <1>1, CommandIs
<1> QED BY <1>1, <1>2, <1>3 DEF IInv, Frame

LEMMA LoseOn ==
  ASSUME IInv, NEW c \in Client, NEW m, NEW x, Lose(c, m, x)
  PROVE  IInv'
<1> DEFINE v == call[c]
           u == [v EXCEPT !.method = m, !.arg = x]
<1>1. /\ Sends(c, m, x) /\ server' \in {server, Executed(c, m, x).store}
      /\ types' = types /\ reach' = reach /\ config' = config
      /\ call' = [call EXCEPT ![c] = u] \/ call' = [call EXCEPT ![c] = NoCall]
  BY DEF Lose, IInv, Frame
<1>2. DOMAIN server' = FullKey
  BY <1>1, CommandIs DEF IInv, Frame
<1>3. v \in CallState
  BY DEF IInv, Frame
<1>4. /\ u.keys = v.keys /\ u.full = v.full /\ u.method = m /\ u.arg = x
      /\ u \in CallState
  BY <1>1, <1>3, AMethod DEF CallState
<1>5. v.keys = <<>> /\ v.full # <<>> /\ m \in Callable(v.full, types) /\ x \in Args(m)
  BY <1>1, Issued
<1>6. One(reach[c], v, types) \/ Two(reach[c], v)
  BY <1>5, NoCallIs DEF IInv, CallsAreOn
<1> HIDE DEF u, v
<1>7. SentAgain(u, types)
  BY <1>4, <1>5 DEF SentAgain
<1>8. One(reach[c], u, types) \/ Two(reach[c], u)
  BY <1>4, <1>6 DEF One, Two
<1>9. call' \in [Client -> CallState] /\ CallsAreOn'
  BY <1>1, <1>4, <1>7, <1>8, NoCallIs, CallGoesOn
<1> QED BY <1>1, <1>2, <1>9 DEF IInv, Frame

LEMMA InitOn == Init => IInv
BY NoCallIs DEF Init, IInv, Frame, CallsAreOn

LEMMA StepOn == IInv /\ [Next]_vars => IInv'
<1> SUFFICES ASSUME IInv, [Next]_vars PROVE IInv'
  OBVIOUS
<1>1. CASE UNCHANGED vars
  BY <1>1 DEF vars, IInv, Frame, CallsAreOn
<1>2. ASSUME NEW c \in Client, SetConfig(c) PROVE IInv'
  <2>1. PICK cfg \in reach[c] : config' = [config EXCEPT ![c] = cfg]
    BY <1>2 DEF SetConfig
  <2>2. cfg \in Configs
    BY ReachIs DEF IInv, Frame
  <2>3. UNCHANGED <<types, reach, call, server>>
    BY <1>2 DEF SetConfig
  <2>4. config' \in [Client -> Configs] /\ \A d \in Client : config'[d] \in reach[d]
    BY <2>1, <2>2 DEF IInv, Frame
  <2> QED BY <2>3, <2>4 DEF IInv, Frame, CallsAreOn
<1>3. ASSUME NEW k \in FullKey, Expires(k) PROVE IInv'
  BY <1>3 DEF Expires, IInv, Frame, CallsAreOn
<1>4. ASSUME NEW c \in Client, Step(c) PROVE IInv'
  BY <1>4, ExecuteOn, LoseOn DEF Step
<1> QED BY <1>1, <1>2, <1>3, <1>4, BeginOn, BuildOn, MarshalFailsOn DEF Next

LEMMA Invariance == Spec => []IInv
BY InitOn, StepOn, PTL DEF Spec

(***************************************************************************)
(* The refinement                                                           *)

Shared == \E c \in Client \ {Home} : \E cfg \in reach[c] : Overlap(cfg, HomeConfig)

\* A command of Home is the method of a cache of its own.
LEMMA HomeCommand ==
  ASSUME IInv, NEW m, NEW x, Sends(Home, m, x)
  PROVE  \E keys \in Own!KeySeqs : \E ttl \in BOOLEAN :
           /\ m \in Callable(keys, AllTypes) /\ x \in Args(m)
           /\ Of(Executed(Home, m, x).store) = Run(m, Of(server), keys, x, ttl).store
           /\ Executed(Home, m, x).ans = Run(m, Of(server), keys, x, ttl).ans
<1> DEFINE u == call[Home]
           ttl == u.ttl
           on == Executed(Home, m, x)
<1>1. reach \in Reaches /\ Home \in Client /\ reach[Home] = {HomeConfig} /\ DOMAIN server = FullKey
  BY RedisAssumption DEF IInv, Frame
<1>2. u \in CallState /\ ttl \in BOOLEAN
  BY <1>1, CallIs DEF IInv, Frame
<1>3. /\ m \in Callable(u.full, types) /\ x \in Args(m)
      /\ \/ \E k \in Key : u.full = <<HomeKey(k)>>
         \/ \E k, l \in Key : k # l /\ u.full = <<HomeKey(k), HomeKey(l)>>
  BY <1>1, Issued DEF HomeKey
<1>4. on = Run(m, server, u.full, x, ttl)
  BY DEF Executed
<1> HIDE DEF u, ttl, on
<1>5. ASSUME NEW k \in Key, u.full = <<HomeKey(k)>>
      PROVE  /\ <<k>> \in Own!KeySeqs
             /\ m \in Callable(<<k>>, AllTypes)
             /\ Of(on.store) = Run(m, Of(server), <<k>>, x, ttl).store
             /\ on.ans = Run(m, Of(server), <<k>>, x, ttl).ans
  <2>1. m \in Callable(<<k>>, AllTypes)
    <3>1. Len(u.full) = Len(<<k>>)
      BY <1>5, ManyKeys
    <3> QED BY <1>3, <3>1, CallableIs
  <2> DEFINE hs == <<HomeKey(k)>>
  <2>2. on = Run(m, server, hs, x, ttl)
    BY <1>4, <1>5
  <2>3. /\ Of(Run(m, server, hs, x, ttl).store) = Run(m, Of(server), <<k>>, x, ttl).store
        /\ Run(m, server, hs, x, ttl).ans = Run(m, Of(server), <<k>>, x, ttl).ans
    BY <1>1, RunOne
  <2> HIDE DEF hs
  <2>4. <<k>> \in Own!KeySeqs
    BY DEF Own!KeySeqs
  <2> QED BY <2>1, <2>2, <2>3, <2>4
<1>6. ASSUME NEW k \in Key, NEW l \in Key, k # l, u.full = <<HomeKey(k), HomeKey(l)>>
      PROVE  /\ <<k, l>> \in Own!KeySeqs
             /\ m \in Callable(<<k, l>>, AllTypes)
             /\ Of(on.store) = Run(m, Of(server), <<k, l>>, x, ttl).store
             /\ on.ans = Run(m, Of(server), <<k, l>>, x, ttl).ans
  <2> DEFINE hs == <<HomeKey(k), HomeKey(l)>>
             ks == <<k, l>>
  <2>1. Len(hs) = 2 /\ Len(ks) = 2 /\ u.full = hs
    BY <1>6, ManyKeys
  <2>2. m \in Callable(ks, AllTypes) /\ m \in Callable(hs, types)
    <3> HIDE DEF hs, ks
    <3> QED BY <1>3, <2>1, CallableIs
  <2>3. m \in {"MGet", "MSet", "Delete", "Exists", "SUnion", "SInter", "SDiff"}
    <3> HIDE DEF hs
    <3> QED BY <2>1, <2>2, ManyIs
  <2>4. /\ Of(ApplyMany(m, server, hs, x).store) = ApplyMany(m, Of(server), ks, x).store
        /\ ApplyMany(m, server, hs, x).ans = ApplyMany(m, Of(server), ks, x).ans
    BY <1>1, <2>3, RunTwoStore, RunTwoAns
  <2>5. <<k, l>> \in Own!KeySeqs
    BY <1>6 DEF Own!KeySeqs
  <2> HIDE DEF hs, ks
  <2>6. /\ on = ApplyMany(m, server, hs, x)
        /\ Run(m, Of(server), ks, x, ttl) = ApplyMany(m, Of(server), ks, x)
    BY <1>4, <2>1 DEF Run
  <2> QED BY <2>2, <2>4, <2>5, <2>6 DEF ks
<1> QED BY <1>2, <1>3, <1>5, <1>6 DEF on

\* A command of another cache is on no key of Home's, if Home shares none.
LEMMA AwayCommand ==
  ASSUME IInv, ~Shared, NEW c \in Client \ {Home}, NEW m, NEW x, Sends(c, m, x)
  PROVE  Of(Executed(c, m, x).store) = Of(server)
<1>1. reach \in Reaches
  BY DEF IInv, Frame
<1>2. \A k \in Key : HomeKey(k) \in FullKey
  BY <1>1, HomeKeyIs
<1>3. \A l \in Key : \A cfg \in reach[c] : \A k \in Key : BuildKey(cfg, k) # HomeKey(l)
  BY <1>1, Apart DEF Shared
<1>4. \A l \in Key : Executed(c, m, x).store[HomeKey(l)] = server[HomeKey(l)]
  BY <1>2, <1>3, CommandIs
<1> QED BY <1>4 DEF Of

\* The steps of Cache, of what the server holds for Home.
LEMMA OwnSteps ==
  /\ Of(server)' = Of(server) /\ answer' \in {<<>>, ErrRedis} /\ Shared' = Shared
       => [Own!Next]_Own!vars
  /\ UNCHANGED <<Of(server), answer, Shared>> => [Own!Next]_Own!vars
  /\ Shared /\ UNCHANGED <<answer, Shared>> => [Own!Next]_Own!vars
  /\ \A k \in Key : server[HomeKey(k)].expires /\ Of(server)' = [Of(server) EXCEPT ![k] = Absent]
                    /\ UNCHANGED <<answer, Shared>> => [Own!Next]_Own!vars
  /\ \A keys \in Own!KeySeqs : \A m \in Callable(keys, AllTypes), ttl \in BOOLEAN : \A x \in Args(m) :
       /\ Of(server)' = Run(m, Of(server), keys, x, ttl).store
       /\ answer' \in {Run(m, Of(server), keys, x, ttl).ans, answer, ErrRedis}
       /\ Shared' = Shared
       => [Own!Next]_Own!vars
<1>1. Of(server)' = Of(server) /\ answer' \in {<<>>, ErrRedis} /\ Shared' = Shared
       => [Own!Next]_Own!vars
  BY DEF Own!Next, Own!Fail, Of, Shared
<1>2. UNCHANGED <<Of(server), answer, Shared>> => [Own!Next]_Own!vars
  BY DEF Own!vars, Of, Shared
<1>3. Shared /\ UNCHANGED <<answer, Shared>> => [Own!Next]_Own!vars
  BY DEF Own!Next, Own!Others, Shared
<1>4. ASSUME NEW k \in Key, server[HomeKey(k)].expires,
             Of(server)' = [Of(server) EXCEPT ![k] = Absent], UNCHANGED <<answer, Shared>>
      PROVE  [Own!Next]_Own!vars
  BY <1>4 DEF Own!Next, Own!Expiry, Of, Shared
<1>5. ASSUME NEW keys \in Own!KeySeqs, NEW m \in Callable(keys, AllTypes), NEW ttl \in BOOLEAN,
             NEW x \in Args(m),
             Of(server)' = Run(m, Of(server), keys, x, ttl).store,
             answer' \in {Run(m, Of(server), keys, x, ttl).ans, answer, ErrRedis},
             Shared' = Shared
      PROVE  [Own!Next]_Own!vars
  BY <1>5 DEF Own!Next, Own!Call, Of, Shared
<1> QED BY <1>1, <1>2, <1>3, <1>4, <1>5

LEMMA OwnInit == Init => Own!Init
<1> SUFFICES ASSUME Init PROVE Own!Init
  OBVIOUS
<1>1. \A k \in Key : HomeKey(k) \in FullKey
  BY HomeKeyIs DEF Init
<1>2. \A k, l \in Key : server[HomeKey(k)] = server[HomeKey(l)]
  BY <1>1 DEF Init
<1>3. answer = <<>>
  BY DEF Init
<1> QED BY <1>2, <1>3 DEF Own!Init

LEMMA OwnNext == IInv /\ [Next]_vars => [Own!Next]_Own!vars
<1> SUFFICES ASSUME IInv, [Next]_vars PROVE [Own!Next]_Own!vars
  OBVIOUS
<1>0. Home \in Client /\ reach \in Reaches
  BY RedisAssumption DEF IInv, Frame
<1>1. Shared' = Shared
  <2>1. reach' = reach
    BY DEF Next, Begin, Build, MarshalFails, SetConfig, Step, Execute, Lose, Expires, vars
  <2> QED BY <2>1 DEF Shared
<1>2. CASE UNCHANGED vars
  <2>1. UNCHANGED <<Of(server), answer>>
    BY <1>2 DEF vars, Of
  <2> QED BY <1>1, <2>1, OwnSteps
<1>3. ASSUME NEW c \in Client, Begin(c) PROVE [Own!Next]_Own!vars
  <2>1. Of(server)' = Of(server) /\ answer' \in {answer, <<>>}
    BY <1>3 DEF Begin, Answer, Of
  <2> QED BY <1>1, <2>1, OwnSteps
<1>9. ASSUME NEW c \in Client, MarshalFails(c) PROVE [Own!Next]_Own!vars
  <2>1. Of(server)' = Of(server) /\ answer' \in {answer, ErrRedis}
    BY <1>9 DEF MarshalFails, Answer, Of
  <2> QED BY <1>1, <2>1, OwnSteps
<1>4. ASSUME NEW c \in Client, Build(c) \/ SetConfig(c) PROVE [Own!Next]_Own!vars
  <2>1. UNCHANGED <<Of(server), answer>>
    BY <1>4 DEF Build, SetConfig, Of
  <2> QED BY <1>1, <2>1, OwnSteps
<1>5. ASSUME NEW m, NEW x, Execute(Home, m, x) \/ Lose(Home, m, x) PROVE [Own!Next]_Own!vars
  <2> DEFINE on == Executed(Home, m, x)
  <2>1. Sends(Home, m, x)
    BY <1>5 DEF Execute, Lose
  <2>2. PICK keys \in Own!KeySeqs, ttl \in BOOLEAN :
          /\ m \in Callable(keys, AllTypes) /\ x \in Args(m)
          /\ Of(on.store) = Run(m, Of(server), keys, x, ttl).store
          /\ on.ans = Run(m, Of(server), keys, x, ttl).ans
    BY <2>1, HomeCommand
  <2>3. \/ server' = on.store /\ answer' \in {on.ans, answer, ErrRedis}
        \/ server' = server /\ answer' \in {answer, ErrRedis}
    BY <1>5 DEF Execute, Lose, Answer
  <2>4. server' = on.store => Of(server)' = Of(on.store)
    BY DEF Of
  <2>5. server' = server => Of(server)' = Of(server)
    BY DEF Of
  <2> HIDE DEF on
  <2>6. CASE server' = on.store /\ answer' \in {on.ans, answer, ErrRedis}
    BY <1>1, <2>2, <2>4, <2>6, OwnSteps
  <2>7. CASE server' = server /\ answer' \in {answer, ErrRedis}
    BY <1>1, <2>5, <2>7, OwnSteps
  <2> QED BY <2>3, <2>6, <2>7
<1>6. ASSUME NEW c \in Client \ {Home}, NEW m, NEW x, Execute(c, m, x) \/ Lose(c, m, x)
      PROVE  [Own!Next]_Own!vars
  <2>1. Sends(c, m, x) /\ answer' = answer
    BY <1>6 DEF Execute, Lose, Answer
  <2>2. CASE Shared
    BY <1>1, <2>1, <2>2, OwnSteps
  <2>3. CASE ~Shared
    <3> DEFINE s == Executed(c, m, x).store
    <3>1. server' = server \/ server' = s
      BY <1>6 DEF Execute, Lose
    <3>2. Of(s) = Of(server)
      BY <2>1, <2>3, AwayCommand
    <3> HIDE DEF s
    <3>3. Of(server)' = Of(server)
      BY <3>1, <3>2 DEF Of
    <3> QED BY <1>1, <2>1, <3>3, OwnSteps
  <2> QED BY <2>2, <2>3
<1>7. ASSUME NEW h \in FullKey, Expires(h) PROVE [Own!Next]_Own!vars
  <2>1. /\ server[h].expires /\ server' = [server EXCEPT ![h] = Absent] /\ answer' = answer
        /\ DOMAIN server = FullKey
    BY <1>7 DEF Expires, IInv, Frame
  <2>2. \A k \in Key : HomeKey(k) \in FullKey
    BY <1>0, HomeKeyIs
  <2>3. CASE \E k \in Key : h = HomeKey(k)
    <3>1. PICK k \in Key : h = HomeKey(k)
      BY <2>3
    <3>2. \A l \in Key : HomeKey(l) = h <=> l = k
      BY <1>0, <3>1, HomeKeysDiffer
    <3>3. Of(server)' = [Of(server) EXCEPT ![k] = Absent]
      BY <2>1, <2>2, <3>2 DEF Of
    <3> QED BY <1>1, <2>1, <3>1, <3>3, OwnSteps
  <2>4. CASE \A k \in Key : h # HomeKey(k)
    <3>1. Of(server)' = Of(server)
      BY <2>1, <2>2, <2>4 DEF Of
    <3> QED BY <1>1, <2>1, <3>1, OwnSteps
  <2> QED BY <2>3, <2>4
<1>8. ASSUME NEW c \in Client, Step(c) PROVE [Own!Next]_Own!vars
  BY <1>5, <1>6, <1>8 DEF Step
<1> QED BY <1>2, <1>3, <1>4, <1>7, <1>8, <1>9 DEF Next

\* A cache whose prefix overlaps no other one's (none is the beginning of the
\* other) looks alone: its keys hold and its methods return what a cache of its
\* own would, whichever caches call which methods, replace their configs or send
\* commands again on the same server (redis.go, buildKey in every method).
THEOREM CacheIsOnesOwn == Spec => LooksAlone
<1>1. Spec => Own!Init /\ [][Own!Next]_Own!vars
  BY Invariance, OwnInit, OwnNext, PTL DEF Spec
<1> QED BY <1>1 DEF LooksAlone, Own!Spec

(***************************************************************************)
(* The values of the server: none of them is empty                          *)

IsValue(v) ==
  DOMAIN v = {"type", "data", "expires"} /\ (v.type # "none" => v.data # Empty[v.type])

ValuesAre == \A h \in FullKey : IsValue(server[h])

LEMMA AbsentIs ==
  /\ IsValue(Absent) /\ Absent.expires = FALSE
  /\ \A x : x # Nil => IsValue([type |-> "string", data |-> x, expires |-> FALSE])
  /\ \A x, ttl : x # Nil => IsValue([type |-> "string", data |-> x, expires |-> ttl])
BY DEF IsValue, Absent, Empty

LEMMA SetArgs == \A m \in {"Set", "MSet"} : \A x \in Args(m) : x # Nil
<1>1. \A m \in {"Set", "MSet"} : Args(m) = {0, Text}
  BY DEF Args
<1>2. 0 # Nil /\ Text # Nil
  <2>1. {Text, Nil, ErrKeyNotFound, ErrRedis} \cap (Int \cup Element) = {} /\ Text # Nil
    BY CacheAssumption
  <2>2. 0 \in Int
    OBVIOUS
  <2> QED BY <2>1, <2>2
<1> QED BY <1>1, <1>2

LEMMA ApplyKeeps ==
  ASSUME NEW m, NEW v, IsValue(v), NEW x \in Args(m), NEW ttl
  PROVE  IsValue(Apply(m, v, x, ttl).value)
<1> DEFINE a == Apply(m, v, x, ttl).value
           t == Type(m)
           r == On(m, IF v = Absent THEN Empty[t] ELSE v.data, x)
<1>1. CASE m = "Expire"
  <2> DEFINE w == [v EXCEPT !.expires = TRUE]
  <2>1. a = v \/ a = w
    BY <1>1 DEF Apply, Set, Expire, TTL
  <2>2. DOMAIN w = {"type", "data", "expires"} /\ w.type = v.type /\ w.data = v.data
    BY DEF IsValue
  <2> HIDE DEF a, w
  <2>3. IsValue(a)
    BY <2>1, <2>2 DEF IsValue
  <2> QED BY <2>3 DEF a
<1>2. CASE m = "TTL"
  <2>1. a = v
    BY <1>2 DEF Apply, Set, Expire, TTL
  <2> QED BY <2>1
<1>3. CASE m = "Set"
  <2>1. a = [type |-> "string", data |-> x, expires |-> ttl]
    BY <1>3 DEF Apply, Set, Expire, TTL
  <2>2. x # Nil
    BY <1>3, SetArgs
  <2> QED BY <2>1, <2>2, AbsentIs
<1>4. CASE m \notin {"Expire", "TTL", "Set"}
  <2>1. \/ a = v
        \/ a = Absent
        \/ r.data # Empty[t] /\ a = [type |-> t, data |-> r.data, expires |-> v.expires]
    BY <1>4 DEF Apply, Set, Expire, TTL
  <2> HIDE DEF a, t, r
  <2>2. IsValue(a)
    BY <2>1, AbsentIs DEF IsValue
  <2> QED BY <2>2 DEF a
<1> QED BY <1>1, <1>2, <1>3, <1>4

LEMMA CommandKeeps ==
  ASSUME IInv, ValuesAre, NEW c \in Client, NEW m, NEW x, Sends(c, m, x)
  PROVE  \A h \in FullKey : IsValue(Executed(c, m, x).store[h])
<1> DEFINE on == Executed(c, m, x)
           ttl == call[c].ttl
<1>1. DOMAIN server = FullKey /\ reach \in Reaches
  BY DEF IInv, Frame
<1>2. ASSUME NEW k \in Key, NEW cfg \in reach[c], call[c].full = <<BuildKey(cfg, k)>>
      PROVE  \A h \in FullKey : IsValue(on.store[h])
  <2> DEFINE f == BuildKey(cfg, k)
             v == Apply(m, server[f], x, ttl).value
  <2>1. f \in FullKey
    BY <1>1, KeyIs
  <2>2. x \in Args(m)
    BY Issued
  <2>3. on = Run(m, server, <<f>>, x, ttl)
    BY <1>2 DEF Executed
  <2> HIDE DEF f, on
  <2>4. on.store = [server EXCEPT ![f] = v]
    BY <2>3 DEF Run
  <2>5. IsValue(v)
    BY <2>1, <2>2, ApplyKeeps DEF ValuesAre
  <2> HIDE DEF v
  <2> QED BY <1>1, <2>1, <2>4, <2>5 DEF ValuesAre
<1>3. ASSUME NEW k \in Key, NEW l \in Key, NEW cfg \in reach[c], NEW then \in reach[c],
             call[c].full = <<BuildKey(cfg, k), BuildKey(then, l)>>
      PROVE  \A h \in FullKey : IsValue(on.store[h])
  <2> DEFINE f == BuildKey(cfg, k)
             g == BuildKey(then, l)
  <2>1. m \in {"MGet", "MSet", "Delete", "Exists", "SUnion", "SInter", "SDiff"}
    BY <1>3, TwoKeys
  <2>2. on = Run(m, server, <<f, g>>, x, ttl)
    BY <1>3 DEF Executed
  <2>3. IsValue(PutBy(m, x))
    <3>1. x \in Args(m)
      BY Issued
    <3> QED BY <3>1, SetArgs, AbsentIs DEF PutBy
  <2> HIDE DEF f, g, on
  <2>4. \A h \in FullKey :
          on.store[h] = IF m \in {"MSet", "Delete"} /\ h \in {f, g} THEN PutBy(m, x) ELSE server[h]
    BY <1>1, <2>1, <2>2, TwoPut
  <2> QED BY <2>3, <2>4 DEF ValuesAre
<1> QED BY <1>2, <1>3, Issued

LEMMA ValuesStep == IInv /\ ValuesAre /\ [Next]_vars => ValuesAre'
<1> SUFFICES ASSUME IInv, ValuesAre, [Next]_vars PROVE ValuesAre'
  OBVIOUS
<1>1. CASE server' = server
  BY <1>1 DEF ValuesAre
<1>2. ASSUME NEW c \in Client, NEW m, NEW x, Execute(c, m, x) \/ Lose(c, m, x) PROVE ValuesAre'
  <2>1. /\ Sends(c, m, x)
        /\ server' \in {server, Executed(c, m, x).store}
    BY <1>2 DEF Execute, Lose
  <2>2. CASE server' = Executed(c, m, x).store
    BY <2>1, <2>2, CommandKeeps DEF ValuesAre
  <2> QED BY <1>1, <2>1, <2>2
<1>3. ASSUME NEW h \in FullKey, Expires(h) PROVE ValuesAre'
  <2>1. server' = [server EXCEPT ![h] = Absent] /\ DOMAIN server = FullKey
    BY <1>3 DEF Expires, IInv, Frame
  <2> QED BY <2>1, AbsentIs DEF ValuesAre
<1>4. ASSUME NEW c \in Client, Step(c) PROVE ValuesAre'
  BY <1>2, <1>4 DEF Step
<1>5. \/ server' = server
      \/ \E c \in Client : Step(c)
      \/ \E h \in FullKey : Expires(h)
  BY DEF Next, Begin, Build, MarshalFails, SetConfig, vars
<1> QED BY <1>1, <1>3, <1>4, <1>5

LEMMA ValuesInit == Init => ValuesAre
<1> SUFFICES ASSUME Init PROVE ValuesAre
  OBVIOUS
<1>1. PICK v \in {Absent} \cup Stored : server = [k \in FullKey |-> v]
  BY DEF Init
<1>2. DOMAIN Absent = {"type", "data", "expires"}
  BY DEF Absent
<1>3. IsValue(v)
  BY <1>2, AbsentIs, RedisAssumption DEF IsValue
<1> QED BY <1>1, <1>3 DEF ValuesAre

\* Type correctness: whatever key a call of a cache has built, it is one under a
\* config which that cache was given, and the server keeps no empty list, set,
\* sorted set or hash.
THEOREM CacheTypeCorrect == Spec => []TypeOK
<1>1. IInv /\ ValuesAre => TypeOK
  <2> SUFFICES ASSUME IInv, ValuesAre PROVE TypeOK
    OBVIOUS
  <2>1. ASSUME NEW c \in Client
        PROVE  /\ call[c] = NoCall \/ call[c].keys \o call[c].full # <<>>
               /\ \A i \in DOMAIN call[c].full : call[c].full[i] \in KeysUnder(reach[c])
    <3> DEFINE u == call[c]
    <3>1. u.keys \in Seq(Key) /\ u.full \in Seq(FullKey)
      BY CallIs DEF IInv, Frame
    <3>2. u = NoCall \/ One(reach[c], u, types) \/ Two(reach[c], u)
      BY DEF IInv, CallsAreOn
    <3> HIDE DEF u
    <3>3. u = NoCall \/ u.keys # <<>> \/ u.full # <<>>
      <4>1. One(reach[c], u, types) => u.keys # <<>> \/ u.full # <<>>
        BY ManyKeys DEF One
      <4>2. Two(reach[c], u) => u.keys # <<>> \/ u.full # <<>>
        BY ManyKeys DEF Two
      <4> QED BY <3>2, <4>1, <4>2
    <3>4. u.keys # <<>> \/ u.full # <<>> => u.keys \o u.full # <<>>
      <4>1. Len(u.keys \o u.full) = Len(u.keys) + Len(u.full)
        BY <3>1
      <4>2. Len(u.keys) \in Nat /\ Len(u.full) \in Nat
            /\ (u.keys # <<>> => Len(u.keys) # 0) /\ (u.full # <<>> => Len(u.full) # 0)
        BY <3>1
      <4> QED BY <4>1, <4>2
    <3>5. \A i \in DOMAIN u.full : u.full[i] \in KeysUnder(reach[c])
      <4>1. CASE u = NoCall
        <5>1. u.full = <<>>
          BY <4>1, NoCallIs
        <5> QED BY <5>1
      <4>2. CASE One(reach[c], u, types)
        BY <4>2 DEF One, KeysUnder
      <4>3. CASE Two(reach[c], u)
        <5>1. u.full = <<>> \/ (\E f \in KeysUnder(reach[c]) : u.full = <<f>>)
              \/ (\E f, g \in KeysUnder(reach[c]) : u.full = <<f, g>>)
          BY <4>3 DEF Two, KeysUnder
        <5> QED BY <5>1
      <4> QED BY <3>2, <4>1, <4>2, <4>3
    <3> QED BY <3>3, <3>4, <3>5 DEF u
  <2>2. \A k \in FullKey : server[k].type # "none" => server[k].data # Empty[server[k].type]
    BY DEF ValuesAre, IsValue
  <2> QED BY <2>1, <2>2 DEF TypeOK, IInv, Frame
<1> QED BY <1>1, Invariance, InitOn, StepOn, ValuesInit, ValuesStep, PTL DEF Spec

(***************************************************************************)
(* Pairs                                                                    *)

\* What an application that only calls methods of pairs stores never expires.
NoneExpire == types = {"pair"} => \A h \in FullKey : server[h].expires = FALSE

\* Who shares a key of Home's has the config of Home.
SameOrApart ==
  \A c \in Client \ {Home} : \A cfg \in reach[c] :
    Overlap(cfg, HomeConfig) => reach[c] = {HomeConfig}

Agree == \A k, l \in Key : server[HomeKey(k)] = server[HomeKey(l)]

LEMMA NoSingles == \A k : Callable(<<k>>, {"pair"}) = {}
<1>1. "pair" \notin DOMAIN Methods
  BY DEF Methods
<1>2. \A k : Callable(<<k>>, {"pair"}) = UNION {Methods[t] : t \in {"pair"} \cap DOMAIN Methods}
  BY ManyKeys DEF Callable
<1> QED BY <1>1, <1>2

\* A command of such an application is of two keys.
LEMMA PairCommand ==
  ASSUME IInv, types = {"pair"}, NEW c \in Client, NEW m, NEW x, Sends(c, m, x)
  PROVE  \E k, l \in Key : \E cfg, then \in reach[c] :
           LET f == BuildKey(cfg, k)
               g == BuildKey(then, l)
           IN /\ k # l
              /\ \A h \in FullKey :
                   Executed(c, m, x).store[h] =
                     IF m \in {"MSet", "Delete"} /\ h \in {f, g} THEN PutBy(m, x) ELSE server[h]
<1> DEFINE u == call[c]
<1>1. u.full # <<>> /\ u.keys = <<>> /\ u # NoCall
  BY Issued DEF NoCall
<1>2. Two(reach[c], u)
  <2>1. One(reach[c], u, types) \/ Two(reach[c], u)
    BY <1>1 DEF IInv, CallsAreOn
  <2>2. ~One(reach[c], u, types)
    BY NoSingles DEF One
  <2> QED BY <2>1, <2>2
<1> HIDE DEF u
<1>3. PICK k \in Key, l \in Key : k # l /\ \E cfg, then \in reach[c] :
                                             u.full = <<BuildKey(cfg, k), BuildKey(then, l)>>
  BY <1>1, <1>2 DEF Two
<1>4. PICK cfg \in reach[c], then \in reach[c] : u.full = <<BuildKey(cfg, k), BuildKey(then, l)>>
  BY <1>3
<1> DEFINE f == BuildKey(cfg, k)
           g == BuildKey(then, l)
<1>5. m \in {"MGet", "MSet", "Delete", "Exists", "SUnion", "SInter", "SDiff"}
  BY <1>4, TwoKeys DEF u
<1>6. Executed(c, m, x) = Run(m, server, <<f, g>>, x, u.ttl)
  BY <1>4 DEF Executed, u
<1>7. DOMAIN server = FullKey
  BY DEF IInv, Frame
<1>8. \A h \in FullKey :
        Executed(c, m, x).store[h] =
          IF m \in {"MSet", "Delete"} /\ h \in {f, g} THEN PutBy(m, x) ELSE server[h]
  <2> HIDE DEF f, g
  <2> QED BY <1>5, <1>6, <1>7, TwoPut
<1> QED BY <1>3, <1>8


LEMMA CommandSteps ==
  ASSUME [Next]_vars
  PROVE  /\ types' = types /\ reach' = reach
         /\ \/ server' = server
            \/ \E c \in Client : \E m, x : Sends(c, m, x) /\ server' = Executed(c, m, x).store
            \/ \E h \in FullKey : Expires(h)
<1>1. types' = types /\ reach' = reach
  BY DEF Next, Begin, Build, MarshalFails, SetConfig, Step, Execute, Lose, Expires, vars
<1>2. \/ server' = server
      \/ \E c \in Client : Step(c)
      \/ \E h \in FullKey : Expires(h)
  BY DEF Next, Begin, Build, MarshalFails, SetConfig, vars
<1>3. ASSUME NEW c \in Client, NEW m, NEW x, Execute(c, m, x) \/ Lose(c, m, x)
      PROVE  Sends(c, m, x) /\ (server' = server \/ server' = Executed(c, m, x).store)
  BY <1>3 DEF Execute, Lose
<1>4. ASSUME NEW c \in Client, Step(c)
      PROVE  server' = server \/ \E m, x : Sends(c, m, x) /\ server' = Executed(c, m, x).store
  BY <1>3, <1>4 DEF Step
<1> QED BY <1>1, <1>2, <1>4

LEMMA NoneExpireStep == IInv /\ NoneExpire /\ [Next]_vars => NoneExpire'
<1> SUFFICES ASSUME IInv, NoneExpire, [Next]_vars, types = {"pair"}
             PROVE  \A h \in FullKey : server'[h].expires = FALSE
  BY CommandSteps DEF NoneExpire
<1>1. \A h \in FullKey : server[h].expires = FALSE
  BY DEF NoneExpire
<1>2. ASSUME NEW c \in Client, NEW m, NEW x, Sends(c, m, x), server' = Executed(c, m, x).store
      PROVE  \A h \in FullKey : server'[h].expires = FALSE
  <2>1. PutBy(m, x).expires = FALSE
    BY AbsentIs DEF PutBy
  <2>2. \A h \in FullKey : server'[h] = PutBy(m, x) \/ server'[h] = server[h]
    BY <1>2, PairCommand
  <2> QED BY <1>1, <2>1, <2>2
<1>3. ASSUME NEW h \in FullKey, Expires(h) PROVE FALSE
  BY <1>1, <1>3 DEF Expires
<1> QED BY <1>1, <1>2, <1>3, CommandSteps

LEMMA NoneExpireInit == Init => NoneExpire
<1> SUFFICES ASSUME Init, types = {"pair"} PROVE \A h \in FullKey : server[h].expires = FALSE
  BY DEF NoneExpire
<1>1. PICK v \in {Absent} \cup {w \in Stored : w.type \in types} : server = [k \in FullKey |-> v]
  BY DEF Init
<1>2. "pair" \notin DOMAIN Empty
  BY DEF Empty
<1>3. v = Absent
  BY <1>2, RedisAssumption
<1> QED BY <1>1, <1>3, AbsentIs

LEMMA AgreeStep ==
  ASSUME NEW k1, NEW k2, Key = {k1, k2}, IInv, NoneExpire, PairsAgree, [Next]_vars
  PROVE  PairsAgree'
<1>1. types' = types /\ reach' = reach
  BY CommandSteps
<1> SUFFICES ASSUME types = {"pair"}, SameOrApart PROVE Agree'
  BY <1>1 DEF PairsAgree, SameOrApart, Agree
<1>2. Agree
  BY DEF PairsAgree, SameOrApart, Agree
<1>3. reach \in Reaches /\ reach[Home] = {HomeConfig} /\ \A j \in Key : HomeKey(j) \in FullKey
  BY RedisAssumption, HomeKeyIs DEF IInv, Frame
<1>4. ASSUME NEW c \in Client, NEW m, NEW x, Sends(c, m, x), server' = Executed(c, m, x).store
      PROVE  Agree'
  <2>1. CASE reach[c] = {HomeConfig}
    <3>1. PICK k \in Key, l \in Key :
            /\ k # l
            /\ \A h \in FullKey :
                 server'[h] = IF m \in {"MSet", "Delete"} /\ h \in {HomeKey(k), HomeKey(l)} THEN PutBy(m, x)
                              ELSE server[h]
      BY <1>4, <2>1, PairCommand DEF HomeKey
    <3>2. \A j \in Key : HomeKey(j) \in {HomeKey(k), HomeKey(l)}
      BY <3>1
    <3> QED BY <1>2, <1>3, <3>1, <3>2 DEF Agree
  <2>2. CASE reach[c] # {HomeConfig}
    <3>1. c # Home /\ \A cfg \in reach[c] : ~Overlap(cfg, HomeConfig)
      BY <1>3, <2>2 DEF SameOrApart
    <3>2. \A j \in Key : \A cfg \in reach[c] : \A k \in Key : BuildKey(cfg, k) # HomeKey(j)
      BY <1>3, <3>1, Apart
    <3>3. \A j \in Key : server'[HomeKey(j)] = server[HomeKey(j)]
      BY <1>3, <1>4, <3>2, CommandIs
    <3> QED BY <1>2, <3>3 DEF Agree
  <2> QED BY <2>1, <2>2
<1>5. ASSUME NEW h \in FullKey, Expires(h) PROVE FALSE
  BY <1>5 DEF Expires, NoneExpire
<1>6. CASE server' = server
  BY <1>2, <1>6 DEF Agree
<1> QED BY <1>4, <1>5, <1>6, CommandSteps

LEMMA AgreeInit == Init => PairsAgree
<1> SUFFICES ASSUME Init PROVE Agree
  BY DEF PairsAgree, Agree
<1>1. \A k \in Key : HomeKey(k) \in FullKey
  BY HomeKeyIs DEF Init
<1> QED BY <1>1 DEF Init, Agree

\* Two keys, only written by MSet and Delete, both at a time, agree at any time:
\* each method of several keys is one command, and its keys are built with the
\* config (redis.go, MSet, Delete).  There are no more than those two keys.
THEOREM PairsAreWhole ==
  ASSUME NEW CONSTANT k1, NEW CONSTANT k2, Key = {k1, k2}
  PROVE  Spec => []PairsAgree
<1>1. Init => IInv /\ NoneExpire /\ PairsAgree
  BY InitOn, NoneExpireInit, AgreeInit
<1>2. IInv /\ NoneExpire /\ PairsAgree /\ [Next]_vars => (IInv /\ NoneExpire /\ PairsAgree)'
  BY StepOn, NoneExpireStep, AgreeStep
<1> QED BY <1>1, <1>2, PTL DEF Spec
=============================================================================
