----------------------------- MODULE RedisCache -----------------------------
(***************************************************************************)
(* cache/redis/redis.go: caches of one process, or of several, on one Redis  *)
(* server.  A method reads the config, which SetConfig may replace at any    *)
(* time, once for every key it builds (and before for the DefaultTTL); then  *)
(* it is one command of the client, which is sent again, up to MaxRetries    *)
(* times, when its answer is lost.  Each cache has one goroutine that calls  *)
(* methods, and others may call SetConfig.                                   *)
(***************************************************************************)
EXTENDS CacheMethods

CONSTANTS
  Client,      \* caches
  Char,        \* characters of prefixes and keys
  Key,         \* keys of the callers: strings
  Uses,        \* what an application may be using: sets of types
  Stored,      \* values the server may have kept since earlier
  Reaches,     \* the configs each cache may ever be given
  MaxCalls,    \* calls (a bound)
  MaxLost,     \* answers that are lost (a bound)
  Home, HomeConfig, \* a cache whose config nobody sets, and that config
  None

ASSUME RedisAssumption ==
  /\ Home \in Client
  /\ \A r \in Reaches : r[Home] = {HomeConfig}
  /\ \A r \in Reaches : \A c \in Client : \A cfg \in r[c] :
       cfg.prefix \in Seq(Char) /\ cfg.ttl \in BOOLEAN
  /\ Key \subseteq Seq(Char)
  /\ \A v \in Stored :
       DOMAIN v = DOMAIN Absent /\ v.type \in DOMAIN Empty /\ v.data # Empty[v.type]

VARIABLES
  types,       \* the types in use
  reach,       \* the configs SetConfig may be called with
  config,      \* the field config of each cache
  call,        \* the method each cache is in
  answer,      \* history: what the last method of Home returned
  server,      \* the values of the server's keys
  calls, lost  \* what is left of the bounds

vars == <<types, reach, config, call, answer, server, calls, lost>>

\* buildKey
BuildKey(cfg, k) == cfg.prefix \o k

Configs == UNION {UNION {r[c] : c \in Client} : r \in Reaches}

KeysUnder(cfgs) == {BuildKey(cfg, k) : cfg \in cfgs, k \in Key}

FullKey == KeysUnder(Configs)

KeySeqs == {<<k>> : k \in Key} \cup {ks \in Key \X Key : ks[1] # ks[2]}

NoCall == [keys |-> <<>>, full |-> <<>>, ttl |-> FALSE, method |-> None, arg |-> None]

TypeOK ==
  /\ types \in Uses
  /\ reach \in Reaches
  /\ \A c \in Client : config[c] \in reach[c]
  /\ \A c \in Client :
       /\ call[c] = NoCall \/ call[c].keys \o call[c].full # <<>>
       /\ \A i \in DOMAIN call[c].full : call[c].full[i] \in KeysUnder(reach[c])
  /\ DOMAIN server = FullKey
  /\ \A k \in FullKey : server[k].type # "none" => server[k].data # Empty[server[k].type]

Init ==
  /\ types \in Uses
  /\ reach \in Reaches
  /\ config \in [Client -> Configs] /\ \A c \in Client : config[c] \in reach[c]
  /\ call = [c \in Client |-> NoCall]
  /\ answer = <<>>
  /\ \E v \in {Absent} \cup {w \in Stored : w.type \in types} : server = [k \in FullKey |-> v]
  /\ calls = MaxCalls
  /\ lost = MaxLost

----------------------------------------------------------------------------

Answer(c, ans) == answer' = IF c = Home THEN ans ELSE answer

\* A method begins; Set is given a ttl, or reads the DefaultTTL, 0 being none.
Begin(c) ==
  /\ call[c] = NoCall
  /\ calls > 0 /\ calls' = calls - 1
  /\ \E keys \in KeySeqs, ttl \in {config[c].ttl, TRUE} :
       /\ Callable(keys, types) # {}
       /\ call' = [call EXCEPT ![c] = [NoCall EXCEPT !.keys = keys, !.ttl = ttl]]
  /\ Answer(c, <<>>)
  /\ UNCHANGED <<types, reach, config, server, lost>>

\* Mutant: of several keys only the first one is given the prefix.
Build_First(c) ==
  /\ call[c].keys # <<>>
  /\ call' = [call EXCEPT ![c].keys = Tail(@),
                          ![c].full = Append(@, IF @ = <<>> THEN BuildKey(config[c], Head(call[c].keys))
                                                ELSE Head(call[c].keys))]
  /\ UNCHANGED <<types, reach, config, answer, server, calls, lost>>

\* The next key is built.
Build(c) ==
  /\ call[c].keys # <<>>
  /\ call' = [call EXCEPT ![c].keys = Tail(@),
                          ![c].full = Append(@, BuildKey(config[c], Head(call[c].keys)))]
  /\ UNCHANGED <<types, reach, config, answer, server, calls, lost>>

\* A value is not one of JSON: Set marshals it before it builds its key, MSet
\* after it has built the key of that value.
MarshalFails(c) ==
  /\ call[c].method = None
  /\ \/ call[c].full = <<>> /\ "Set" \in Callable(call[c].keys, types)
     \/ call[c].full # <<>> /\ "MSet" \in Callable(call[c].keys \o call[c].full, types)
  /\ call' = [call EXCEPT ![c] = NoCall]
  /\ Answer(c, ErrRedis)
  /\ UNCHANGED <<types, reach, config, server, calls, lost>>

\* The command of method m with argument x, and where it can be next.
Sends(c, m, x) ==
  /\ call[c].keys = <<>> /\ call[c].full # <<>>
  /\ IF call[c].method = None THEN m \in Callable(call[c].full, types) /\ x \in Args(m)
     ELSE m = call[c].method /\ x = call[c].arg

Executed(c, m, x) == Run(m, server, call[c].full, x, call[c].ttl)

\* Mutant: MSet sets one key after the other.
Execute_OneByOne(c, m, x) ==
  /\ Sends(c, m, x)
  /\ IF m = "MSet"
     THEN LET k == Head(call[c].full)
          IN /\ server' = [server EXCEPT ![k] = [type |-> "string", data |-> x, expires |-> FALSE]]
             /\ call' = [call EXCEPT ![c] =
                           IF Len(@.full) = 1 THEN NoCall
                           ELSE [@ EXCEPT !.full = Tail(@), !.method = "MSet", !.arg = x]]
             /\ answer' = answer
     ELSE /\ server' = Executed(c, m, x).store
          /\ Answer(c, Executed(c, m, x).ans)
          /\ call' = [call EXCEPT ![c] = NoCall]
  /\ UNCHANGED <<types, reach, config, calls, lost>>

Execute(c, m, x) ==
  /\ Sends(c, m, x)
  /\ server' = Executed(c, m, x).store
  /\ Answer(c, Executed(c, m, x).ans)
  /\ call' = [call EXCEPT ![c] = NoCall]
  /\ UNCHANGED <<types, reach, config, calls, lost>>

\* The command or its answer is lost: it is sent again, or tried no more.
Lose(c, m, x) ==
  /\ Sends(c, m, x)
  /\ lost > 0 /\ lost' = lost - 1
  /\ server' \in {server, Executed(c, m, x).store}
  /\ \/ call' = [call EXCEPT ![c].method = m, ![c].arg = x] /\ UNCHANGED answer
     \/ call' = [call EXCEPT ![c] = NoCall] /\ Answer(c, ErrRedis)
  /\ UNCHANGED <<types, reach, config, calls>>

\* Mutant: the caches have one config in common.
SetConfig_Shared(c) ==
  /\ config' \in {[d \in Client |-> cfg] : cfg \in reach[c] \ {config[c]}}
  /\ UNCHANGED <<types, reach, call, answer, server, calls, lost>>

SetConfig(c) ==
  /\ config' \in {[config EXCEPT ![c] = cfg] : cfg \in reach[c] \ {config[c]}}
  /\ UNCHANGED <<types, reach, call, answer, server, calls, lost>>

Expires(k) ==
  /\ server[k].expires
  /\ server' = [server EXCEPT ![k] = Absent]
  /\ UNCHANGED <<types, reach, config, call, answer, calls, lost>>

Step(c) ==
  \E m \in Callable(<<1>>, types) \cup Callable(<<1, 2>>, types) :
    \E x \in Args(m) : Execute(c, m, x) \/ Lose(c, m, x)

Next ==
  \/ \E c \in Client : Begin(c) \/ Build(c) \/ MarshalFails(c) \/ SetConfig(c) \/ Step(c)
  \/ \E k \in FullKey : Expires(k)

Spec == Init /\ [][Next]_vars

----------------------------------------------------------------------------

\* Keys of two configs can be the same if a prefix is the beginning of another:
\* buildKey puts nothing between prefix and key.
Overlap(cfg, other) == IsPrefix(cfg.prefix, other.prefix) \/ IsPrefix(other.prefix, cfg.prefix)

HomeKey(k) == BuildKey(HomeConfig, k)

Own == INSTANCE Cache
  WITH store <- [k \in Key |-> server[HomeKey(k)]],
       shared <- \E c \in Client \ {Home} : \E cfg \in reach[c] : Overlap(cfg, HomeConfig)

\* A cache whose prefix overlaps no other one's is a cache of its own: whatever
\* others do on the same server, while their configs are being replaced, at any
\* step of a call, and whatever answers are lost, its keys hold and its methods
\* return what they would if it were alone (buildKey in every method).
LooksAlone == Own!Spec

\* Two keys that are only ever written by MSet, both at a time, agree at any
\* time, for those whose configs are not replaced.
PairsAgree ==
  /\ types = {"pair"}
  /\ \A c \in Client \ {Home} : \A cfg \in reach[c] :
       Overlap(cfg, HomeConfig) => reach[c] = {HomeConfig}
  => \A k, l \in Key : server[HomeKey(k)] = server[HomeKey(l)]
=============================================================================
