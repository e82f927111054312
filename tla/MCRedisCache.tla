---------------------------- MODULE MCRedisCache ----------------------------
EXTENDS RedisCache

CONSTANTS A, B, e1, e2

\* Prefixes and keys are strings of one or two letters.
Cfg(prefix, ttl) == [prefix |-> prefix, ttl |-> ttl]

MCChar == {"a", "b", "c", "k"}

MCHomeConfig == Cfg(<<"a">>, TRUE)

MCKey == {<<"k">>, <<"a", "k">>}

Others ==
  {{MCHomeConfig}, {Cfg(<<"b">>, TRUE), Cfg(<<"c">>, FALSE)}, {Cfg(<<>>, TRUE)}}

MCReaches == {[c \in {A, B} |-> IF c = A THEN {MCHomeConfig} ELSE r] : r \in Others}

Kept(type, data) == [type |-> type, data |-> data, expires |-> FALSE]

MCStored ==
  {Kept("list", <<e1, e2>>), Kept("zset", [e \in Element |-> IF e = e1 THEN 1 ELSE 0]),
   Kept("hash", [e \in Element |-> 0])}

MCUses == {{"pair"}, {"string", "ttl"}, {"string", "list"}, {"set"}, {"zset"}, {"hash"}}
=============================================================================
