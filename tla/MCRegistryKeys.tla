--------------------------- MODULE MCRegistryKeys ---------------------------
(* The registry with two services, one name the beginning of the other.      *)
EXTENDS MCEtcdRegistry, RegistryKeys

MCChar == {"/", "n", "u", "x", "1", "2", "m", "v"}

MCNamespace == <<"/", "n">>

MCServiceName == (a :> <<"u">>) @@ (b :> <<"u", "x">>)

MCInstanceID == (a :> <<"1">>) @@ (b :> <<"2">>)

\* One key in a namespace that begins with ours, and one elsewhere.
MCOthers == {<<"/", "n", "2", "/", "v", "/", "1">>, <<"/", "m", "/", "u", "/", "1">>}
=============================================================================
