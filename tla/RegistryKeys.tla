---------------------------- MODULE RegistryKeys ----------------------------
(***************************************************************************)
(* service_registry/registry/etcd/registry.go: where instances lie in etcd,  *)
(* and what Discover and ListServices find there.  Both ask for the keys     *)
(* that begin with some characters, so names are sequences of characters     *)
(* here.  path.Join cleans what it has joined: it drops empty elements and   *)
(* ".", goes up for "..", and leaves no slash at the end.  The namespace and  *)
(* the names are assumed to leave it nothing to clean; then it puts slashes  *)
(* between those that are not empty.                                        *)
(***************************************************************************)
EXTENDS EtcdRegistry, Sequences, SequencesExt

CONSTANTS
  Char,          \* characters of a name
  Namespace,     \* of the registry: "/services" by default
  ServiceName,   \* [Instance -> the name of its service]
  InstanceID,    \* [Instance -> its ID]
  Others         \* keys that other users of this etcd have put

\* Around m .. n there are slashes, unless the text ends there, and within it none.
IsPart(text, m, n) ==
  /\ m <= n
  /\ m = 1 \/ text[m - 1] = "/"
  /\ n = Len(text) \/ text[n + 1] = "/"
  /\ \A j \in m .. n : text[j] # "/"

\* Mutant: what follows the last slash is left out.
Parts_Closed(text) ==
  {p \in (1 .. Len(text)) \X (1 .. Len(text)) : IsPart(text, p[1], p[2]) /\ p[2] < Len(text)}

\* Where the parts of a text that are not empty begin and end.
Parts(text) == {p \in (1 .. Len(text)) \X (1 .. Len(text)) : IsPart(text, p[1], p[2])}

\* Elements that path.Clean takes away.
Dots == {<<".">>, <<".", ".">>}

HasNoSlash(name) == name # <<>> /\ "/" \notin Range(name)

\* A path that path.Clean leaves as it is (and that is not the root).
IsClean(path) ==
  /\ \A p \in Parts(path) : SubSeq(path, p[1], p[2]) \notin Dots
  /\ \A n \in 1 .. Len(path) : path[n] = "/" => n < Len(path) /\ path[n + 1] # "/"

ASSUME NamesAssumption ==
  /\ "/" \in Char /\ Namespace \in Seq(Char) /\ IsClean(Namespace)
  /\ \A i \in Instance : {ServiceName[i], InstanceID[i]} \subseteq Seq(Char) \ Dots
  /\ \A i \in Instance : HasNoSlash(ServiceName[i]) /\ HasNoSlash(InstanceID[i])
  /\ \A i, j \in Instance :
       ServiceName[i] = ServiceName[j] /\ InstanceID[i] = InstanceID[j] => i = j
  /\ IsFiniteSet(Others)

\* path.Join of a clean path and a name.
PathJoin(path, name) ==
  IF path = <<>> THEN name ELSE IF name = <<>> THEN path ELSE path \o <<"/">> \o name

\* Mutant: path.Join, which cuts the slash off, comes last.
buildServicePrefix_Clean(service) == PathJoin(Namespace, service)

buildServicePrefix(service) == PathJoin(Namespace, service) \o <<"/">>

buildInstanceKey(i) == PathJoin(PathJoin(Namespace, ServiceName[i]), InstanceID[i])

\* The parts of what follows the namespace, in their order.
splitKey(key) ==
  LET rest == SubSeq(key, Len(Namespace) + 1, Len(key))
      parts == Parts(rest)
      Part(k) == CHOOSE p \in parts : Cardinality({q \in parts : q[1] < p[1]}) = k - 1
  IN [k \in 1 .. Cardinality(parts) |-> SubSeq(rest, Part(k)[1], Part(k)[2])]

\* Get ... WithPrefix
Discover(service) ==
  {i \in Instance : Present(i) /\ IsPrefix(buildServicePrefix(service), buildInstanceKey(i))}

ListServices ==
  LET keys == {buildInstanceKey(i) : i \in {j \in Instance : Present(j)}} \cup Others
  IN {splitKey(key)[1] : key \in {k \in keys : IsPrefix(Namespace, k) /\ Len(splitKey(k)) >= 2}}

----------------------------------------------------------------------------

\* Discover of a service gives its instances that are in etcd and no others, not
\* even of a service whose name begins with its own (the slash of line 457).
DiscoverFindsOwn ==
  \A i \in Instance :
    Discover(ServiceName[i]) = {j \in Instance : Present(j) /\ ServiceName[j] = ServiceName[i]}

\* ListServices finds the service of every instance there is.  What it finds
\* besides belongs to another namespace whose name goes on where this one ends
\* (line 217 asks for the namespace without a slash).
ListingIsComplete ==
  LET own == {ServiceName[i] : i \in {j \in Instance : Present(j)}}
      clash == {key \in Others : IsPrefix(Namespace, key)}
  IN own \subseteq ListServices /\ Cardinality(ListServices \ own) <= Cardinality(clash)
=============================================================================
