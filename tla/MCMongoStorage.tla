--------------------------- MODULE MCMongoStorage ---------------------------
EXTENDS MongoStorage

\* Lists of two operations on one document each: the first may fail, or be about
\* a document that is not there, or make one; so may the second.
MCOperation(types, may) ==
  [op : types, filter : {{id} : id \in Id}, u : Value, upsert : {may}]

MCLists ==
  {<<o, p>> : o \in MCOperation({"insert", "inc"}, FALSE) \cup MCOperation({"set"}, TRUE),
              p \in MCOperation({"insert", "replace", "delete"}, FALSE)}

MCStored ==
  {<<>>} \cup {[id \in Id |-> [u |-> f[id], n |-> 0]] : f \in {g \in [Id -> Value] : IsInjective(g)}}

\* Strings of one or two letters.
MCPrefix == {<<"a">>, <<"b">>}

MCName == {<<"c">>}

\* The properties are invariants.
Symmetry == Permutations(Client) \cup Permutations(Id) \cup Permutations(Value)
=============================================================================
