---------------------------- MODULE MongoStorage ----------------------------
(***************************************************************************)
(* storage/mongodb/mongodb.go: storages of one process, or of several, on    *)
(* one database.  A method reads the config once, for the name of the        *)
(* collection, and is one command; the server takes the writes of a command  *)
(* one document after the other, and only a single write is atomic.  The     *)
(* driver sends a write again without repeating it, and gives up in the end. *)
(* A document has a field u, on which there may be a unique index, and a     *)
(* counter n.  The server and the driver are external.                       *)
(***************************************************************************)
EXTENDS Integers, Sequences, FiniteSets, Functions, SequencesExt

CONSTANTS
  Client,      \* storages, each with one goroutine that calls methods
  Prefix,      \* values of CollectionPrefix: strings
  Name,        \* collections of the callers: strings
  Id,          \* values of _id
  Value,       \* values of u
  MaxCalls,    \* calls (a bound)
  MaxLost,     \* commands that fail for another reason (a bound)
  Stored,      \* documents of a collection that are there from earlier
  Lists,       \* what is given to BulkWrite, the operations of no known type left out
  None

VARIABLES
  prefix,      \* the field config of each storage
  call,        \* the method each storage is in
  result,      \* what the last one returned, and history: which of its writes were executed
  docs,        \* the documents of every collection
  unique,      \* collections with a unique index on u
  winners,     \* history: the storages whose insert of a document succeeded
  tickets,     \* history: the counters FindOneAndUpdate returned, for each document
  calls, lost  \* what is left of the bounds

vars == <<prefix, call, result, docs, unique, winners, tickets, calls, lost>>

\* buildCollectionName
BuildName(p, name) == p \o name

Collection == {BuildName(p, name) : p \in Prefix, name \in Name}

Field == Value \cup {None}   \* None: it has no u

Document == [u : Field, n : Nat]

\* A collection's documents, by _id.
IsContents(t) == DOMAIN t \subseteq Id /\ t \in [DOMAIN t -> Document]

\* A write, or a read, of the documents with an _id in filter.
Op == [op : {"insert", "inc", "set", "replace", "delete", "read"}, filter : SUBSET Id,
       u : Field, upsert : BOOLEAN]

Write(op, filter, u) == [op |-> op, filter |-> filter, u |-> u, upsert |-> FALSE]

\* An operation given to BulkWrite; an update may be $inc of n or $set of u.
BulkOperation ==
  [op : {"insert", "inc", "set", "delete", "replace"}, filter : SUBSET Id, u : Field,
   upsert : BOOLEAN]

ASSUME MongoAssumption ==
  /\ MaxCalls \in Nat /\ MaxLost \in Nat
  /\ Value # {} /\ IsFiniteSet(Id)
  /\ \A t \in Stored : IsContents(t)
  /\ \A list \in Lists :
       /\ list \in Seq(BulkOperation)
       /\ \A i \in DOMAIN list : list[i].op = "insert" => Cardinality(list[i].filter) = 1

NoCall == [method |-> None, coll |-> None, todo |-> <<>>, total |-> 0, executed |-> {}, matched |-> 0]

NoResult == [err |-> None, executed |-> {}, total |-> 0]

SingleMethods ==
  {"UpdateOne", "ReplaceOne", "DeleteOne", "FindOne", "FindOneAndUpdate", "FindOneAndDelete",
   "FindOneAndReplace"}

CallState ==
  [method : SingleMethods \cup
            {"InsertOne", "InsertMany", "UpdateMany", "DeleteMany", "BulkWrite", "Find"},
   coll : Collection, todo : Seq(Op), total : Nat, executed : SUBSET Nat, matched : Nat]

Result ==
  [err : {None, "nil", "ErrNotFound", "ErrDuplicateKey", "other"}, executed : SUBSET Nat, total : Nat]

TypeOK ==
  /\ prefix \in [Client -> Prefix]
  /\ call \in [Client -> CallState \cup {NoCall}]
  /\ result \in [Client -> Result]
  /\ DOMAIN docs = Collection /\ \A k \in Collection : IsContents(docs[k])
  /\ unique \subseteq Collection
  /\ winners \in [Collection -> [Id -> SUBSET Client]]
  /\ tickets \in [Collection -> [Id -> Seq(Nat)]]
  /\ calls \in 0 .. MaxCalls /\ lost \in 0 .. MaxLost

Init ==
  /\ \E p \in Prefix : prefix = [c \in Client |-> p]
  /\ call = [c \in Client |-> NoCall]
  /\ result = [c \in Client |-> NoResult]
  /\ \E t \in Stored : docs = [k \in Collection |-> t]
  /\ unique \in {{}, Collection}
  /\ winners = [k \in Collection |-> [id \in Id |-> {}]]
  /\ tickets = [k \in Collection |-> [id \in Id |-> <<>>]]
  /\ calls = MaxCalls
  /\ lost = MaxLost

----------------------------------------------------------------------------
(* The methods.  getCollection, and what is asked of the server.            *)

\* A method of one step, and what it returns.
Admin(c) == call[c] = NoCall /\ calls > 0 /\ calls' = calls - 1 /\ UNCHANGED <<prefix, call>>

Answer(c, err) == result' = [result EXCEPT ![c] = [NoResult EXCEPT !.err = err]]

\* Mutant: the collection is not given its prefix.
Begin_Bare(c, name, method, todo) ==
  /\ call[c] = NoCall
  /\ calls > 0 /\ calls' = calls - 1
  /\ call' = [call EXCEPT ![c] = [NoCall EXCEPT
                !.method = method, !.coll = name, !.todo = todo, !.total = Len(todo)]]
  /\ result' = [result EXCEPT ![c] = NoResult]
  /\ UNCHANGED <<prefix, docs, unique, winners, tickets, lost>>

Begin(c, name, method, todo) ==
  /\ call[c] = NoCall
  /\ calls > 0 /\ calls' = calls - 1
  /\ call' = [call EXCEPT ![c] = [NoCall EXCEPT
                !.method = method, !.coll = BuildName(prefix[c], name),
                !.todo = todo, !.total = Len(todo)]]
  /\ result' = [result EXCEPT ![c] = NoResult]
  /\ UNCHANGED <<prefix, docs, unique, winners, tickets, lost>>

Filter == (SUBSET Id) \ {{}}

\* Mutant: a document that is there is replaced.
InsertOne_Upserts(c, name) == \E id \in Id, u \in Value :
  Begin(c, name, "InsertOne", <<[Write("replace", {id}, u) EXCEPT !.upsert = TRUE]>>)

InsertOne(c, name) == \E id \in Id, u \in Value :
  Begin(c, name, "InsertOne", <<Write("insert", {id}, u)>>)

InsertMany(c, name) == \E ids \in SetToSeqs(Id), us \in [1 .. Cardinality(Id) -> Value] :
  Begin(c, name, "InsertMany", [i \in DOMAIN ids |-> Write("insert", {ids[i]}, us[i])])

\* The update may be $inc of n or $set of u.
Updates(filter) ==
  {Write("inc", filter, None)} \cup {Write("set", filter, u) : u \in Value}

UpdateOne(c, name) == \E f \in Filter : \E w \in Updates(f) :
  Begin(c, name, "UpdateOne", <<w>>)

\* One document after the other, in some order; one that is gone is left out.
UpdateMany(c, name) == \E ids \in SetToSeqs(Id) : \E w \in Updates(Id) :
  Begin(c, name, "UpdateMany", [i \in DOMAIN ids |-> [w EXCEPT !.filter = {ids[i]}]])

ReplaceOne(c, name) == \E f \in Filter, u \in Value :
  Begin(c, name, "ReplaceOne", <<Write("replace", f, u)>>)

DeleteOne(c, name) == \E f \in Filter :
  Begin(c, name, "DeleteOne", <<Write("delete", f, None)>>)

DeleteMany(c, name) == \E ids \in SetToSeqs(Id) :
  Begin(c, name, "DeleteMany", [i \in DOMAIN ids |-> Write("delete", {ids[i]}, None)])

FindOneAndUpdate(c, name) == \E f \in Filter : \E w \in Updates(f) :
  Begin(c, name, "FindOneAndUpdate", <<w>>)

FindOneAndDelete(c, name) == \E f \in Filter :
  Begin(c, name, "FindOneAndDelete", <<Write("delete", f, None)>>)

FindOneAndReplace(c, name) == \E f \in Filter, u \in Value :
  Begin(c, name, "FindOneAndReplace", <<Write("replace", f, u)>>)

\* The write model of an operation.
Model(o) ==
  [op |-> o.op, filter |-> o.filter, u |-> o.u,
   upsert |-> o.upsert /\ o.op \notin {"insert", "delete"}]

\* An operation of no known type has no model.  A list that is empty is done at
\* once, and one that has no model is refused by the driver.
BulkWrite(c, name) ==
  \/ \E list \in Lists \ {<<>>} :
       Begin(c, name, "BulkWrite", [i \in DOMAIN list |-> Model(list[i])])
  \/ /\ Admin(c)
     /\ Answer(c, "nil") \/ Answer(c, "other")
     /\ UNCHANGED <<docs, unique, winners, tickets, lost>>

FindOne(c, name) == \E f \in Filter :
  Begin(c, name, "FindOne", <<Write("read", f, None)>>)

\* What is found is read at once; skip, limit and sort choose among it.
Find(c, name) == Begin(c, name, "Find", <<Write("read", Id, None)>>)

Count(c, name) == Find(c, name)

Aggregate(c, name) == Find(c, name)

Distinct(c, name) == Find(c, name)

----------------------------------------------------------------------------
(* A write at the server                                                    *)

Put(t, id, doc) == [j \in DOMAIN t \cup {id} |-> IF j = id THEN doc ELSE t[j]]

Clashes(k, id, u) ==
  k \in unique /\ \E j \in DOMAIN docs[k] \ {id} : docs[k][j].u = u

\* What write w makes of a document, or of none.
Written(w, doc) ==
  CASE w.op = "inc" -> [doc EXCEPT !.n = @ + 1]
    [] w.op = "set" -> [doc EXCEPT !.u = w.u]
    [] OTHER -> [u |-> w.u, n |-> 0]

\* The documents w can be about: one it matches, or the one it makes.
Targets(k, w) ==
  LET matched == w.filter \cap DOMAIN docs[k]
  IN IF w.op = "insert" \/ (matched = {} /\ w.upsert /\ w.op # "delete") THEN w.filter ELSE matched

Duplicate(k, w, id) ==
  \/ w.op = "insert" /\ id \in DOMAIN docs[k]
  \/ w.op \in {"insert", "set", "replace", "inc"}
     /\ Clashes(k, id, IF w.op = "inc" /\ id \in DOMAIN docs[k] THEN docs[k][id].u ELSE w.u)

\* The collection after w, which found id.
After(k, w, id) ==
  CASE w.op = "read" -> docs[k]
    [] w.op = "delete" -> [j \in DOMAIN docs[k] \ {id} |-> docs[k][j]]
    [] OTHER -> Put(docs[k], id, Written(w, IF id \in DOMAIN docs[k] THEN docs[k][id]
                                            ELSE [u |-> w.u, n |-> 0]))

\* A deleted or replaced document's history is over; a replaced one keeps its
\* inserter.
Recorded(c, k, w, id) ==
  LET new == After(k, w, id)
      fresh == w.op \in {"insert", "replace", "delete"}
      value == IF w.op \in {"read", "delete"} THEN 0 ELSE new[id].n
  IN /\ docs' = [docs EXCEPT ![k] = new]
     /\ winners' = [winners EXCEPT ![k][id] =
          IF w.op = "delete" THEN {}
          ELSE IF call[c].method \in {"InsertOne", "InsertMany"} THEN @ \cup {c} ELSE @]
     /\ tickets' = [tickets EXCEPT ![k][id] =
          IF fresh THEN <<>>
          ELSE IF call[c].method = "FindOneAndUpdate" /\ w.op = "inc" THEN Append(@, value) ELSE @]

Return(c, err, executed) ==
  /\ result' = [result EXCEPT ![c] =
       [err |-> err, executed |-> executed, total |-> call[c].total]]
  /\ call' = [call EXCEPT ![c] = NoCall]

Position(c) == call[c].total - Len(call[c].todo) + 1

\* Mutant: the writes of a command are not ordered.
Fails_Unordered(c) ==
  IF Len(call[c].todo) = 1
  THEN Return(c, "ErrDuplicateKey", call[c].executed)
  ELSE call' = [call EXCEPT ![c].todo = Tail(@)] /\ UNCHANGED result

\* A duplicate key ends the command; what it wrote before stays written.
Fails(c) == Return(c, "ErrDuplicateKey", call[c].executed)

Continues(c, found) ==
  LET executed == call[c].executed \cup {Position(c)}
      matched == call[c].matched + found
  IN IF Len(call[c].todo) > 1
     THEN /\ call' = [call EXCEPT ![c].todo = Tail(@), ![c].executed = executed, ![c].matched = matched]
          /\ UNCHANGED result
     ELSE IF call[c].method \in SingleMethods /\ matched = 0
     THEN Return(c, "ErrNotFound", executed)
     ELSE Return(c, "nil", executed)

\* Mutant: FindOneAndUpdate finds the document, and then writes what it made of it.
Execute_FindsFirst(c) ==
  LET k == call[c].coll
      w == Head(call[c].todo)
  IN /\ call[c].todo # <<>>
     /\ \/ \E id \in Targets(k, w) :
             IF Duplicate(k, w, id) THEN Fails(c) /\ UNCHANGED <<docs, winners, tickets>>
             ELSE IF call[c].method = "FindOneAndUpdate" /\ w.op = "inc"
             THEN /\ tickets' = [tickets EXCEPT ![k][id] = Append(@, docs[k][id].n + 1)]
                  /\ call' = [call EXCEPT ![c].todo = <<Write("inc", {id}, w.u)>>, ![c].method = "UpdateOne"]
                  /\ UNCHANGED <<docs, winners, result>>
             ELSE Recorded(c, k, w, id) /\ Continues(c, 1)
        \/ /\ Targets(k, w) = {}
           /\ Continues(c, 0) /\ UNCHANGED <<docs, winners, tickets>>
     /\ UNCHANGED <<prefix, unique, calls, lost>>

\* The next write of the command.
Execute(c) ==
  LET k == call[c].coll
      w == Head(call[c].todo)
  IN /\ call[c].todo # <<>>
     /\ \/ \E id \in Targets(k, w) :
             IF Duplicate(k, w, id) THEN Fails(c) /\ UNCHANGED <<docs, winners, tickets>>
             ELSE Recorded(c, k, w, id) /\ Continues(c, 1)
        \/ /\ Targets(k, w) = {}
           /\ Continues(c, 0) /\ UNCHANGED <<docs, winners, tickets>>
     /\ UNCHANGED <<prefix, unique, calls, lost>>

\* The driver gives up: the next write may have been done, or not.
Lose(c) ==
  LET k == call[c].coll
      w == Head(call[c].todo)
  IN /\ call[c].todo # <<>>
     /\ lost > 0 /\ lost' = lost - 1
     /\ \/ /\ UNCHANGED <<docs, winners, tickets>>
           /\ Return(c, "other", call[c].executed)
        \/ \E id \in Targets(k, w) :
             /\ ~Duplicate(k, w, id)
             /\ docs' = [docs EXCEPT ![k] = After(k, w, id)]
             /\ winners' = [winners EXCEPT ![k][id] = IF w.op = "delete" THEN {} ELSE @]
             /\ tickets' = [tickets EXCEPT ![k][id] =
                  IF w.op \in {"insert", "replace", "delete"} THEN <<>> ELSE @]
             /\ Return(c, "other", call[c].executed \cup {Position(c)})
     /\ UNCHANGED <<prefix, unique, calls>>

----------------------------------------------------------------------------
(* Collections, indexes and the config: one step each                       *)

\* The server does a command that it can do, and refuses any other; or its answer
\* is lost.
Command(c, Possible, Effect) ==
  /\ Admin(c)
  /\ \/ Possible /\ Effect /\ Answer(c, "nil") /\ UNCHANGED lost
     \/ /\ ~Possible /\ Answer(c, "other")
        /\ UNCHANGED <<docs, unique, winners, tickets, lost>>
     \/ /\ lost > 0 /\ lost' = lost - 1
        /\ Answer(c, "other")
        /\ (Possible /\ Effect) \/ UNCHANGED <<docs, unique, winners, tickets>>

\* A unique index cannot be made when two documents have the same value; an index
\* that is not unique is of no account.
CreateIndex(c, name) ==
  LET k == BuildName(prefix[c], name)
  IN Command(c, \A i, j \in DOMAIN docs[k] : docs[k][i].u = docs[k][j].u => i = j,
                unique' = unique \cup {k} /\ UNCHANGED <<docs, winners, tickets>>)

DropIndex(c, name) ==
  LET k == BuildName(prefix[c], name)
  IN Command(c, k \in unique, unique' = unique \ {k} /\ UNCHANGED <<docs, winners, tickets>>)

DropCollection(c, name) ==
  LET k == BuildName(prefix[c], name)
  IN Command(c, TRUE, /\ docs' = [docs EXCEPT ![k] = <<>>]
                      /\ unique' = unique \ {k}
                      /\ winners' = [winners EXCEPT ![k] = [id \in Id |-> {}]]
                      /\ tickets' = [tickets EXCEPT ![k] = [id \in Id |-> <<>>]])

SetConfig(c) ==
  /\ \E p \in Prefix \ {prefix[c]} : prefix' = [prefix EXCEPT ![c] = p]
  /\ UNCHANGED <<call, result, docs, unique, winners, tickets, calls, lost>>

Methods(c, name) ==
  \/ InsertOne(c, name) \/ InsertMany(c, name) \/ UpdateOne(c, name) \/ UpdateMany(c, name)
  \/ ReplaceOne(c, name) \/ DeleteOne(c, name) \/ DeleteMany(c, name)
  \/ FindOneAndUpdate(c, name) \/ FindOneAndDelete(c, name) \/ FindOneAndReplace(c, name)
  \/ BulkWrite(c, name) \/ FindOne(c, name) \/ Find(c, name)
  \/ Count(c, name) \/ Aggregate(c, name) \/ Distinct(c, name)
  \/ CreateIndex(c, name) \/ DropIndex(c, name) \/ DropCollection(c, name)

Next == \E c \in Client :
  \/ \E name \in Name : Methods(c, name)
  \/ Execute(c) \/ Lose(c) \/ SetConfig(c)

Spec == Init /\ [][Next]_vars

----------------------------------------------------------------------------

\* Of those who insert a document with the same _id, whatever they do besides,
\* at most one is told that it did, until the document is deleted (InsertOne and
\* InsertMany; a caller that was told of another error may have done it, too).
OneWinner ==
  \A k \in Collection, id \in Id : Cardinality(winners[k][id]) <= 1

\* FindOneAndUpdate never returns the same count of a document twice, over
\* every interleaving with the other methods' writes (line 303).
TicketsDiffer ==
  \A k \in Collection, id \in Id : IsInjective(tickets[k][id])

\* The writes of an InsertMany or BulkWrite that were executed, with effect or on
\* no document, are the first ones, also when an error is all that is returned
\* (lines 102 and 441): nothing is executed after one that failed, so a caller
\* can go on from the first that is missing.  Without an error it was all of them.
FirstOnesAreExecuted ==
  \A c \in Client :
    /\ \E i \in 0 .. result[c].total : result[c].executed = 1 .. i
    /\ result[c].err = "nil" => result[c].executed = 1 .. result[c].total
=============================================================================
