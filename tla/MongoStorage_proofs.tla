------------------------- MODULE MongoStorage_proofs -------------------------
(***************************************************************************)
(* Theorems about MongoStorage for any number of storages, documents, values *)
(* and calls.                                                               *)
(***************************************************************************)
EXTENDS MongoStorage, TLAPS, SequenceTheorems, FiniteSetTheorems

MethodName ==
  SingleMethods \cup {"InsertOne", "InsertMany", "UpdateMany", "DeleteMany", "BulkWrite", "Find"}

Inserts == {"InsertOne", "InsertMany"}

\* A method asks the server for some operations, which are inserts if it inserts.
Asks(c, name) ==
  \E method \in MethodName, todo \in Seq(Op) :
    /\ Begin(c, name, method, todo)
    /\ method \in Inserts => \A i \in DOMAIN todo : todo[i].op = "insert"

\* BulkWrite has nothing to ask for.
AsksNothing(c) ==
  /\ Admin(c)
  /\ Answer(c, "nil") \/ Answer(c, "other")
  /\ UNCHANGED <<docs, unique, winners, tickets, lost>>

LEMMA WriteType ==
  \A op \in {"insert", "inc", "set", "replace", "delete", "read"}, f \in SUBSET Id, u \in Field :
    /\ Write(op, f, u) \in Op
    /\ Write(op, f, u).op = op
BY DEF Write, Op

LEMMA UpdatesType == \A f \in SUBSET Id : Updates(f) \subseteq Op
BY WriteType DEF Updates, Field

\* A list of all documents has one entry for each of them.
LEMMA ListType ==
  /\ [1 .. Cardinality(Id) -> Op] \subseteq Seq(Op)
  /\ \A ids \in SetToSeqs(Id) :
       DOMAIN ids = 1 .. Cardinality(Id) /\ \A i \in DOMAIN ids : {ids[i]} \in SUBSET Id
<1>1. Cardinality(Id) \in Nat
  BY FS_CardinalityType, MongoAssumption
<1>2. [1 .. Cardinality(Id) -> Op] \subseteq Seq(Op)
  BY <1>1, SeqDef
<1> QED BY <1>2 DEF SetToSeqs

LEMMA OneType == \A w \in Op : <<w>> \in Seq(Op) /\ DOMAIN <<w>> = {1} /\ <<w>>[1] = w
OBVIOUS

LEMMA ListsType == \A list \in Lists : [i \in DOMAIN list |-> Model(list[i])] \in Seq(Op)
<1>1. \A o \in BulkOperation : Model(o) \in Op
  BY DEF BulkOperation, Model, Op
<1> TAKE list \in Lists
<1>2. list \in Seq(BulkOperation)
  BY MongoAssumption
<1>3. \A i \in DOMAIN list : Model(list[i]) \in Op
  BY <1>1, <1>2
<1> HIDE DEF BulkOperation
<1> QED BY <1>2, <1>3

LEMMA MethodStep ==
  ASSUME NEW c \in Client, NEW name \in Name, Methods(c, name)
  PROVE  \/ Asks(c, name)
         \/ CreateIndex(c, name) \/ DropIndex(c, name) \/ DropCollection(c, name)
         \/ AsksNothing(c)
<1>0. ASSUME NEW method \in MethodName \ Inserts, NEW todo \in Seq(Op), Begin(c, name, method, todo)
      PROVE  Asks(c, name)
  BY <1>0 DEF Asks
<1>1. CASE InsertOne(c, name)
  <2>1. PICK id \in Id, u \in Value : Begin(c, name, "InsertOne", <<Write("insert", {id}, u)>>)
    BY <1>1 DEF InsertOne
  <2>2. Write("insert", {id}, u) \in Op /\ Write("insert", {id}, u).op = "insert"
    BY WriteType DEF Field
  <2> QED BY <2>1, <2>2, OneType DEF Asks, MethodName
<1>2. CASE InsertMany(c, name)
  <2>1. PICK ids \in SetToSeqs(Id), us \in [1 .. Cardinality(Id) -> Value] :
          Begin(c, name, "InsertMany", [i \in DOMAIN ids |-> Write("insert", {ids[i]}, us[i])])
    BY <1>2 DEF InsertMany
  <2> DEFINE todo == [i \in DOMAIN ids |-> Write("insert", {ids[i]}, us[i])]
  <2>2. \A i \in DOMAIN ids : {ids[i]} \in SUBSET Id /\ us[i] \in Field
    BY ListType DEF Field
  <2>3. \A i \in DOMAIN ids : todo[i] \in Op /\ todo[i].op = "insert"
    BY <2>2, WriteType
  <2>4. todo \in Seq(Op) /\ DOMAIN todo = DOMAIN ids
    BY <2>3, ListType
  <2> QED BY <2>1, <2>3, <2>4 DEF Asks, MethodName
<1>3. CASE UpdateMany(c, name)
  <2>1. PICK ids \in SetToSeqs(Id), w \in Updates(Id) :
          Begin(c, name, "UpdateMany", [i \in DOMAIN ids |-> [w EXCEPT !.filter = {ids[i]}]])
    BY <1>3 DEF UpdateMany
  <2> DEFINE todo == [i \in DOMAIN ids |-> [w EXCEPT !.filter = {ids[i]}]]
  <2>2. w \in Op
    BY <2>1, UpdatesType
  <2>3. \A i \in DOMAIN ids : [w EXCEPT !.filter = {ids[i]}] \in Op
    BY <2>2, ListType DEF Op
  <2>4. todo \in Seq(Op)
    BY <2>3, ListType
  <2> HIDE DEF todo
  <2>5. "UpdateMany" \in MethodName \ Inserts
    BY DEF MethodName, Inserts
  <2> QED BY <1>0, <2>1, <2>4, <2>5 DEF todo
<1>4. CASE DeleteMany(c, name)
  <2>1. PICK ids \in SetToSeqs(Id) :
          Begin(c, name, "DeleteMany", [i \in DOMAIN ids |-> Write("delete", {ids[i]}, None)])
    BY <1>4 DEF DeleteMany
  <2> DEFINE todo == [i \in DOMAIN ids |-> Write("delete", {ids[i]}, None)]
  <2>2. \A i \in DOMAIN ids : Write("delete", {ids[i]}, None) \in Op
    BY ListType, WriteType DEF Field
  <2>3. todo \in Seq(Op)
    BY <2>2, ListType
  <2> HIDE DEF todo
  <2>4. "DeleteMany" \in MethodName \ Inserts
    BY DEF MethodName, Inserts
  <2> QED BY <1>0, <2>1, <2>3, <2>4 DEF todo
<1>5. CASE BulkWrite(c, name)
  <2>1. CASE AsksNothing(c)
    BY <2>1
  <2>2. ASSUME NEW list \in Lists,
               Begin(c, name, "BulkWrite", [i \in DOMAIN list |-> Model(list[i])])
        PROVE  Asks(c, name)
    <3> DEFINE todo == [i \in DOMAIN list |-> Model(list[i])]
    <3>1. "BulkWrite" \in MethodName \ Inserts /\ todo \in Seq(Op)
      BY ListsType DEF MethodName, Inserts
    <3> QED BY <1>0, <2>2, <3>1
  <2> QED BY <1>5, <2>1, <2>2 DEF BulkWrite, AsksNothing
<1>6. ASSUME NEW method \in MethodName \ Inserts, NEW w \in Op, Begin(c, name, method, <<w>>)
      PROVE  Asks(c, name)
  BY <1>0, <1>6, OneType
<1>7. CASE UpdateOne(c, name) \/ FindOneAndUpdate(c, name)
  BY <1>6, <1>7, UpdatesType DEF UpdateOne, FindOneAndUpdate, Filter, MethodName, SingleMethods, Inserts
<1>8. CASE ReplaceOne(c, name) \/ FindOneAndReplace(c, name)
  BY <1>6, <1>8, WriteType
     DEF ReplaceOne, FindOneAndReplace, Filter, Field, MethodName, SingleMethods, Inserts
<1>9. CASE DeleteOne(c, name) \/ FindOneAndDelete(c, name) \/ FindOne(c, name)
  BY <1>6, <1>9, WriteType
     DEF DeleteOne, FindOneAndDelete, FindOne, Filter, Field, MethodName, SingleMethods, Inserts
<1>10. CASE Find(c, name) \/ Count(c, name) \/ Aggregate(c, name) \/ Distinct(c, name)
  BY <1>6, <1>10, WriteType
     DEF Find, Count, Aggregate, Distinct, Field, MethodName, SingleMethods, Inserts
<1> QED
  BY <1>1, <1>2, <1>3, <1>4, <1>5, <1>7, <1>8, <1>9, <1>10 DEF Methods

----------------------------------------------------------------------------
(* What a write makes of a collection                                       *)

\* A write of one document does not touch the others.
LeavesOthers(k, w, id) == \A j \in DOMAIN docs[k] \ {id} : After(k, w, id)[j] = docs[k][j]

LEMMA AfterType ==
  ASSUME TypeOK, NEW k \in Collection, NEW w \in Op, NEW id \in Targets(k, w)
  PROVE  /\ id \in Id
         /\ IsContents(After(k, w, id))
         /\ w.op = "read" => After(k, w, id) = docs[k]
         /\ w.op = "delete" => DOMAIN After(k, w, id) = DOMAIN docs[k] \ {id}
         /\ w.op \notin {"read", "delete"} => DOMAIN After(k, w, id) = DOMAIN docs[k] \cup {id}
         /\ LeavesOthers(k, w, id)
         /\ w.op \in {"inc", "set"} =>
              After(k, w, id)[id].n = (IF id \in DOMAIN docs[k] THEN docs[k][id].n ELSE 0)
                                        + (IF w.op = "inc" THEN 1 ELSE 0)
<1> DEFINE t == docs[k]
           doc == IF id \in DOMAIN t THEN t[id] ELSE [u |-> w.u, n |-> 0]
           a == After(k, w, id)
<1>1. id \in Id /\ w.u \in Field /\ w.op \in {"insert", "inc", "set", "replace", "delete", "read"}
  BY DEF Targets, Op, TypeOK, IsContents
<1>2. IsContents(t) /\ DOMAIN t \subseteq Id /\ \A j \in DOMAIN t : t[j] \in Document
  BY DEF TypeOK, IsContents
<1>3. doc \in Document
  BY <1>1, <1>2 DEF Document
<1>4. Written(w, doc) \in Document /\
      (w.op \in {"inc", "set"} => Written(w, doc).n = doc.n + IF w.op = "inc" THEN 1 ELSE 0)
  <2> HIDE DEF doc
  <2>1. CASE w.op = "inc"
    BY <1>3, <2>1 DEF Written, Document
  <2>2. CASE w.op = "set"
    BY <1>1, <1>3, <2>2 DEF Written, Document
  <2>3. CASE w.op \notin {"inc", "set"}
    <3>1. Written(w, doc) = [u |-> w.u, n |-> 0]
      BY <2>3 DEF Written
    <3> QED BY <1>1, <2>3, <3>1 DEF Document
  <2> QED BY <2>1, <2>2, <2>3
<1>5. CASE w.op = "read"
  BY <1>1, <1>2, <1>5 DEF After, LeavesOthers
<1>6. CASE w.op = "delete"
  <2>1. a = [j \in DOMAIN t \ {id} |-> t[j]]
    BY <1>6 DEF After
  <2>2. DOMAIN a = DOMAIN t \ {id} /\ \A j \in DOMAIN a : a[j] = t[j]
    BY <2>1
  <2>3. a \in [DOMAIN a -> Document]
    BY <1>2, <2>1
  <2>4. IsContents(a)
    BY <1>2, <2>2, <2>3 DEF IsContents
  <2> QED BY <1>1, <1>6, <2>2, <2>4 DEF LeavesOthers
<1>7. CASE w.op \notin {"read", "delete"}
  <2>1. a = Put(t, id, Written(w, doc))
    BY <1>7 DEF After
  <2> HIDE DEF doc, t
  <2>2. a = [j \in DOMAIN t \cup {id} |-> IF j = id THEN Written(w, doc) ELSE t[j]]
    BY <2>1 DEF Put
  <2>3. /\ DOMAIN a = DOMAIN t \cup {id}
        /\ a[id] = Written(w, doc)
        /\ \A j \in DOMAIN t \ {id} : a[j] = t[j]
    BY <2>2
  <2>4. a \in [DOMAIN a -> Document]
    BY <1>2, <1>4, <2>2
  <2>5. IsContents(a)
    BY <1>1, <1>2, <2>3, <2>4 DEF IsContents
  <2>6. w.op \in {"inc", "set"} => a[id].n = doc.n + IF w.op = "inc" THEN 1 ELSE 0
    BY <1>4, <2>3
  <2>7. doc.n = IF id \in DOMAIN t THEN t[id].n ELSE 0
    BY DEF doc
  <2> QED BY <1>1, <1>7, <2>3, <2>5, <2>6, <2>7 DEF t, LeavesOthers
<1> QED BY <1>5, <1>6, <1>7

----------------------------------------------------------------------------
(* What a command does at the server, and what becomes of its call          *)

\* A call that inserts has only inserts left to do.
InsertsOnly ==
  \A c \in Client : call[c].method \in Inserts =>
    \A i \in DOMAIN call[c].todo : call[c].todo[i].op = "insert"

\* What a call has done are the first of its writes.
CallsInOrder ==
  \A c \in Client : call[c] # NoCall =>
    /\ Len(call[c].todo) <= call[c].total
    /\ call[c].executed = 1 .. call[c].total - Len(call[c].todo)

Kept == UNCHANGED <<docs, winners, tickets>>

\* Write w of c has found id, and has become part of the histories.
Wrote(c, k, w, id) ==
  /\ docs' = [docs EXCEPT ![k] = After(k, w, id)]
  /\ \/ w.op = "delete" /\ winners' = [winners EXCEPT ![k][id] = {}]
     \/ /\ w.op = "insert" /\ id \notin DOMAIN docs[k]
        /\ winners' = [winners EXCEPT ![k][id] = @ \cup {c}]
     \/ w.op # "delete" /\ winners' = winners
  /\ \/ w.op \in {"insert", "replace", "delete"} /\ tickets' = [tickets EXCEPT ![k][id] = <<>>]
     \/ /\ w.op = "inc"
        /\ tickets' = [tickets EXCEPT ![k][id] = Append(@, After(k, w, id)[id].n)]
     \/ w.op \in {"inc", "set", "read"} /\ tickets' = tickets

\* A result as FirstOnesAreExecuted asks for it.
InOrderResult(r) ==
  /\ \E i \in 0 .. r.total : r.executed = 1 .. i
  /\ r.err = "nil" => r.executed = 1 .. r.total

\* The call ends, after the first of its writes.
Ends(c) ==
  /\ call' = [call EXCEPT ![c] = NoCall]
  /\ \E r \in Result : InOrderResult(r) /\ result' = [result EXCEPT ![c] = r]

\* The call goes on with its next write.
GoesOn(c) ==
  /\ Len(call[c].todo) > 1
  /\ \E found \in {0, 1} :
       call' = [call EXCEPT ![c].todo = Tail(@), ![c].executed = @ \cup {Position(c)},
                            ![c].matched = @ + found]
  /\ UNCHANGED result

LEMMA CallType ==
  ASSUME TypeOK, NEW c \in Client, call[c].todo # <<>>
  PROVE  /\ call[c] \in CallState /\ call[c] # NoCall
         /\ Len(call[c].todo) \in Nat \ {0}
         /\ Head(call[c].todo) \in Op /\ Tail(call[c].todo) \in Seq(Op)
         /\ Head(call[c].todo) = call[c].todo[1] /\ 1 \in DOMAIN call[c].todo
<1>1. call[c] \in CallState /\ call[c] # NoCall
  BY DEF TypeOK, NoCall
<1>2. call[c].todo \in Seq(Op)
  BY <1>1 DEF CallState
<1>3. Len(call[c].todo) \in Nat \ {0}
  BY <1>2, EmptySeq
<1>4. Head(call[c].todo) \in Op /\ Tail(call[c].todo) \in Seq(Op)
  BY <1>2, HeadTailProperties
<1>5. Head(call[c].todo) = call[c].todo[1] /\ 1 \in DOMAIN call[c].todo
  BY <1>2, <1>3
<1> QED BY <1>1, <1>3, <1>4, <1>5

\* Up to the write it is at, or without it, a call has done its first writes.
LEMMA InOrder ==
  ASSUME TypeOK, CallsInOrder, NEW c \in Client, call[c].todo # <<>>
  PROVE  /\ Position(c) \in 1 .. call[c].total
         /\ call[c].executed = 1 .. Position(c) - 1
         /\ call[c].executed \cup {Position(c)} = 1 .. Position(c)
         /\ {} = 1 .. 0
<1> DEFINE n == Len(call[c].todo)
           p == call[c].total - n + 1
<1>1. n \in Nat \ {0} /\ call[c].total \in Nat
  BY CallType DEF CallState
<1>2. n <= call[c].total /\ call[c].executed = 1 .. call[c].total - n
  BY CallType DEF CallsInOrder
<1>3. Position(c) = p
  BY DEF Position
<1> HIDE DEF n
<1>4. p \in 1 .. call[c].total /\ p - 1 = call[c].total - n
  BY <1>1, <1>2
<1>5. 1 .. (p - 1) \cup {p} = 1 .. p
  BY <1>4
<1> QED BY <1>2, <1>3, <1>4, <1>5

LEMMA ReturnEnds ==
  ASSUME TypeOK, CallsInOrder, NEW c \in Client, call[c].todo # <<>>,
         NEW err \in {"nil", "ErrNotFound", "ErrDuplicateKey", "other"},
         NEW executed \in {call[c].executed, call[c].executed \cup {Position(c)}},
         err = "nil" => /\ Len(call[c].todo) <= 1
                        /\ executed = call[c].executed \cup {Position(c)},
         Return(c, err, executed)
  PROVE  Ends(c)
<1> DEFINE r == [err |-> err, executed |-> executed, total |-> call[c].total]
<1>0. Position(c) \in 1 .. call[c].total /\ call[c].total \in Nat
  BY InOrder, CallType DEF CallState
<1>1. \E i \in 0 .. call[c].total : executed = 1 .. i
  <2>1. {Position(c) - 1, Position(c)} \subseteq 0 .. call[c].total
    BY <1>0
  <2> QED BY <2>1, InOrder
<1>2. err = "nil" => executed = 1 .. call[c].total
  <2>1. Len(call[c].todo) <= 1 => Position(c) = call[c].total
    BY <1>0, CallType DEF Position
  <2> QED BY <2>1, InOrder
<1>3. r \in Result
  <2>1. executed \in SUBSET Nat
    BY <1>0, <1>1
  <2> QED BY <1>0, <2>1 DEF Result
<1>4. InOrderResult(r)
  BY <1>1, <1>2 DEF InOrderResult
<1>5. call' = [call EXCEPT ![c] = NoCall] /\ result' = [result EXCEPT ![c] = r]
  BY DEF Return
<1> HIDE DEF r
<1> QED BY <1>3, <1>4, <1>5 DEF Ends

LEMMA ServerStep ==
  ASSUME TypeOK, CallsInOrder, InsertsOnly, NEW c \in Client, Execute(c) \/ Lose(c)
  PROVE  /\ call[c].todo # <<>>
         /\ Kept \/ \E k \in Collection, w \in Op : \E id \in Targets(k, w) : Wrote(c, k, w, id)
         /\ Ends(c) \/ GoesOn(c)
<1> DEFINE k == call[c].coll
           w == Head(call[c].todo)
<1>1. call[c].todo # <<>> /\ k \in Collection /\ w \in Op
      /\ call[c].method \in MethodName
      /\ (call[c].method \in Inserts => w.op = "insert")
  <2>1. call[c].todo # <<>>
    BY DEF Execute, Lose
  <2> QED BY <2>1, CallType DEF CallState, MethodName, InsertsOnly
<1>2. w.op \in {"insert", "inc", "set", "replace", "delete", "read"}
  BY <1>1 DEF Op
<1>3. \A found \in {0, 1} : Continues(c, found) => Ends(c) \/ GoesOn(c)
  <2> SUFFICES ASSUME NEW found \in {0, 1}, Continues(c, found) PROVE Ends(c) \/ GoesOn(c)
    OBVIOUS
  <2>1. CASE Len(call[c].todo) > 1
    BY <2>1 DEF Continues, GoesOn
  <2>2. CASE ~(Len(call[c].todo) > 1)
    <3>1. \/ Return(c, "ErrNotFound", call[c].executed \cup {Position(c)})
          \/ Return(c, "nil", call[c].executed \cup {Position(c)})
      BY <2>2 DEF Continues
    <3>2. Len(call[c].todo) <= 1
      BY <1>1, <2>2, CallType
    <3> QED BY <1>1, <3>1, <3>2, ReturnEnds
  <2> QED BY <2>1, <2>2
<1>4. CASE Execute(c)
  <2>1. CASE Targets(k, w) = {}
    BY <1>1, <1>3, <1>4, <2>1 DEF Execute, Kept
  <2>2. CASE Targets(k, w) # {}
    <3>1. PICK id \in Targets(k, w) :
            IF Duplicate(k, w, id) THEN Fails(c) /\ UNCHANGED <<docs, winners, tickets>>
            ELSE Recorded(c, k, w, id) /\ Continues(c, 1)
      BY <1>4, <2>2 DEF Execute
    <3>2. CASE Duplicate(k, w, id)
      BY <1>1, <3>1, <3>2, ReturnEnds DEF Fails, Kept
    <3>3. CASE ~Duplicate(k, w, id)
      <4>1. Recorded(c, k, w, id) /\ Continues(c, 1)
        BY <3>1, <3>3
      <4>2. w.op = "insert" => id \notin DOMAIN docs[k]
        BY <3>3 DEF Duplicate
      <4>3. Wrote(c, k, w, id)
        <5> HIDE DEF k, w
        <5>1. /\ docs' = [docs EXCEPT ![k] = After(k, w, id)]
              /\ winners' = [winners EXCEPT ![k][id] =
                   IF w.op = "delete" THEN {}
                   ELSE IF call[c].method \in Inserts THEN @ \cup {c} ELSE @]
              /\ tickets' = [tickets EXCEPT ![k][id] =
                   IF w.op \in {"insert", "replace", "delete"} THEN <<>>
                   ELSE IF call[c].method = "FindOneAndUpdate" /\ w.op = "inc"
                   THEN Append(@, IF w.op \in {"read", "delete"} THEN 0 ELSE After(k, w, id)[id].n)
                   ELSE @]
          BY <4>1 DEF Recorded, Inserts
        <5>2. [winners EXCEPT ![k][id] = @] = winners /\ [tickets EXCEPT ![k][id] = @] = tickets
          BY DEF TypeOK
        <5>3. \/ w.op = "delete" /\ winners' = [winners EXCEPT ![k][id] = {}]
              \/ /\ w.op = "insert" /\ id \notin DOMAIN docs[k]
                 /\ winners' = [winners EXCEPT ![k][id] = @ \cup {c}]
              \/ w.op # "delete" /\ winners' = winners
          BY <1>1, <4>2, <5>1, <5>2
        <5>4. \/ w.op \in {"insert", "replace", "delete"} /\ tickets' = [tickets EXCEPT ![k][id] = <<>>]
              \/ /\ w.op = "inc"
                 /\ tickets' = [tickets EXCEPT ![k][id] = Append(@, After(k, w, id)[id].n)]
              \/ w.op \in {"inc", "set", "read"} /\ tickets' = tickets
          BY <1>2, <5>1, <5>2
        <5> QED BY <5>1, <5>3, <5>4 DEF Wrote
      <4> QED BY <1>1, <1>3, <4>1, <4>3
    <3> QED BY <3>2, <3>3
  <2> QED BY <2>1, <2>2
<1>5. CASE Lose(c)
  <2>1. CASE UNCHANGED <<docs, winners, tickets>> /\ Return(c, "other", call[c].executed)
    BY <1>1, <2>1, ReturnEnds DEF Kept
  <2>2. ASSUME NEW id \in Targets(k, w),
               /\ docs' = [docs EXCEPT ![k] = After(k, w, id)]
               /\ winners' = [winners EXCEPT ![k][id] = IF w.op = "delete" THEN {} ELSE @]
               /\ tickets' = [tickets EXCEPT ![k][id] =
                    IF w.op \in {"insert", "replace", "delete"} THEN <<>> ELSE @]
               /\ Return(c, "other", call[c].executed \cup {Position(c)})
        PROVE  Wrote(c, k, w, id) /\ Ends(c)
    <3>1. Ends(c)
      BY <1>1, <2>2, ReturnEnds
    <3>2. Wrote(c, k, w, id)
      <4> HIDE DEF k, w
      <4>1. [winners EXCEPT ![k][id] = @] = winners /\ [tickets EXCEPT ![k][id] = @] = tickets
        BY DEF TypeOK
      <4> QED BY <1>2, <2>2, <4>1 DEF Wrote
    <3> QED BY <3>1, <3>2
  <2> QED BY <1>1, <1>5, <2>1, <2>2 DEF Lose
<1> QED BY <1>1, <1>4, <1>5

----------------------------------------------------------------------------
(* The invariants                                                           *)

IInv == TypeOK /\ CallsInOrder /\ InsertsOnly /\ FirstOnesAreExecuted

LEMMA NoCallIsNone ==
  /\ NoCall.todo = <<>> /\ NoCall.method = None
  /\ \A i \in DOMAIN NoCall.todo : FALSE
BY DEF NoCall

LEMMA NothingExecuted ==
  \A err \in {None, "nil", "other"} :
    /\ [NoResult EXCEPT !.err = err] \in Result
    /\ InOrderResult([NoResult EXCEPT !.err = err])
    /\ InOrderResult(NoResult)
<1> TAKE err \in {None, "nil", "other"}
<1> DEFINE r == [err |-> err, executed |-> {}, total |-> 0]
<1>1. r = [NoResult EXCEPT !.err = err] /\ NoResult = [err |-> None, executed |-> {}, total |-> 0]
  BY DEF NoResult
<1>2. {} = 1 .. 0 /\ 0 \in 0 .. 0
  OBVIOUS
<1>3. r \in Result
  BY DEF Result
<1> QED BY <1>1, <1>2, <1>3 DEF InOrderResult

LEMMA InOrderResults == FirstOnesAreExecuted <=> \A c \in Client : InOrderResult(result[c])
BY DEF FirstOnesAreExecuted, InOrderResult

LEMMA InitInv == Init => IInv
<1> SUFFICES ASSUME Init PROVE IInv
  OBVIOUS
<1> USE MongoAssumption
<1>1. TypeOK
  <2>1. result \in [Client -> Result]
    BY DEF Init, NoResult, Result
  <2>2. DOMAIN docs = Collection /\ \A k \in Collection : IsContents(docs[k])
    BY DEF Init
  <2>3. prefix \in [Client -> Prefix] /\ call \in [Client -> CallState \cup {NoCall}]
        /\ unique \subseteq Collection
    BY DEF Init
  <2>4. winners \in [Collection -> [Id -> SUBSET Client]]
    BY DEF Init
  <2>5. tickets \in [Collection -> [Id -> Seq(Nat)]]
    BY DEF Init
  <2>6. calls \in 0 .. MaxCalls /\ lost \in 0 .. MaxLost
    BY DEF Init
  <2> QED BY <2>1, <2>2, <2>3, <2>4, <2>5, <2>6 DEF TypeOK
<1>2. CallsInOrder /\ InsertsOnly
  BY NoCallIsNone DEF Init, CallsInOrder, InsertsOnly
<1>3. FirstOnesAreExecuted
  BY NothingExecuted, InOrderResults DEF Init
<1> QED BY <1>1, <1>2, <1>3 DEF IInv

\* The state of the calls after a method has begun.
LEMMA BeginStep ==
  ASSUME IInv, NEW c \in Client, NEW name \in Name, Asks(c, name)
  PROVE  IInv'
<1>1. PICK method \in MethodName, todo \in Seq(Op) :
        /\ Begin(c, name, method, todo)
        /\ method \in Inserts => \A i \in DOMAIN todo : todo[i].op = "insert"
  BY DEF Asks
<1> DEFINE new == [NoCall EXCEPT !.method = method, !.coll = BuildName(prefix[c], name),
                                 !.todo = todo, !.total = Len(todo)]
<1>2. call' = [call EXCEPT ![c] = new]
  BY <1>1 DEF Begin
<1>9. new.method = method /\ new.todo = todo /\ new.total = Len(todo) /\ new.executed = {}
  BY DEF NoCall
<1>3. new \in CallState
  <2>1. prefix[c] \in Prefix
    BY DEF IInv, TypeOK
  <2>2. BuildName(prefix[c], name) \in Collection
    BY <2>1 DEF Collection
  <2>3. Len(todo) \in Nat
    OBVIOUS
  <2> QED BY <2>2, <2>3 DEF CallState, MethodName, NoCall
<1> HIDE DEF new
<1>4. TypeOK'
  <2>1. call' \in [Client -> CallState \cup {NoCall}]
    BY <1>2, <1>3 DEF IInv, TypeOK
  <2>2. result' \in [Client -> Result]
    BY <1>1 DEF Begin, IInv, TypeOK, NoResult, Result
  <2>3. calls' \in 0 .. MaxCalls
    BY <1>1, MongoAssumption DEF Begin, IInv, TypeOK
  <2> QED BY <1>1, <2>1, <2>2, <2>3 DEF Begin, IInv, TypeOK
<1>5. \A d \in Client : call'[d] = IF d = c THEN new ELSE call[d]
  BY <1>2 DEF IInv, TypeOK
<1>6. CallsInOrder'
  <2>1. new.executed = 1 .. new.total - Len(new.todo) /\ Len(new.todo) <= new.total
    <3>1. Len(todo) \in Nat
      OBVIOUS
    <3>2. {} = 1 .. Len(todo) - Len(todo) /\ Len(todo) <= Len(todo)
      BY <3>1
    <3> QED BY <1>9, <3>2
  <2> QED BY <1>5, <2>1 DEF IInv, CallsInOrder
<1>7. InsertsOnly'
  BY <1>1, <1>5, <1>9 DEF IInv, InsertsOnly
<1>8. FirstOnesAreExecuted'
  <2>1. result' = [result EXCEPT ![c] = NoResult]
    BY <1>1 DEF Begin
  <2>2. \A d \in Client : result'[d] = IF d = c THEN NoResult ELSE result[d]
    BY <2>1 DEF IInv, TypeOK
  <2>3. \A d \in Client : InOrderResult(result'[d])
    BY <2>2, NothingExecuted, InOrderResults DEF IInv
  <2> QED BY <2>3 DEF FirstOnesAreExecuted, InOrderResult
<1> QED BY <1>4, <1>6, <1>7, <1>8 DEF IInv

LEMMA TwoLevels ==
  ASSUME NEW A, NEW B, NEW S, NEW f \in [A -> [B -> S]], NEW a \in A, NEW b \in B, NEW v \in S
  PROVE  /\ [f EXCEPT ![a][b] = v] \in [A -> [B -> S]]
         /\ \A x \in A, y \in B :
              [f EXCEPT ![a][b] = v][x][y] = IF x = a /\ y = b THEN v ELSE f[x][y]
<1>1. [f[a] EXCEPT ![b] = v] \in [B -> S]
  OBVIOUS
<1> QED BY <1>1

LEMMA WroteType ==
  ASSUME TypeOK, NEW c \in Client, NEW k \in Collection, NEW w \in Op, NEW id \in Targets(k, w),
         Wrote(c, k, w, id)
  PROVE  /\ DOMAIN docs' = Collection /\ \A l \in Collection : IsContents(docs'[l])
         /\ winners' \in [Collection -> [Id -> SUBSET Client]]
         /\ tickets' \in [Collection -> [Id -> Seq(Nat)]]
<1>1. id \in Id /\ IsContents(After(k, w, id))
  BY AfterType
<1>2. DOMAIN docs' = Collection /\ \A l \in Collection : IsContents(docs'[l])
  <2>1. docs' = [docs EXCEPT ![k] = After(k, w, id)]
    BY DEF Wrote
  <2>2. DOMAIN docs' = Collection
        /\ \A l \in Collection : docs'[l] = IF l = k THEN After(k, w, id) ELSE docs[l]
    BY <2>1 DEF TypeOK
  <2>3. ASSUME NEW l \in Collection PROVE IsContents(docs'[l])
    BY <1>1, <2>2 DEF TypeOK
  <2> QED BY <2>2, <2>3
<1>3. winners' \in [Collection -> [Id -> SUBSET Client]]
  <2>1. winners \in [Collection -> [Id -> SUBSET Client]]
    BY DEF TypeOK
  <2>2. winners[k][id] \cup {c} \in SUBSET Client /\ {} \in SUBSET Client
    BY <1>1, <2>1
  <2>3. /\ [winners EXCEPT ![k][id] = {}] \in [Collection -> [Id -> SUBSET Client]]
        /\ [winners EXCEPT ![k][id] = @ \cup {c}] \in [Collection -> [Id -> SUBSET Client]]
    BY <1>1, <2>1, <2>2, TwoLevels
  <2> QED BY <2>1, <2>3 DEF Wrote
<1>4. tickets' \in [Collection -> [Id -> Seq(Nat)]]
  <2>0. <<>> \in Seq(Nat) /\ tickets \in [Collection -> [Id -> Seq(Nat)]]
    BY DEF TypeOK
  <2>1. CASE tickets' = [tickets EXCEPT ![k][id] = <<>>]
    BY <1>1, <2>0, <2>1, TwoLevels
  <2>3. CASE tickets' = tickets
    BY <2>0, <2>3
  <2>2. CASE w.op = "inc" /\ tickets' = [tickets EXCEPT ![k][id] = Append(@, After(k, w, id)[id].n)]
    <3>0. w.op \notin {"read", "delete"}
      BY <2>2
    <3>4. DOMAIN After(k, w, id) = DOMAIN docs[k] \cup {id}
      BY <3>0, AfterType
    <3>1. id \in DOMAIN After(k, w, id)
      BY <3>4
    <3>2. After(k, w, id)[id].n \in Nat
      BY <1>1, <3>1 DEF IsContents, Document
    <3>3. Append(tickets[k][id], After(k, w, id)[id].n) \in Seq(Nat)
      BY <1>1, <3>2, AppendProperties DEF TypeOK
    <3> QED BY <1>1, <2>0, <2>2, <3>3, TwoLevels
  <2> QED BY <2>1, <2>2, <2>3 DEF Wrote
<1> QED BY <1>2, <1>3, <1>4

LEMMA ServerInv ==
  ASSUME IInv, NEW c \in Client, Execute(c) \/ Lose(c)
  PROVE  IInv'
<1>1. /\ call[c].todo # <<>>
      /\ Kept \/ \E k \in Collection, w \in Op : \E id \in Targets(k, w) : Wrote(c, k, w, id)
      /\ Ends(c) \/ GoesOn(c)
  BY ServerStep DEF IInv
<1>2. TypeOK /\ CallsInOrder /\ InsertsOnly /\ FirstOnesAreExecuted
  BY DEF IInv
<1>3. /\ DOMAIN docs' = Collection /\ \A l \in Collection : IsContents(docs'[l])
      /\ winners' \in [Collection -> [Id -> SUBSET Client]]
      /\ tickets' \in [Collection -> [Id -> Seq(Nat)]]
  <2>1. CASE Kept
    BY <1>2, <2>1 DEF Kept, TypeOK
  <2> QED BY <1>1, <1>2, <2>1, WroteType
<1>4. prefix' \in [Client -> Prefix] /\ unique' \subseteq Collection
      /\ calls' \in 0 .. MaxCalls /\ lost' \in 0 .. MaxLost
  BY <1>2, MongoAssumption DEF Execute, Lose, TypeOK
<1>5. CASE Ends(c)
  <2>1. PICK r \in Result : InOrderResult(r) /\ result' = [result EXCEPT ![c] = r]
    BY <1>5 DEF Ends
  <2>4. result' \in [Client -> Result]
    BY <1>2, <2>1 DEF TypeOK
  <2>5. call' \in [Client -> CallState \cup {NoCall}]
    BY <1>2, <1>5 DEF Ends, TypeOK
  <2>6. \A d \in Client : call'[d] = IF d = c THEN NoCall ELSE call[d]
    BY <1>2, <1>5 DEF Ends, TypeOK
  <2>7. CallsInOrder' /\ InsertsOnly'
    BY <1>2, <2>6, NoCallIsNone DEF CallsInOrder, InsertsOnly
  <2>8. FirstOnesAreExecuted'
    <3>1. \A d \in Client : result'[d] = IF d = c THEN r ELSE result[d]
      BY <1>2, <2>1 DEF TypeOK
    <3>2. \A d \in Client : InOrderResult(result'[d])
      BY <1>2, <2>1, <3>1, InOrderResults
    <3> QED BY <3>2 DEF FirstOnesAreExecuted, InOrderResult
  <2> QED BY <1>3, <1>4, <2>4, <2>5, <2>7, <2>8 DEF IInv, TypeOK
<1>6. CASE GoesOn(c)
  <2>1. PICK found \in {0, 1} :
          call' = [call EXCEPT ![c].todo = Tail(@), ![c].executed = @ \cup {Position(c)},
                               ![c].matched = @ + found]
    BY <1>6 DEF GoesOn
  <2> DEFINE todo == call[c].todo
  <2>2. call[c] \in CallState /\ todo \in Seq(Op) /\ todo # <<>> /\ call[c].total \in Nat
        /\ call[c].matched \in Nat /\ call[c].executed \in SUBSET Nat
    BY <1>1, <1>2, CallType DEF CallState
  <2>3. /\ Tail(todo) \in Seq(Op) /\ Len(Tail(todo)) = Len(todo) - 1
        /\ \A i \in 1 .. Len(Tail(todo)) : Tail(todo)[i] = todo[i + 1]
    BY <2>2, HeadTailProperties
  <2>4. Position(c) \in 1 .. call[c].total /\ call[c].executed \cup {Position(c)} = 1 .. Position(c)
    BY <1>1, <1>2, InOrder
  <2> DEFINE new == [call[c] EXCEPT !.todo = Tail(@), !.executed = @ \cup {Position(c)},
                                    !.matched = @ + found]
  <2>5. new \in CallState
    <3>1. call[c].executed \cup {Position(c)} \in SUBSET Nat
      BY <2>2, <2>4
    <3>2. call[c].matched + found \in Nat
      BY <2>2
    <3> QED BY <2>2, <2>3, <3>1, <3>2 DEF CallState
  <2>6. /\ new.todo = Tail(todo) /\ new.total = call[c].total /\ new.method = call[c].method
        /\ new.executed = 1 .. Position(c)
    BY <2>2, <2>4 DEF CallState
  <2>7. call' = [call EXCEPT ![c] = new]
    BY <1>2, <2>1 DEF TypeOK
  <2> HIDE DEF new
  <2>8. \A d \in Client : call'[d] = IF d = c THEN new ELSE call[d]
    BY <1>2, <2>7 DEF TypeOK
  <2>9. call' \in [Client -> CallState \cup {NoCall}]
    BY <1>2, <2>5, <2>7 DEF TypeOK
  <2>10. Len(new.todo) <= new.total /\ new.executed = 1 .. new.total - Len(new.todo)
    <3>1. Len(todo) \in Nat /\ Len(new.todo) = Len(todo) - 1
      BY <2>2, <2>3, <2>6
    <3>2. Position(c) = call[c].total - Len(todo) + 1
      BY DEF Position
    <3>3. call[c].total - Len(todo) + 1 = call[c].total - (Len(todo) - 1)
      BY <2>2, <3>1
    <3>4. Len(todo) - 1 <= call[c].total
      <4>1. call[c].total - Len(todo) + 1 >= 1
        BY <2>4, <3>2
      <4> QED BY <2>2, <3>1, <4>1
    <3> QED BY <2>6, <3>1, <3>2, <3>3, <3>4
  <2>11. CallsInOrder'
    BY <1>2, <2>8, <2>10 DEF CallsInOrder
  <2>12. InsertsOnly'
    <3>1. DOMAIN new.todo = 1 .. Len(Tail(todo))
      BY <2>3, <2>6
    <3>2. \A i \in 1 .. Len(Tail(todo)) : i + 1 \in DOMAIN todo
      BY <2>2, <2>3
    <3>3. new.method \in Inserts => \A i \in DOMAIN new.todo : new.todo[i].op = "insert"
      <4> SUFFICES ASSUME call[c].method \in Inserts, NEW i \in 1 .. Len(Tail(todo))
                   PROVE  Tail(todo)[i].op = "insert"
        BY <2>6, <3>1
      <4> QED BY <1>2, <2>3, <3>2 DEF InsertsOnly
    <3> QED BY <1>2, <2>8, <3>3 DEF InsertsOnly
  <2>13. UNCHANGED result
    BY <1>6 DEF GoesOn
  <2>14. FirstOnesAreExecuted'
    BY <1>2, <2>13 DEF FirstOnesAreExecuted
  <2> QED BY <1>2, <1>3, <1>4, <2>9, <2>11, <2>12, <2>13, <2>14 DEF IInv, TypeOK
<1> QED BY <1>1, <1>5, <1>6

\* A collection is dropped, and with it the histories of its documents.
Drops(k) ==
  /\ docs' = [docs EXCEPT ![k] = <<>>]
  /\ winners' = [winners EXCEPT ![k] = [id \in Id |-> {}]]
  /\ tickets' = [tickets EXCEPT ![k] = [id \in Id |-> <<>>]]

\* What a step may do to the documents and their histories.
LEMMA StepCases ==
  ASSUME IInv, [Next]_vars
  PROVE  \/ Kept
         \/ \E c \in Client, k \in Collection, w \in Op : \E id \in Targets(k, w) : Wrote(c, k, w, id)
         \/ \E k \in Collection : Drops(k)
<1>1. CASE UNCHANGED vars
  BY <1>1 DEF vars, Kept
<1>2. ASSUME NEW c \in Client, NEW name \in Name, Methods(c, name)
      PROVE  Kept \/ \E k \in Collection : Drops(k)
  <2>1. CASE Asks(c, name)
    BY <2>1 DEF Asks, Begin, Kept
  <2>2. CASE CreateIndex(c, name) \/ DropIndex(c, name) \/ AsksNothing(c)
    BY <2>2 DEF CreateIndex, DropIndex, Command, AsksNothing, Kept
  <2>3. CASE DropCollection(c, name)
    <3>1. BuildName(prefix[c], name) \in Collection
      BY DEF IInv, TypeOK, Collection
    <3> QED BY <2>3, <3>1 DEF DropCollection, Command, Drops, Kept
  <2> QED BY <1>2, <2>1, <2>2, <2>3, MethodStep
<1>3. ASSUME NEW c \in Client, SetConfig(c)
      PROVE  Kept
  BY <1>3 DEF SetConfig, Kept
<1> QED BY <1>1, <1>2, <1>3, ServerStep DEF Next, IInv

LEMMA InvStep == IInv /\ [Next]_vars => IInv'
<1> SUFFICES ASSUME IInv, [Next]_vars PROVE IInv'
  OBVIOUS
<1>0. TypeOK /\ CallsInOrder /\ InsertsOnly /\ FirstOnesAreExecuted
  BY DEF IInv
<1>1. ASSUME UNCHANGED <<call, result>>, TypeOK' PROVE IInv'
  BY <1>0, <1>1 DEF IInv, CallsInOrder, InsertsOnly, FirstOnesAreExecuted
<1>2. CASE UNCHANGED vars
  <2>1. TypeOK'
    BY <1>0, <1>2 DEF vars, TypeOK
  <2> QED BY <1>1, <1>2, <2>1 DEF vars
<1>3. ASSUME NEW c \in Client, NEW name \in Name, Methods(c, name)
      PROVE  IInv'
  <2> DEFINE k == BuildName(prefix[c], name)
  <2>0. k \in Collection
    BY <1>0 DEF TypeOK, Collection
  <2>1. ASSUME Admin(c), Answer(c, "nil") \/ Answer(c, "other"),
               DOMAIN docs' = Collection /\ \A l \in Collection : IsContents(docs'[l]),
               unique' \subseteq Collection,
               winners' \in [Collection -> [Id -> SUBSET Client]],
               tickets' \in [Collection -> [Id -> Seq(Nat)]],
               UNCHANGED lost \/ (lost > 0 /\ lost' = lost - 1)
        PROVE  IInv'
    <3>1. UNCHANGED <<prefix, call>> /\ calls' \in 0 .. MaxCalls /\ lost' \in 0 .. MaxLost
      BY <1>0, <2>1, MongoAssumption DEF Admin, TypeOK
    <3>2. PICK err \in {"nil", "other"} : result' = [result EXCEPT ![c] = [NoResult EXCEPT !.err = err]]
      BY <2>1 DEF Answer
    <3> DEFINE r == [NoResult EXCEPT !.err = err]
    <3>3. r \in Result /\ InOrderResult(r)
      BY NothingExecuted
    <3> HIDE DEF r
    <3>4. result' \in [Client -> Result]
      BY <1>0, <3>2, <3>3 DEF TypeOK, r
    <3>5. \A d \in Client : result'[d] = IF d = c THEN r ELSE result[d]
      BY <1>0, <3>2 DEF TypeOK, r
    <3>6. \A d \in Client : InOrderResult(result'[d])
      BY <1>0, <3>3, <3>5, InOrderResults
    <3>7. FirstOnesAreExecuted'
      BY <3>6 DEF FirstOnesAreExecuted, InOrderResult
    <3> QED BY <1>0, <2>1, <3>1, <3>4, <3>7 DEF IInv, TypeOK, CallsInOrder, InsertsOnly
  <2>2. CASE Asks(c, name)
    BY <2>2, BeginStep
  <2>3. CASE CreateIndex(c, name) \/ DropIndex(c, name) \/ AsksNothing(c)
    <3>1. Admin(c) /\ (Answer(c, "nil") \/ Answer(c, "other"))
      BY <2>3 DEF CreateIndex, DropIndex, Command, AsksNothing
    <3>2. UNCHANGED <<docs, winners, tickets>> /\ unique' \in {unique, unique \cup {k}, unique \ {k}}
      BY <2>3 DEF CreateIndex, DropIndex, Command, AsksNothing
    <3>3. UNCHANGED lost \/ (lost > 0 /\ lost' = lost - 1)
      BY <2>3 DEF CreateIndex, DropIndex, Command, AsksNothing
    <3> QED BY <1>0, <2>0, <2>1, <3>1, <3>2, <3>3 DEF TypeOK
  <2>4. CASE DropCollection(c, name)
    <3>1. IsContents(<<>>)
      <4>1. DOMAIN <<>> = {} /\ <<>> \in [{} -> Document]
        OBVIOUS
      <4> QED BY <4>1 DEF IsContents
    <3>2. Admin(c) /\ (Answer(c, "nil") \/ Answer(c, "other"))
      BY <2>4 DEF DropCollection, Command
    <3>3. UNCHANGED lost \/ (lost > 0 /\ lost' = lost - 1)
      BY <2>4 DEF DropCollection, Command
    <3>4. CASE UNCHANGED <<docs, unique, winners, tickets>>
      BY <1>0, <2>1, <3>2, <3>3, <3>4 DEF TypeOK
    <3>5. CASE Drops(k) /\ unique' = unique \ {k}
      <4>1. docs' = [docs EXCEPT ![k] = <<>>]
        BY <3>5 DEF Drops
      <4>2. DOMAIN docs' = Collection /\ \A l \in Collection : docs'[l] = IF l = k THEN <<>> ELSE docs[l]
        BY <1>0, <2>0, <4>1 DEF TypeOK
      <4>3. \A l \in Collection : IsContents(docs'[l])
        BY <1>0, <3>1, <4>2 DEF TypeOK
      <4>4. winners' \in [Collection -> [Id -> SUBSET Client]]
        BY <1>0, <2>0, <3>5 DEF Drops, TypeOK
      <4>5. tickets' \in [Collection -> [Id -> Seq(Nat)]]
        <5>1. [id \in Id |-> <<>>] \in [Id -> Seq(Nat)]
          OBVIOUS
        <5> QED BY <1>0, <2>0, <3>5, <5>1 DEF Drops, TypeOK
      <4>6. unique' \subseteq Collection
        BY <1>0, <3>5 DEF TypeOK
      <4> QED BY <2>1, <3>2, <3>3, <4>2, <4>3, <4>4, <4>5, <4>6
    <3> QED BY <2>4, <3>4, <3>5 DEF DropCollection, Command, Drops
  <2> QED BY <1>3, <2>2, <2>3, <2>4, MethodStep
<1>4. ASSUME NEW c \in Client, SetConfig(c)
      PROVE  IInv'
  <2>1. UNCHANGED <<call, result>> /\ TypeOK'
    BY <1>0, <1>4 DEF SetConfig, TypeOK
  <2> QED BY <1>1, <2>1
<1> QED BY <1>2, <1>3, <1>4, ServerInv DEF Next

LEMMA Invariance == Spec => []IInv
<1> QED BY InitInv, InvStep, PTL DEF Spec

\* The calls, the results and the collections have their types, whatever the
\* methods and the server do.
THEOREM TypeCorrect == Spec => []TypeOK
<1>1. IInv => TypeOK
  BY DEF IInv
<1> QED BY <1>1, Invariance, PTL

\* The writes of an InsertMany or of any BulkWrite that were executed, with effect or
\* on no document, are the first ones of the list, also when an error is all that is
\* returned (lines 102 and 441); without an error they are all of them.
THEOREM FirstWritesAreExecuted == Spec => []FirstOnesAreExecuted
<1>1. IInv => FirstOnesAreExecuted
  BY DEF IInv
<1> QED BY <1>1, Invariance, PTL

----------------------------------------------------------------------------
(* The histories of a document                                              *)

LEMMA WroteEffect ==
  ASSUME TypeOK, NEW c \in Client, NEW k \in Collection, NEW w \in Op, NEW id \in Targets(k, w),
         Wrote(c, k, w, id)
  PROVE  /\ id \in Id
         /\ \A l \in Collection, j \in Id : l # k \/ j # id =>
              /\ j \in DOMAIN docs'[l] <=> j \in DOMAIN docs[l]
              /\ j \in DOMAIN docs[l] => docs'[l][j] = docs[l][j]
              /\ winners'[l][j] = winners[l][j]
              /\ tickets'[l][j] = tickets[l][j]
         /\ docs'[k] = After(k, w, id)
         /\ w.op # "delete" /\ id \in DOMAIN docs[k] => id \in DOMAIN docs'[k]
         /\ \/ winners'[k][id] = {}
            \/ /\ id \notin DOMAIN docs[k] /\ id \in DOMAIN docs'[k]
               /\ winners'[k][id] = winners[k][id] \cup {c}
            \/ w.op # "delete" /\ winners'[k][id] = winners[k][id]
         /\ \/ tickets'[k][id] = <<>>
            \/ w.op = "inc" /\ tickets'[k][id] = Append(tickets[k][id], After(k, w, id)[id].n)
            \/ w.op \in {"inc", "set", "read"} /\ tickets'[k][id] = tickets[k][id]
<1> DEFINE a == After(k, w, id)
<1>1. /\ id \in Id
      /\ w.op = "read" => a = docs[k]
      /\ w.op = "delete" => DOMAIN a = DOMAIN docs[k] \ {id}
      /\ w.op \notin {"read", "delete"} => DOMAIN a = DOMAIN docs[k] \cup {id}
      /\ \A j \in DOMAIN docs[k] \ {id} : a[j] = docs[k][j]
  <2>1. id \in Id /\ (w.op = "read" => a = docs[k])
    BY AfterType
  <2>2. w.op = "delete" => DOMAIN a = DOMAIN docs[k] \ {id}
    BY AfterType
  <2>3. w.op \notin {"read", "delete"} => DOMAIN a = DOMAIN docs[k] \cup {id}
    BY AfterType
  <2>4. LeavesOthers(k, w, id)
    BY AfterType
  <2> QED BY <2>1, <2>2, <2>3, <2>4 DEF LeavesOthers
<1>2. \A l \in Collection : docs'[l] = IF l = k THEN a ELSE docs[l]
  BY DEF Wrote, TypeOK
<1> HIDE DEF a
<1>3. /\ w.op # "delete" /\ id \in DOMAIN docs[k] => id \in DOMAIN a
      /\ \A j \in Id \ {id} : j \in DOMAIN a <=> j \in DOMAIN docs[k]
  BY <1>1
<1>4. \A l \in Collection, j \in Id : l # k \/ j # id =>
        /\ j \in DOMAIN docs'[l] <=> j \in DOMAIN docs[l]
        /\ j \in DOMAIN docs[l] => docs'[l][j] = docs[l][j]
  BY <1>1, <1>2, <1>3
<1>5. /\ \A l \in Collection, j \in Id : l # k \/ j # id => winners'[l][j] = winners[l][j]
      /\ \/ winners'[k][id] = {}
         \/ /\ w.op = "insert" /\ id \notin DOMAIN docs[k]
            /\ winners'[k][id] = winners[k][id] \cup {c}
         \/ w.op # "delete" /\ winners'[k][id] = winners[k][id]
  <2>1. winners \in [Collection -> [Id -> SUBSET Client]]
        /\ {} \in SUBSET Client /\ winners[k][id] \cup {c} \in SUBSET Client
    BY <1>1 DEF TypeOK
  <2>2. CASE w.op = "delete" /\ winners' = [winners EXCEPT ![k][id] = {}]
    BY <1>1, <2>1, <2>2, TwoLevels
  <2>3. CASE w.op = "insert" /\ id \notin DOMAIN docs[k]
             /\ winners' = [winners EXCEPT ![k][id] = @ \cup {c}]
    BY <1>1, <2>1, <2>3, TwoLevels
  <2>4. CASE w.op # "delete" /\ winners' = winners
    BY <2>4
  <2> QED BY <2>2, <2>3, <2>4 DEF Wrote
<1>6. /\ \A l \in Collection, j \in Id : l # k \/ j # id => tickets'[l][j] = tickets[l][j]
      /\ \/ tickets'[k][id] = <<>>
         \/ w.op = "inc" /\ tickets'[k][id] = Append(tickets[k][id], a[id].n)
         \/ w.op \in {"inc", "set", "read"} /\ tickets'[k][id] = tickets[k][id]
  <2>1. tickets \in [Collection -> [Id -> Seq(Nat)]] /\ <<>> \in Seq(Nat)
    BY DEF TypeOK
  <2>2. CASE w.op \in {"insert", "replace", "delete"} /\ tickets' = [tickets EXCEPT ![k][id] = <<>>]
    BY <1>1, <2>1, <2>2, TwoLevels
  <2>3. CASE w.op = "inc" /\ tickets' = [tickets EXCEPT ![k][id] = Append(@, a[id].n)]
    BY <1>1, <2>1, <2>3
  <2>4. CASE w.op \in {"inc", "set", "read"} /\ tickets' = tickets
    BY <2>4
  <2> QED BY <2>2, <2>3, <2>4 DEF Wrote, a
<1>7. w.op = "insert" => id \in DOMAIN a
  BY <1>1
<1> QED BY <1>1, <1>2, <1>3, <1>4, <1>5, <1>6, <1>7 DEF a

\* A document that is not there has no winner; one that is there has at most one.
WinnersAreThere ==
  \A k \in Collection, id \in Id :
    \/ winners[k][id] = {}
    \/ id \in DOMAIN docs[k] /\ \E c \in Client : winners[k][id] = {c}

LEMMA WinnersInit == Init => WinnersAreThere
BY DEF Init, WinnersAreThere

LEMMA WinnersStep ==
  ASSUME IInv, WinnersAreThere, [Next]_vars
  PROVE  WinnersAreThere'
<1>1. CASE Kept
  BY <1>1 DEF Kept, WinnersAreThere
<1>2. ASSUME NEW c \in Client, NEW k \in Collection, NEW w \in Op, NEW id \in Targets(k, w),
             Wrote(c, k, w, id)
      PROVE  WinnersAreThere'
  <2>0. TypeOK
    BY DEF IInv
  <2>1. ASSUME NEW l \in Collection, NEW j \in Id, l # k \/ j # id
        PROVE  \/ winners'[l][j] = {}
               \/ j \in DOMAIN docs'[l] /\ \E d \in Client : winners'[l][j] = {d}
    BY <1>2, <2>0, <2>1, WroteEffect DEF WinnersAreThere
  <2>2. /\ id \in Id
        /\ w.op # "delete" /\ id \in DOMAIN docs[k] => id \in DOMAIN docs'[k]
        /\ \/ winners'[k][id] = {}
           \/ /\ id \notin DOMAIN docs[k] /\ id \in DOMAIN docs'[k]
              /\ winners'[k][id] = winners[k][id] \cup {c}
           \/ w.op # "delete" /\ winners'[k][id] = winners[k][id]
    BY <1>2, <2>0, WroteEffect
  <2>3. \/ winners'[k][id] = {}
        \/ id \in DOMAIN docs'[k] /\ \E d \in Client : winners'[k][id] = {d}
    <3>1. {} \cup {c} = {c}
      OBVIOUS
    <3> QED BY <2>2, <3>1 DEF WinnersAreThere
  <2> QED BY <2>1, <2>3 DEF WinnersAreThere
<1>3. ASSUME NEW k \in Collection, Drops(k)
      PROVE  WinnersAreThere'
  <2>1. \A l \in Collection : l # k => docs'[l] = docs[l] /\ winners'[l] = winners[l]
    BY <1>3 DEF IInv, TypeOK, Drops
  <2>2. \A j \in Id : winners'[k][j] = {}
    BY <1>3 DEF IInv, TypeOK, Drops
  <2> QED BY <2>1, <2>2 DEF WinnersAreThere
<1> QED BY <1>1, <1>2, <1>3, StepCases

\* Of those who insert a document with the same _id at most one is told that it
\* did, however the writes of all methods interleave, until it is deleted.
THEOREM InsertHasOneWinner == Spec => []OneWinner
<1>1. WinnersAreThere => OneWinner
  <2> SUFFICES ASSUME WinnersAreThere, NEW k \in Collection, NEW id \in Id
               PROVE  Cardinality(winners[k][id]) <= 1
    BY DEF OneWinner
  <2>1. CASE winners[k][id] = {}
    <3>1. Cardinality(winners[k][id]) = 0
      BY <2>1, FS_EmptySet
    <3> QED BY <3>1
  <2>2. ASSUME NEW c \in Client, winners[k][id] = {c} PROVE Cardinality(winners[k][id]) <= 1
    <3>1. Cardinality(winners[k][id]) = 1
      BY <2>2, FS_Singleton
    <3> QED BY <3>1
  <2> QED BY <2>1, <2>2 DEF WinnersAreThere
<1>2. Spec => []WinnersAreThere
  BY WinnersInit, WinnersStep, Invariance, PTL DEF Spec
<1> QED BY <1>1, <1>2, PTL

\* The counts that were returned of a document ascend, up to the one it has now.
TicketsAscend ==
  \A k \in Collection, id \in Id :
    \A i \in DOMAIN tickets[k][id] :
      /\ id \in DOMAIN docs[k] /\ tickets[k][id][i] <= docs[k][id].n
      /\ \A j \in DOMAIN tickets[k][id] : i < j => tickets[k][id][i] < tickets[k][id][j]

LEMMA TicketsInit == Init => TicketsAscend
BY DEF Init, TicketsAscend

\* The tickets of one document, with another one appended that is larger.
LEMMA AppendAscends ==
  ASSUME NEW s \in Seq(Nat), NEW n \in Nat,
         \A i \in DOMAIN s : s[i] < n /\ \A j \in DOMAIN s : i < j => s[i] < s[j]
  PROVE  LET t == Append(s, n)
         IN \A i \in DOMAIN t : t[i] <= n /\ \A j \in DOMAIN t : i < j => t[i] < t[j]
<1> DEFINE t == Append(s, n)
<1>1. /\ t \in Seq(Nat) /\ Len(t) = Len(s) + 1 /\ t[Len(s) + 1] = n
      /\ \A i \in 1 .. Len(s) : t[i] = s[i]
  BY AppendProperties
<1>2. Len(s) \in Nat /\ DOMAIN s = 1 .. Len(s) /\ DOMAIN t = 1 .. Len(s) + 1
      /\ \A i \in DOMAIN s : s[i] \in Nat
  BY <1>1, LenProperties
<1> HIDE DEF t
<1>3. ASSUME NEW i \in DOMAIN t PROVE t[i] <= n /\ \A j \in DOMAIN t : i < j => t[i] < t[j]
  <2>1. CASE i = Len(s) + 1
    BY <1>1, <1>2, <2>1
  <2>2. CASE i \in DOMAIN s
    <3>1. t[i] = s[i] /\ s[i] \in Nat /\ s[i] < n /\ i \in Nat
      BY <1>1, <1>2, <2>2
    <3>2. ASSUME NEW j \in DOMAIN t, i < j PROVE t[i] < t[j]
      <4>1. CASE j = Len(s) + 1
        BY <1>1, <3>1, <4>1
      <4>2. CASE j \in DOMAIN s
        BY <1>1, <1>2, <2>2, <3>1, <3>2, <4>2
      <4> QED BY <1>2, <4>1, <4>2
    <3> QED BY <3>1, <3>2
  <2> QED BY <1>2, <2>1, <2>2
<1> QED BY <1>3 DEF t

LEMMA TicketsStep ==
  ASSUME IInv, TicketsAscend, [Next]_vars
  PROVE  TicketsAscend'
<1>1. CASE Kept
  BY <1>1 DEF Kept, TicketsAscend
<1>2. ASSUME NEW c \in Client, NEW k \in Collection, NEW w \in Op, NEW id \in Targets(k, w),
             Wrote(c, k, w, id)
      PROVE  TicketsAscend'
  <2> DEFINE s == tickets[k][id]
             a == After(k, w, id)
             t == tickets'[k][id]
             n == IF id \in DOMAIN docs[k] THEN docs[k][id].n ELSE 0
  <2>0. TypeOK
    BY DEF IInv
  <2>1. ASSUME NEW l \in Collection, NEW j \in Id, l # k \/ j # id
        PROVE  \A i \in DOMAIN tickets'[l][j] :
                 /\ j \in DOMAIN docs'[l] /\ tickets'[l][j][i] <= docs'[l][j].n
                 /\ \A h \in DOMAIN tickets'[l][j] : i < h => tickets'[l][j][i] < tickets'[l][j][h]
    <3>1. /\ j \in DOMAIN docs'[l] <=> j \in DOMAIN docs[l]
          /\ j \in DOMAIN docs[l] => docs'[l][j] = docs[l][j]
          /\ tickets'[l][j] = tickets[l][j]
      BY <1>2, <2>0, <2>1, WroteEffect
    <3> QED BY <3>1 DEF TicketsAscend
  <2>2. id \in Id /\ docs'[k] = a
    BY <1>2, <2>0, WroteEffect
  <2>3. s \in Seq(Nat) /\ n \in Nat
    BY <2>0, <2>2 DEF TypeOK, IsContents, Document
  <2>4. \A i \in DOMAIN s : /\ id \in DOMAIN docs[k] /\ s[i] <= n
                            /\ \A j \in DOMAIN s : i < j => s[i] < s[j]
    BY <2>2 DEF TicketsAscend
  <2>5. \A i \in DOMAIN t : id \in DOMAIN a /\ t[i] <= a[id].n /\ \A j \in DOMAIN t : i < j => t[i] < t[j]
    <3>1. CASE t = <<>>
      BY <3>1
    <3>2. CASE w.op = "inc" /\ t = Append(s, a[id].n)
      <4>0. w.op \notin {"read", "delete"} /\ w.op \in {"inc", "set"}
        BY <3>2
      <4>1. a[id].n = n + 1
        BY <3>2, <4>0, <2>0, AfterType
      <4>2. DOMAIN a = DOMAIN docs[k] \cup {id}
        BY <4>0, <2>0, AfterType
      <4> HIDE DEF n, s, a, t
      <4>3. \A i \in DOMAIN s : s[i] \in Nat
        BY <2>3
      <4>4. \A i \in DOMAIN s : s[i] < n + 1 /\ \A j \in DOMAIN s : i < j => s[i] < s[j]
        BY <2>3, <2>4, <4>3
      <4>5. n + 1 \in Nat
        BY <2>3
      <4> QED BY <2>3, <3>2, <4>1, <4>2, <4>4, <4>5, AppendAscends
    <3>3. CASE w.op \in {"inc", "set", "read"} /\ t = s
      <4>0. w.op # "delete"
        BY <3>3
      <4>1. id \in DOMAIN docs[k] => id \in DOMAIN a /\ n <= a[id].n
        <5>1. CASE w.op = "read"
          <6>1. a = docs[k]
            BY <2>0, <5>1, AfterType
          <6> QED BY <2>3, <6>1
        <5>2. CASE w.op \in {"inc", "set"}
          <6>1. a[id].n = n + IF w.op = "inc" THEN 1 ELSE 0
            BY <2>0, <5>2, AfterType
          <6> HIDE DEF n, s, t
          <6>0. w.op \notin {"read", "delete"}
            BY <5>2
          <6>2. DOMAIN a = DOMAIN docs[k] \cup {id}
            BY <2>0, <6>0, AfterType
          <6> HIDE DEF a
          <6> QED BY <2>3, <6>1, <6>2
        <5> QED BY <3>3, <5>1, <5>2
      <4>2. IsContents(a)
        BY <2>0, AfterType
      <4>3. id \in DOMAIN a => a[id].n \in Nat
        BY <4>2 DEF IsContents, Document
      <4> HIDE DEF n, s, a, t
      <4>4. \A i \in DOMAIN s : s[i] \in Nat
        BY <2>3
      <4> QED BY <2>3, <2>4, <3>3, <4>1, <4>3, <4>4
    <3> HIDE DEF a, s, t
    <3>4. \/ t = <<>>
          \/ w.op = "inc" /\ t = Append(s, a[id].n)
          \/ w.op \in {"inc", "set", "read"} /\ t = s
      BY <1>2, <2>0, WroteEffect DEF a, s, t
    <3> QED BY <3>1, <3>2, <3>3, <3>4
  <2> QED BY <2>1, <2>2, <2>5 DEF TicketsAscend
<1>3. ASSUME NEW k \in Collection, Drops(k)
      PROVE  TicketsAscend'
  <2>1. \A l \in Collection : l # k => docs'[l] = docs[l] /\ tickets'[l] = tickets[l]
    BY <1>3 DEF IInv, TypeOK, Drops
  <2>2. \A j \in Id : tickets'[k][j] = <<>>
    BY <1>3 DEF IInv, TypeOK, Drops
  <2> QED BY <2>1, <2>2 DEF TicketsAscend
<1> QED BY <1>1, <1>2, <1>3, StepCases

\* FindOneAndUpdate returns the count of a document to one caller alone, however
\* its calls interleave with the other methods' writes (line 303).
THEOREM TicketsAreUnique == Spec => []TicketsDiffer
<1>1. IInv /\ TicketsAscend => TicketsDiffer
  <2> SUFFICES ASSUME IInv, TicketsAscend, NEW k \in Collection, NEW id \in Id
               PROVE  IsInjective(tickets[k][id])
    BY DEF TicketsDiffer
  <2> DEFINE t == tickets[k][id]
  <2>1. t \in Seq(Nat)
    BY DEF IInv, TypeOK
  <2>2. \A i, j \in DOMAIN t : i < j => t[i] < t[j]
    BY DEF TicketsAscend
  <2> HIDE DEF t
  <2>3. \A i, j \in DOMAIN t : i \in Nat /\ j \in Nat /\ t[i] \in Nat /\ t[j] \in Nat
    BY <2>1
  <2>4. \A i, j \in DOMAIN t : t[i] = t[j] => i = j
    BY <2>2, <2>3
  <2> QED BY <2>4 DEF t, IsInjective
<1>2. Spec => []TicketsAscend
  BY TicketsInit, TicketsStep, Invariance, PTL DEF Spec
<1> QED BY <1>1, <1>2, Invariance, PTL
=============================================================================
