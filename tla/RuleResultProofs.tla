-------------------------- MODULE RuleResultProofs --------------------------
(***************************************************************************)
(* The document that is stored: it is what the actions evaluated mean,     *)
(* what the table of rules means, and the document the actions were        *)
(* evaluated against.                                                      *)
(***************************************************************************)
EXTENDS RuleMeaningProofs

-----------------------------------------------------------------------------
(***************************************************************************)
(* A value of the heap, compared with a JSON value of the past.  An object *)
(* that an operation has put into a document is shared by both documents,  *)
(* so that its cell may already hold what later operations merge into it.  *)
(***************************************************************************)

\* Of the operations o, with the values J, one after the i-th merges something
\* into the field f of key k.
Later(o, J, i, k, f) ==
  \E m \in DOMAIN o :
    m > i /\ o[m].key = k /\ o[m].op = "merge" /\ f \in DOMAIN Fields(J[m])

SameFields(F, G, o, J, i, k) ==
  \A f \in DOMAIN F \cup DOMAIN G :
    ~Later(o, J, i, k, f) => f \in DOMAIN F /\ f \in DOMAIN G /\ F[f] = G[f]

IsObject(j) == j = JObject(j.fields) /\ IsFunction(j.fields)

\* The value v of key k is j, but for what is merged into it after operation i.
Agrees(v, h, j, o, J, i, k) ==
  /\ j.kind = v.kind
  /\ v.kind # "object" => j = Json(v, h)
  /\ v.kind = "object" => IsObject(j) /\ SameFields(h[v.ref], j.fields, o, J, i, k)

LEMMA AgreesParts ==
  ASSUME NEW v, NEW h, NEW j, NEW o, NEW J, NEW i, NEW k, Agrees(v, h, j, o, J, i, k)
  PROVE  /\ Number(j) = UtilToFloat(v)
         /\ v.kind # "object" => j = Json(v, h)
         /\ Elements(j) = Elements(Json(v, h))
         /\ v.kind = "object" => Fields(j) = j.fields
         /\ v.kind # "object" => Fields(j) = <<>>
<1>1. CASE v.kind = "object"
  <2>1. j.kind = "object" /\ Json(v, h).kind = "object"
    BY <1>1, JsonIs DEF Agrees
  <2>2. QED
    BY <1>1, <2>1 DEF Number, UtilToFloat, Elements, Fields
<1>2. CASE v.kind # "object"
  <2>1. j = Json(v, h) /\ j.kind = v.kind
    BY <1>2 DEF Agrees
  <2>2. QED
    BY <1>2, <2>1, PartsOfJson DEF Fields
<1>3. QED
  BY <1>1, <1>2

\* A value that is j agrees with it.
LEMMA ExactAgrees ==
  ASSUME NEW v, NEW h, NEW j, j = Json(v, h), v.kind = "object" => IsFunction(h[v.ref]),
         NEW o, NEW J, NEW i, NEW k
  PROVE  Agrees(v, h, j, o, J, i, k)
<1>1. CASE v.kind = "object"
  <2>1. j = JObject(h[v.ref]) /\ j.fields = h[v.ref] /\ j.kind = "object"
    BY <1>1, JsonIs DEF JObject
  <2>2. QED
    BY <1>1, <2>1 DEF Agrees, IsObject, SameFields
<1>2. CASE v.kind # "object"
  BY <1>2, JsonIs DEF Agrees
<1>3. QED
  BY <1>1, <1>2

\* When no merge is to come, it is the JSON of the value.
LEMMA AgreesExact ==
  ASSUME NEW v, NEW h, v.kind = "object" => IsFunction(h[v.ref]),
         NEW o, NEW J, NEW i, NEW k, \A f : ~Later(o, J, i, k, f),
         NEW j, Agrees(v, h, j, o, J, i, k)
  PROVE  j = Json(v, h)
<1>1. CASE v.kind = "object"
  <2>1. /\ IsFunction(j.fields) /\ IsFunction(h[v.ref])
        /\ DOMAIN h[v.ref] = DOMAIN j.fields
        /\ \A f \in DOMAIN j.fields : h[v.ref][f] = j.fields[f]
    BY <1>1 DEF Agrees, IsObject, SameFields
  <2>2. h[v.ref] = j.fields
    BY <2>1 DEF IsFunction
  <2>3. QED
    BY <1>1, <2>2, JsonIs DEF Agrees, IsObject
<1>2. CASE v.kind # "object"
  BY <1>2 DEF Agrees
<1>3. QED
  BY <1>1, <1>2

\* The fewer the operations to come, the more it says.
LEMMA AgreesMore ==
  ASSUME NEW v, NEW h, NEW j, NEW k, NEW o, NEW J, NEW i, Agrees(v, h, j, o, J, i, k),
         NEW p, NEW K, NEW l, \A f : Later(o, J, i, k, f) => Later(p, K, l, k, f)
  PROVE  Agrees(v, h, j, p, K, l, k)
BY DEF Agrees, SameFields

\* It looks at the cell of the value only, and no further than its elements.
LEMMA AgreesCell ==
  ASSUME NEW v, NEW h, NEW j, NEW k, NEW o, NEW J, NEW i, Agrees(v, h, j, o, J, i, k),
         NEW g, v.kind = "object" => g[v.ref] = h[v.ref],
         Json(v, g) = Json(v, h)
  PROVE  Agrees(v, g, j, o, J, i, k)
BY DEF Agrees

\* A merge into the cell.
LEMMA AgreesMerged ==
  ASSUME NEW v, NEW h, NEW j, NEW k, NEW o, NEW J, NEW i, Agrees(v, h, j, o, J, i, k),
         NEW F, \A f \in DOMAIN F : Later(o, J, i, k, f),
         NEW g, v.kind = "object", g[v.ref] = Over(F, h[v.ref])
  PROVE  Agrees(v, g, j, o, J, i, k)
<1> DEFINE G == h[v.ref]
           H == g[v.ref]
<1>1. DOMAIN H = DOMAIN F \cup DOMAIN G /\ \A f \in DOMAIN G \ DOMAIN F : H[f] = G[f]
  BY DEF Over
<1>2. SameFields(G, j.fields, o, J, i, k) /\ IsObject(j) /\ j.kind = v.kind
  BY DEF Agrees
<1> HIDE DEF G, H
<1>3. SameFields(H, j.fields, o, J, i, k)
  BY <1>1, <1>2 DEF SameFields
<1>4. QED
  BY <1>2, <1>3 DEF Agrees, H

\* The operation after the i-th is taken off those to come.
LEMMA LaterNext ==
  ASSUME NEW o, NEW J, NEW i \in Nat, i + 1 \in DOMAIN o, DOMAIN o \subseteq Nat, NEW k, NEW f
  PROVE  Later(o, J, i, k, f) <=>
           \/ Later(o, J, i + 1, k, f)
           \/ o[i + 1].key = k /\ o[i + 1].op = "merge" /\ f \in DOMAIN Fields(J[i + 1])
<1>1. \A m \in DOMAIN o : m > i <=> (m > i + 1 \/ m = i + 1)
  OBVIOUS
<1>2. QED
  BY <1>1 DEF Later

-----------------------------------------------------------------------------
(***************************************************************************)
(* What an operation does to the cell of its key's value, in the heap h;   *)
(* g is the heap afterwards.                                               *)
(***************************************************************************)

\* The entries of an object are merged into it; an element is written behind
\* the end of a slice.
Written(op, old, h, g) ==
  \A r \in DOMAIN h :
    \/ g[r] = h[r]
    \/ /\ r = old.ref /\ old.kind = "object" /\ op.op = "merge"
       /\ g[r] = Over(Fields(Json(op.value, h)), h[r])
    \/ /\ r = old.ref /\ old.kind = "array" /\ op.op = "append"
       /\ old.len < Len(h[r]) /\ g[r] = [h[r] EXCEPT ![old.len + 1] = op.value]

\* The value y of the key has the cell of the one before: it was merged into,
\* appended to, or it is the same.
Grown(op, old, y) ==
  /\ ~Scalar(old) /\ ~Scalar(y) /\ y.ref = old.ref
  /\ \/ op.op = "merge" /\ old.kind = "object" /\ y.kind = "object"
     \/ op.op = "append" /\ old.kind = "array" /\ y.kind = "array" /\ y.len = old.len + 1
     \/ op.op = "max" /\ y = old /\ UtilToFloat(op.value) <= 0

Becomes(op, old, y, fresh) ==
  \/ Scalar(y)
  \/ y.ref = fresh
  \/ y = op.value /\ op.op \notin {"merge", "append"}
  \/ Grown(op, old, y)

LEMMA NewValueWritten ==
  ASSUME NEW values, NEW h, Sound(values, h), NEW op, op.value \in values,
         NEW old \in values, NEW fresh, fresh \notin DOMAIN h
  PROVE  LET n == NewValue(op, old, h, fresh) IN
         Written(op, old, h, n.heap) /\ Becomes(op, old, n.value, fresh)
<1> DEFINE n == NewValue(op, old, h, fresh)
           F == Fields(Json(op.value, h))
<1>0. F = IF op.value.kind = "object" THEN h[op.value.ref] ELSE <<>>
  BY PartsOfJson
<1>1. CASE op.op = "increment"
  <2>1. n.value = Num(UtilToFloat(old) + UtilToFloat(op.value)) /\ n.heap = h
    BY <1>1 DEF NewValue
  <2>2. QED
    BY <2>1, Kinds DEF Written, Becomes
<1>2. CASE op.op = "append" /\ old.kind = "array"
  <2>1. n = Appended(old, op.value, h, fresh) /\ old.ref \in DOMAIN h
    BY <1>2 DEF NewValue, Sound, Denotes
  <2>2. CASE old.len < Len(h[old.ref])
    <3>1. /\ n.value = Slice(old.ref, old.len + 1)
          /\ n.heap = [h EXCEPT ![old.ref] = [h[old.ref] EXCEPT ![old.len + 1] = op.value]]
      BY <2>1, <2>2 DEF Appended
    <3>2. /\ n.heap[old.ref] = [h[old.ref] EXCEPT ![old.len + 1] = op.value]
          /\ \A r \in DOMAIN h : r # old.ref => n.heap[r] = h[r]
      BY <2>1, <3>1
    <3> HIDE DEF n
    <3>3. Written(op, old, h, n.heap)
      BY <1>2, <2>2, <3>2 DEF Written
    <3>4. n.value.kind = "array" /\ n.value.ref = old.ref /\ n.value.len = old.len + 1
      BY <3>1, Kinds
    <3>5. Becomes(op, old, n.value, fresh)
      BY <1>2, <3>4 DEF Becomes, Grown, Scalar
    <3>6. QED
      BY <3>3, <3>5 DEF n
  <2>3. CASE ~(old.len < Len(h[old.ref]))
    <3> DEFINE a == Pad(Append(SubSeq(h[old.ref], 1, old.len), op.value))
    <3>1. n.value = Slice(fresh, old.len + 1) /\ n.heap = Put(h, fresh, a)
      BY <2>1, <2>3 DEF Appended
    <3> HIDE DEF a, n
    <3>2. QED
      BY <3>1, Kinds DEF Written, Becomes, Put, n
  <2>4. QED
    BY <2>2, <2>3
<1>3. CASE op.op = "append" /\ old.kind # "array"
  <2> DEFINE a == Pad(<<op.value>>)
  <2>1. n.value = Slice(fresh, 1) /\ n.heap = Put(h, fresh, a)
    BY <1>3 DEF NewValue
  <2> HIDE DEF a, n
  <2>2. QED
    BY <2>1, Kinds DEF Written, Becomes, Put, n
<1>4. CASE op.op = "merge" /\ old.kind = "object"
  <2>1. n = Merged(old.ref, op.value, h) /\ old.ref \in DOMAIN h
    BY <1>4 DEF NewValue, Sound, Denotes
  <2>2. n.value = Object(old.ref)
    BY <2>1 DEF Merged
  <2>3. Written(op, old, h, n.heap)
    <3>1. CASE op.value.kind = "object"
      <4>1. n.heap = [h EXCEPT ![old.ref] = Over(F, h[old.ref])]
        BY <1>0, <2>1, <3>1 DEF Merged
      <4> HIDE DEF n, F
      <4>2. QED
        BY <1>4, <4>1 DEF Written, F
    <3>2. CASE op.value.kind # "object"
      <4>1. n.heap = h
        BY <2>1, <3>2 DEF Merged
      <4>2. QED
        BY <4>1 DEF Written
    <3>3. QED
      BY <3>1, <3>2
  <2>4. n.value.kind = "object" /\ n.value.ref = old.ref
    BY <2>2, Kinds
  <2> HIDE DEF n
  <2>5. Becomes(op, old, n.value, fresh)
    BY <1>4, <2>4 DEF Becomes, Grown, Scalar
  <2>6. QED
    BY <2>3, <2>5 DEF n
<1>5. CASE op.op = "merge" /\ old.kind # "object"
  <2> DEFINE e == Put(h, fresh, <<>>)
  <2>1. n = Merged(fresh, op.value, e)
    BY <1>5 DEF NewValue
  <2>2. \A r \in DOMAIN h : r \in DOMAIN e /\ e[r] = h[r] /\ r # fresh
    BY DEF Put
  <2> HIDE DEF e
  <2>3. n.value = Object(fresh) /\ \A r \in DOMAIN h : n.heap[r] = h[r]
    BY <2>1, <2>2 DEF Merged
  <2> HIDE DEF n
  <2>4. QED
    BY <2>3, Kinds DEF Written, Becomes, n
<1>6. CASE op.op \notin {"increment", "append", "merge"}
  <2>1. n.value = op.value /\ n.heap = h
    BY <1>6 DEF NewValue
  <2> HIDE DEF n
  <2>2. QED
    BY <1>6, <2>1 DEF Written, Becomes, n
<1>7. QED
  BY <1>1, <1>2, <1>3, <1>4, <1>5, <1>6

LEMMA ApplyWritten ==
  ASSUME NEW values, NEW h, Sound(values, h), NEW op, IsOp(op), op.value \in values,
         NEW doc, ValuesOf(doc) \subseteq values, NEW fresh, fresh \notin DOMAIN h
  PROVE  LET result == ApplyOp(op, doc, h, fresh)
             old == At(doc, op.key) IN
         /\ Written(op, old, h, result.heap)
         /\ op.key \in DOMAIN result.doc => Becomes(op, old, result.doc[op.key], fresh)
<1> DEFINE result == ApplyOp(op, doc, h, fresh)
           old == At(doc, op.key)
           x == IF op.op \in {"max", "min"}
                THEN [op EXCEPT !.value = Num(UtilToFloat(@))] ELSE op
           more == values \cup {Null}
           n == NewValue(x, old, h, fresh)
<1>1. Sound(more, h) /\ old \in more /\ op.value \in more
  BY Kinds, ScalarSound, AtIs
<1>2. CASE op.op = "remove"
  <2>1. result.doc = Without(doc, op.key) /\ result.heap = h
    BY <1>2 DEF ApplyOp, Keeps
  <2>2. op.key \notin DOMAIN result.doc
    BY <2>1 DEF Without
  <2>3. QED
    BY <2>1, <2>2 DEF Written
<1>3. CASE op.op # "remove" /\ Keeps(op, old)
  <2>1. result.doc = doc /\ result.heap = h
    BY <1>3 DEF ApplyOp
  <2>2. op.key \in DOMAIN doc => doc[op.key] = old
    BY DEF At
  <2> HIDE DEF old
  <2>3. Scalar(old) \/ Grown(op, old, old)
    BY <1>3 DEF Keeps, Grown, UtilToFloat, Scalar
  <2> HIDE DEF result
  <2>4. QED
    BY <2>1, <2>2, <2>3 DEF Written, Becomes, result, old
<1>4. CASE op.op \in {"max", "min"} /\ ~Keeps(op, old)
  <2>1. /\ n = [value |-> Num(UtilToFloat(op.value)), heap |-> h]
        /\ result.doc = Put(doc, op.key, n.value) /\ result.heap = n.heap
    BY <1>4 DEF ApplyOp, NewValue, IsOp
  <2> HIDE DEF n, result
  <2>2. result.heap = h /\ result.doc[op.key] = Num(UtilToFloat(op.value))
    BY <2>1 DEF Put
  <2>3. QED
    BY <2>2, Kinds DEF Written, Becomes, result
<1>5. CASE op.op \notin {"remove", "max", "min"}
  <2>1. /\ n = NewValue(op, old, h, fresh)
        /\ result.doc = Put(doc, op.key, n.value) /\ result.heap = n.heap
    BY <1>5 DEF ApplyOp, Keeps
  <2> HIDE DEF n, result, old
  <2>2. Written(op, old, h, n.heap) /\ Becomes(op, old, n.value, fresh)
    BY <1>1, <2>1, NewValueWritten
  <2>3. QED
    BY <2>1, <2>2 DEF Put, result, old
<1>6. QED
  BY <1>2, <1>3, <1>4, <1>5 DEF Keeps

\* Applied to a value that agrees with d, an operation gives one that agrees with
\* what it makes of d.
LEMMA ApplyAgrees ==
  ASSUME NEW values, NEW h, Sound(values, h), NEW op, IsOp(op), op.value \in values,
         op.op = "append" => Scalar(op.value),
         NEW doc, ValuesOf(doc) \subseteq values, NEW fresh, fresh \notin DOMAIN h,
         NEW o, NEW J, NEW i, NEW l,
         \A f : Later(o, J, i, op.key, f) <=>
                  \/ Later(o, J, l, op.key, f)
                  \/ op.op = "merge" /\ f \in DOMAIN Fields(J[l]),
         NEW d, op.key \in DOMAIN doc <=> op.key \in DOMAIN d,
         Agrees(At(doc, op.key), h, At(d, op.key), o, J, i, op.key),
         Agrees(op.value, h, J[l], o, J, l, op.key),
         op.op = "merge" => J[l] = Json(op.value, h)
  PROVE  LET result == ApplyOp(op, doc, h, fresh)
             e == Changed(d, op, J[l]) IN
         /\ op.key \in DOMAIN result.doc <=> op.key \in DOMAIN e
         /\ op.key \in DOMAIN e =>
              Agrees(result.doc[op.key], result.heap, e[op.key], o, J, l, op.key)
<1> DEFINE key == op.key
           result == ApplyOp(op, doc, h, fresh)
           old == At(doc, key)
           was == At(d, key)
           x == J[l]
           e == Changed(d, op, x)
           n == NewValue(op, old, h, fresh)
           more == values \cup {Null}
<1>1. Sound(more, h) /\ old \in more /\ op.value \in more
  BY Kinds, ScalarSound, AtIs
<1>2. /\ Number(was) = UtilToFloat(old) /\ Number(x) = UtilToFloat(op.value)
      /\ Elements(was) = Elements(Json(old, h))
      /\ old.kind = "object" => Fields(was) = was.fields
      /\ old.kind # "object" => Fields(was) = <<>>
  BY AgreesParts
<1>3. ASSUME NEW y, NEW j, NEW g, result.doc = Put(doc, key, y), result.heap = g,
             e = Put(d, key, j), Agrees(y, g, j, o, J, l, key)
      PROVE  /\ key \in DOMAIN result.doc <=> key \in DOMAIN e
             /\ key \in DOMAIN e => Agrees(result.doc[key], result.heap, e[key], o, J, l, key)
  <2> HIDE DEF result, e
  <2>1. /\ key \in DOMAIN result.doc /\ result.doc[key] = y
        /\ key \in DOMAIN e /\ e[key] = j
    BY <1>3 DEF Put
  <2>2. QED
    BY <1>3, <2>1
<1>4. ASSUME NEW v, NEW g
      PROVE  Agrees(Num(v), g, Num(v), o, J, l, key)
  <2>1. Num(v) = Json(Num(v), g) /\ Num(v).kind # "object"
    BY Kinds, JsonIs
  <2>2. QED
    BY <2>1, ExactAgrees
<1>5. CASE op.op = "remove"
  <2>1. result.doc = Without(doc, key) /\ e = Without(d, key)
    BY <1>5 DEF ApplyOp, Keeps, Changed
  <2> HIDE DEF result, e
  <2>2. key \notin DOMAIN result.doc /\ key \notin DOMAIN e
    BY <2>1 DEF Without
  <2>3. QED
    BY <2>2 DEF result, e
<1>6. CASE op.op \in {"max", "min"} /\ Keeps(op, old)
  <2>1. result.doc = doc /\ result.heap = h
    BY <1>6 DEF ApplyOp
  <2>2. e = d
    BY <1>2, <1>6 DEF Changed, Keeps
  <2>3. key \in DOMAIN d => old = doc[key] /\ was = d[key]
    BY DEF At
  <2> HIDE DEF result, e, old, was
  <2>4. \A f : Later(o, J, i, key, f) => Later(o, J, l, key, f)
    BY <1>6
  <2>5. Agrees(old, h, was, o, J, l, key)
    BY <2>4, AgreesMore DEF old, was
  <2>6. QED
    BY <2>1, <2>2, <2>3, <2>5 DEF result, e
<1>7. CASE op.op \in {"max", "min"} /\ ~Keeps(op, old)
  <2>1. result.doc = Put(doc, key, Num(UtilToFloat(op.value))) /\ result.heap = h
    BY <1>7 DEF ApplyOp, NewValue, IsOp
  <2>2. e = Put(d, key, Num(Number(x)))
    BY <1>2, <1>7 DEF Changed, Keeps
  <2>3. QED
    BY <1>2, <1>3, <1>4, <2>1, <2>2
<1>8. CASE op.op \notin {"remove", "max", "min"}
  <2>1. result.doc = Put(doc, key, n.value) /\ result.heap = n.heap
    BY <1>8 DEF ApplyOp, Keeps
  <2>2. CASE op.op = "increment"
    <3>1. n.value = Num(UtilToFloat(old) + UtilToFloat(op.value))
      BY <2>2 DEF NewValue
    <3>2. e = Put(d, key, Num(UtilToFloat(old) + UtilToFloat(op.value)))
      BY <1>2, <2>2 DEF Changed
    <3>3. QED
      BY <1>3, <1>4, <2>1, <3>1, <3>2
  <2>3. CASE op.op = "append"
    <3> DEFINE j == JArray(Append(Elements(was), x))
    <3>1. x = Json(op.value, h)
      <4>1. op.value.kind # "object"
        BY <2>3 DEF Scalar
      <4>2. QED
        BY <4>1 DEF Agrees
    <3>2. Json(n.value, n.heap) = j
      BY <1>1, <1>2, <2>3, <3>1, AppendMeaning
    <3>3. e = Put(d, key, j)
      BY <2>3 DEF Changed
    <3>4. j.kind = "array"
      BY DEF JArray
    <3> HIDE DEF j, n, e
    <3>5. n.value.kind = "array"
      BY <3>2, <3>4, JsonIs
    <3>6. Agrees(n.value, n.heap, j, o, J, l, key)
      BY <3>2, <3>5, ExactAgrees
    <3>7. QED
      BY <1>3, <2>1, <3>3, <3>6 DEF e
  <2>4. CASE op.op = "merge"
    <3> DEFINE F == Fields(x)
               G == Fields(Json(old, h))
               H == Fields(was)
               j == JObject(Over(F, H))
    <3>1. Json(n.value, n.heap) = JObject(Over(F, G))
      BY <1>1, <2>4, MergeMeaning
    <3>2. e = Put(d, key, j)
      BY <2>4 DEF Changed
    <3>3. SameFields(G, H, o, J, i, key)
      <4>1. CASE old.kind = "object"
        BY <1>2, <4>1, PartsOfJson DEF Agrees
      <4>2. CASE old.kind # "object"
        <5>1. G = <<>> /\ H = <<>> /\ DOMAIN <<>> = {}
          BY <1>2, <4>2, PartsOfJson
        <5> HIDE DEF G, H
        <5>2. QED
          BY <5>1 DEF SameFields
      <4>3. QED
        BY <4>1, <4>2
    <3>4. \A f : Later(o, J, i, key, f) => Later(o, J, l, key, f) \/ f \in DOMAIN F
      OBVIOUS
    <3> HIDE DEF F, G, H, n, e, x, key
    <3>5. SameFields(Over(F, G), Over(F, H), o, J, l, key)
      BY <3>3, <3>4 DEF SameFields, Over
    <3>6. n.value.kind = "object" /\ n.heap[n.value.ref] = Over(F, G)
      <4>1. n.value.kind = "object"
        BY <3>1, JsonIs DEF JObject
      <4>2. JObject(n.heap[n.value.ref]) = JObject(Over(F, G))
        BY <3>1, <4>1, JsonIs
      <4>3. QED
        BY <4>1, <4>2 DEF JObject
    <3>7. j.kind = "object" /\ IsObject(j) /\ j.fields = Over(F, H)
      BY DEF JObject, IsObject, IsFunction, Over
    <3>8. Agrees(n.value, n.heap, j, o, J, l, key)
      BY <3>5, <3>6, <3>7 DEF Agrees
    <3>9. QED
      BY <1>3, <2>1, <3>2, <3>8 DEF e, x, key, result
  <2>5. CASE op.op \notin {"increment", "append", "merge"}
    <3>1. n.value = op.value /\ n.heap = h
      BY <2>5 DEF NewValue
    <3>2. e = Put(d, key, x)
      BY <1>8, <2>5 DEF Changed
    <3>3. Agrees(n.value, n.heap, x, o, J, l, key)
      BY <3>1
    <3>4. QED
      BY <1>3, <2>1, <3>2, <3>3
  <2>6. QED
    BY <2>2, <2>3, <2>4, <2>5
<1>9. QED
  BY <1>5, <1>6, <1>7, <1>8

-----------------------------------------------------------------------------
(***************************************************************************)
(* Values that an operation does not write, and those it does.             *)
(***************************************************************************)

Shares(v, w) == ~Distinct(v, w)

LEMMA CellStays ==
  ASSUME NEW values, NEW h, Sound(values, h), NEW v \in values, ~Scalar(v), NEW g,
         NEW old, NEW fresh, Touched(h, g, old, fresh), Distinct(old, v)
  PROVE  g[v.ref] = h[v.ref]
<1>1. v.ref \in DOMAIN h
  BY InHeap
<1>2. QED
  BY <1>1 DEF Touched, Distinct

LEMMA AgreesApart ==
  ASSUME NEW values, NEW h, Sound(values, h), NEW v \in values, NEW g,
         NEW old, NEW fresh, Touched(h, g, old, fresh), Distinct(old, v),
         NEW j, NEW o, NEW J, NEW i, NEW k, Agrees(v, h, j, o, J, i, k)
  PROVE  Agrees(v, g, j, o, J, i, k)
<1>1. Json(v, g) = Json(v, h)
  BY JsonStays
<1>2. v.kind = "object" => g[v.ref] = h[v.ref]
  BY CellStays DEF Scalar
<1>3. QED
  BY <1>1, <1>2, AgreesCell

\* A write behind the end of a slice.
LEMMA PrefixStays ==
  ASSUME NEW s, IsSequence(s), NEW n \in Nat, n < Len(s), NEW m \in Nat, m <= n, NEW x
  PROVE  SubSeq([s EXCEPT ![n + 1] = x], 1, m) = SubSeq(s, 1, m)
<1> DEFINE w == [s EXCEPT ![n + 1] = x]
<1>1. Len(s) \in Nat /\ DOMAIN s = 1..Len(s)
  BY LengthIs, AppendElements
<1>2. IsSequence(w) /\ Len(w) = Len(s)
  <2>1. n + 1 \in 1..Len(s)
    BY <1>1
  <2>2. QED
    BY <2>1, WriteIs
<1>3. \A i \in 1..m : w[i] = s[i]
  BY <1>1
<1> HIDE DEF w
<1>4. /\ SubSeq(w, 1, m) = [i \in 1..m |-> w[i]]
      /\ SubSeq(s, 1, m) = [i \in 1..m |-> s[i]]
  BY <1>1, <1>2, PrefixAt
<1>5. QED
  BY <1>3, <1>4 DEF w

\* A value of the cell that is written.
LEMMA AgreesWritten ==
  ASSUME NEW values, NEW h, Sound(values, h), NEW v \in values, NEW old \in values,
         Shares(old, v), NEW op, NEW g, Written(op, old, h, g),
         NEW j, NEW o, NEW J, NEW i, NEW k, Agrees(v, h, j, o, J, i, k),
         op.op = "merge" => \A f \in DOMAIN Fields(Json(op.value, h)) : Later(o, J, i, k, f),
         v.kind = "array" => v.len <= old.len
  PROVE  Agrees(v, g, j, o, J, i, k)
<1> DEFINE r == v.ref
           F == Fields(Json(op.value, h))
<1>1. ~Scalar(v) /\ ~Scalar(old) /\ r = old.ref /\ v.kind = old.kind /\ r \in DOMAIN h
  BY DEF Shares, Distinct, Sound, Denotes, Scalar
<1>2. CASE g[r] = h[r]
  <2>1. Json(v, g) = Json(v, h)
    BY <1>2 DEF Json
  <2>2. QED
    BY <1>2, <2>1, AgreesCell
<1>3. CASE old.kind = "object" /\ op.op = "merge" /\ g[r] = Over(F, h[r])
  <2> HIDE DEF F
  <2>1. \A f \in DOMAIN F : Later(o, J, i, k, f)
    BY <1>3 DEF F
  <2>2. QED
    BY <1>1, <1>3, <2>1, AgreesMerged
<1>4. CASE old.kind = "array" /\ old.len < Len(h[r]) /\ g[r] = [h[r] EXCEPT ![old.len + 1] = op.value]
  <2>1. v.kind = "array" /\ IsSequence(h[r]) /\ old.len \in Nat /\ v.len \in Nat
    BY <1>1, <1>4 DEF Sound, Denotes
  <2> DEFINE s == h[r]
             n == old.len
  <2>2. v.len <= n /\ n < Len(s)
    BY <1>4, <2>1
  <2>3. g[r] = [s EXCEPT ![n + 1] = op.value]
    BY <1>4
  <2> HIDE DEF s, n
  <2>4. SubSeq([s EXCEPT ![n + 1] = op.value], 1, v.len) = SubSeq(s, 1, v.len)
    BY <2>1, <2>2, PrefixStays DEF s, n
  <2>5. SubSeq(g[v.ref], 1, v.len) = SubSeq(h[v.ref], 1, v.len)
    BY <2>3, <2>4 DEF s
  <2>6. Json(v, g) = Json(v, h)
    BY <2>1, <2>5, JsonIs
  <2>7. QED
    BY <2>1, <2>6, AgreesCell
<1>5. QED
  BY <1>1, <1>2, <1>3, <1>4 DEF Written

-----------------------------------------------------------------------------
(***************************************************************************)
(* The history: D[i] is the document after i operations, as it was when    *)
(* the i-th was evaluated, and J[i] the value that operation had then.     *)
(***************************************************************************)

Past(D, J) ==
  /\ D[0] = stored
  /\ \A i \in 1..Len(ops) : D[i] = Changed(D[i - 1], ops[i], J[i])
  /\ IsFunction(D[Len(ops)])

\* The operations to come have the values they were evaluated with, but for what
\* later ones have merged into them; a merge has exactly its value.
Coming(J) ==
  \A j \in 1..Len(ops) :
    /\ ops[j].op = "append" => Scalar(ops[j].value)
    /\ j > applied =>
         /\ Agrees(ops[j].value, heap, J[j], ops, J, j, ops[j].key)
         /\ ops[j].op = "merge" => J[j] = Json(ops[j].value, heap)

\* So has the document they are applied to.
Computing(D, J) ==
  /\ DOMAIN meta = DOMAIN D[applied]
  /\ \A k \in DOMAIN meta : Agrees(meta[k], heap, D[applied][k], ops, J, applied, k)

\* What an operation shares with the document it was evaluated against is the
\* value it put there, and lists have only grown since.
SharedByMap ==
  \A j \in 1..Len(ops), k \in DOMAIN metaMap :
    Shares(metaMap[k], ops[j].value) =>
      /\ ops[j].key = k /\ ops[j].op # "merge"
      /\ ops[j].value.kind = "array" => ops[j].value.len <= metaMap[k].len

Phases(D) ==
  /\ phase = "find" => ops = <<>>
  /\ phase = "done" => applied = Len(ops)
  /\ phase \in {"find", "evaluate"} =>
       /\ applied = 0
       /\ JsonDoc(metaMap, heap) = D[Len(ops)]
       /\ \A k \in DOMAIN metaMap, l \in DOMAIN meta : Distinct(metaMap[k], meta[l])

History(D, J) ==
  Past(D, J) /\ Coming(J) /\ Computing(D, J) /\ SharedByMap /\ Phases(D)

LEMMA InitHistory ==
  ASSUME Init, NEW D, D[0] = stored, NEW J
  PROVE  History(D, J)
<1>0. ops = <<>> /\ Len(ops) = 0 /\ applied = 0 /\ phase = "find"
  BY DEF Init
<1>1. IsFunction(stored) /\ \A k \in DOMAIN stored : IsJson(stored[k])
  BY ReadTyped
<1>2. ASSUME NEW c \in {"metaMap", "meta"}, NEW k \in DOMAIN stored
      PROVE  Json(Value(stored[k], <<c, k>>), heap) = stored[k]
  <2>1. ~Scalar(stored[k]) => heap[<<c, k>>] = Cell(stored[k])
    BY DEF Init, DecodedCells
  <2>2. QED
    BY <1>1, <2>1, DecodedMeaning
<1>3. /\ DOMAIN metaMap = DOMAIN stored
      /\ \A k \in DOMAIN stored : metaMap[k] = Value(stored[k], <<"metaMap", k>>)
  BY DEF Init, Decoded
<1>4. /\ DOMAIN meta = DOMAIN stored
      /\ \A k \in DOMAIN stored : meta[k] = Value(stored[k], <<"meta", k>>)
  BY DEF Init, Decoded
<1>5. JsonDoc(metaMap, heap) = stored
  <2>1. \A k \in DOMAIN stored : Json(metaMap[k], heap) = stored[k]
    BY <1>2, <1>3
  <2>2. QED
    BY <1>1, <1>3, <2>1 DEF JsonDoc, IsFunction
<1>6. Computing(D, J)
  <2>1. ASSUME NEW k \in DOMAIN meta
        PROVE  Agrees(meta[k], heap, stored[k], ops, J, 0, k)
    <3>1. stored[k] = Json(meta[k], heap)
      BY <1>2, <1>4
    <3>2. meta[k].kind = "object" => IsFunction(heap[meta[k].ref])
      BY InitSound DEF RInv, Sound, Denotes, Values, ValuesOf
    <3>3. QED
      BY <3>1, <3>2, ExactAgrees
  <2>2. QED
    BY <1>0, <1>4, <2>1 DEF Computing
<1>7. ASSUME NEW k \in DOMAIN metaMap, NEW l \in DOMAIN meta
      PROVE  Distinct(metaMap[k], meta[l])
  <2> DEFINE r == <<"metaMap", k>>
             s == <<"meta", l>>
  <2>1. metaMap[k] = Value(stored[k], r) /\ meta[l] = Value(stored[l], s) /\ r # s
    BY <1>3, <1>4
  <2>2. IsJson(stored[k]) /\ IsJson(stored[l])
    BY <1>1, <1>3, <1>4
  <2> HIDE DEF r, s
  <2>3. ~Scalar(Value(stored[k], r)) => Value(stored[k], r).ref = r
    BY <2>2, DecodedValue
  <2>4. ~Scalar(Value(stored[l], s)) => Value(stored[l], s).ref = s
    BY <2>2, DecodedValue
  <2>5. QED
    BY <2>1, <2>3, <2>4 DEF Distinct
<1>8. Past(D, J) /\ Coming(J) /\ SharedByMap /\ Phases(D)
  BY <1>0, <1>1, <1>5, <1>7 DEF Past, Coming, SharedByMap, Phases
<1>9. QED
  BY <1>6, <1>8 DEF History

\* A step that neither makes nor applies an operation.
LEMMA OtherHistory ==
  ASSUME Control, NEW D, NEW J, History(D, J), [Next]_vars,
         UNCHANGED <<stored, ops, metaMap, meta, applied, heap>>
  PROVE  History(D, J)'
<1>1. Past(D, J)' /\ Coming(J)' /\ Computing(D, J)' /\ SharedByMap'
  BY DEF History, Past, Coming, Computing, SharedByMap
<1>2. phase' # phase =>
        \/ phase = "find" /\ phase' \in {"done", "evaluate"}
        \/ phase = "evaluate" /\ ops = <<>> /\ phase' = "done"
        \/ phase = "evaluate" /\ phase' = "compute"
        \/ phase = "compute" /\ applied = Len(ops) /\ phase' = "done"
  BY DEF Next, Find, BeginRule, Evaluate, Evaluated, Compute, Computed, vars
<1>3. Phases(D)'
  <2>1. ops = <<>> => Len(ops) = 0
    OBVIOUS
  <2>2. QED
    BY <1>2, <2>1 DEF History, Phases
<1>4. QED
  BY <1>1, <1>3 DEF History

-----------------------------------------------------------------------------
(***************************************************************************)
(* An evaluation that makes an operation.                                  *)
(***************************************************************************)

\* The operation is recorded.
LEMMA MakeOps ==
  ASSUME RInv, NEW a \in left, Evaluate(a), ~UNCHANGED <<metaMap, ops, heap>>
  PROVE  LET op == [key |-> a.key, op |-> a.op, value |-> ResolveValue(a)]
             n == Len(ops) IN
         /\ n \in Nat /\ Len(ops') = n + 1 /\ ops'[n + 1] = op
         /\ \A i \in 1..n : ops'[i] = ops[i] /\ ops[i].value \in Values
         /\ DOMAIN ops = 1..n /\ DOMAIN ops' = 1..(n + 1)
         /\ UNCHANGED <<stored, meta, applied, phase>> /\ phase = "evaluate"
         /\ evaluated' = Append(evaluated, a) /\ EvaluateCondition(a)
<1> DEFINE op == [key |-> a.key, op |-> a.op, value |-> ResolveValue(a)]
<1>1. /\ ops' = Append(ops, op) /\ IsSequence(ops)
      /\ UNCHANGED <<stored, meta, applied, phase>> /\ phase = "evaluate"
      /\ evaluated' = Append(evaluated, a) /\ EvaluateCondition(a)
  BY DEF Evaluate, RInv, Control
<1> HIDE DEF op
<1>2. /\ Len(ops) \in Nat /\ Len(ops') = Len(ops) + 1 /\ ops'[Len(ops) + 1] = op
      /\ \A i \in 1..Len(ops) : ops'[i] = ops[i]
      /\ DOMAIN ops = 1..Len(ops) /\ DOMAIN ops' = 1..(Len(ops) + 1)
  BY <1>1, AppendIs, AppendElements, LengthIs
<1>3. \A i \in 1..Len(ops) : ops[i].value \in Values
  BY <1>2 DEF Values
<1>4. QED
  BY <1>1, <1>2, <1>3 DEF op

\* Its value is new, and so is what it changes in the heap.
LEMMA MakeHeap ==
  ASSUME RInv, Apart, Shallow, NEW a \in left, Evaluate(a),
         ~UNCHANGED <<metaMap, ops, heap>>
  PROVE  LET op == [key |-> a.key, op |-> a.op, value |-> ResolveValue(a)]
             h == ResolvedHeap(a)
             fresh == <<"new", Len(evaluated)>>
             old == At(metaMap, a.key) IN
         /\ Sound((Values \cup {op.value}) \cup {Null}, h)
         /\ \A v \in Values : /\ Distinct(op.value, v) /\ (~Scalar(v) => v.ref # fresh)
                              /\ Json(v, h) = Json(v, heap)
                              /\ ~Scalar(v) => h[v.ref] = heap[v.ref]
         /\ ~Scalar(op.value) => op.value.ref # fresh
         /\ op.op = "append" => Scalar(op.value)
         /\ Touched(h, heap', old, fresh) /\ Written(op, old, h, heap')
         /\ \A k : k # a.key => /\ k \in DOMAIN metaMap' <=> k \in DOMAIN metaMap
                                /\ k \in DOMAIN metaMap => metaMap'[k] = metaMap[k]
         /\ a.key \in DOMAIN metaMap' => Becomes(op, old, metaMap'[a.key], fresh)
         /\ JsonDoc(metaMap', heap') = Changed(JsonDoc(metaMap, heap), op, Json(op.value, h))
<1> DEFINE op == [key |-> a.key, op |-> a.op, value |-> ResolveValue(a)]
           h == ResolvedHeap(a)
           fresh == <<"new", Len(evaluated)>>
           old == At(metaMap, a.key)
           values == Values \cup {op.value}
           result == ApplyOp(op, metaMap, h, fresh)
<1>0. IsAction(a) /\ NoSharing
  BY DEF RInv, Control, Shallow
<1>1. metaMap' = result.doc /\ heap' = result.heap
  BY DEF Evaluate, AppliedToMap
<1>2. fresh \notin DOMAIN heap /\ fresh \notin DOMAIN h
  <2>1. fresh \notin DOMAIN heap /\ fresh # <<"event", Len(evaluated)>>
    BY Free DEF RInv
  <2>2. DOMAIN h \subseteq DOMAIN heap \cup {<<"event", Len(evaluated)>>}
    BY <1>0, ResolveSound
  <2> HIDE DEF h, fresh
  <2>3. QED
    BY <2>1, <2>2
<1>3. Sound(values, h) /\ Sound(Values, heap) /\ \A r \in DOMAIN heap : h[r] = heap[r]
  BY <1>0, ResolveSound DEF RInv
<1>4. IsOp(op) /\ op.value \in values /\ ValuesOf(metaMap) \subseteq values /\ op.key = a.key
  BY DEF IsOp, Values
<1>5. op.op = "append" => Scalar(op.value)
  BY DEF Shallow
<1>6. \A v \in Values : Distinct(op.value, v)
  BY <1>0, ResolveApart
<1>7. /\ Touched(h, result.heap, At(metaMap, op.key), fresh)
      /\ \A k : k # op.key => /\ k \in DOMAIN result.doc <=> k \in DOMAIN metaMap
                              /\ k \in DOMAIN metaMap => result.doc[k] = metaMap[k]
  <2> HIDE DEF op, h, fresh, values
  <2>1. LET r == ApplyOp(op, metaMap, h, fresh)
            was == At(metaMap, op.key) IN
        /\ Sound(values \cup ValuesOf(r.doc), r.heap)
        /\ Touched(h, r.heap, was, fresh)
        /\ \A k : k # op.key =>
             /\ k \in DOMAIN r.doc <=> k \in DOMAIN metaMap
             /\ k \in DOMAIN metaMap => r.doc[k] = metaMap[k]
        /\ op.key \in DOMAIN r.doc => ComesFrom(r.doc[op.key], was, op.value, fresh)
    BY <1>2, <1>3, <1>4, ApplySound
  <2>2. QED
    BY <2>1
<1>8. /\ Written(op, At(metaMap, op.key), h, result.heap)
      /\ op.key \in DOMAIN result.doc => Becomes(op, At(metaMap, op.key), result.doc[op.key], fresh)
  <2> HIDE DEF op, h, fresh, values
  <2>1. QED
    BY <1>2, <1>3, <1>4, ApplyWritten
<1>9. JsonDoc(result.doc, result.heap) = Changed(JsonDoc(metaMap, h), op, Json(op.value, h))
  <2> HIDE DEF op, h, fresh, values
  <2>1. QED
    BY <1>2, <1>3, <1>4, <1>5, ApplyMeaning DEF Apart
<1>10. JsonDoc(metaMap, h) = JsonDoc(metaMap, heap)
  BY <1>0, DocumentStays
<1>11. Sound(values \cup {Null}, h)
  <2> HIDE DEF values, h
  <2>1. QED
    BY <1>3, Kinds, ScalarSound
<1> HIDE DEF op, h, fresh, old, values, result
<1>12. ASSUME NEW v \in Values
       PROVE  /\ ~Scalar(v) => v.ref # fresh /\ h[v.ref] = heap[v.ref]
              /\ Json(v, h) = Json(v, heap)
  <2>1. ~Scalar(v) => v.ref \in DOMAIN heap
    BY <1>3, InHeap
  <2>2. QED
    BY <1>2, <1>3, <2>1 DEF Json, Scalar
<1>13. ~Scalar(op.value) => op.value.ref # fresh
  BY <1>2, <1>3, <1>4, InHeap
<1>14. QED
  BY <1>1, <1>4, <1>5, <1>6, <1>7, <1>8, <1>9, <1>10, <1>11, <1>12, <1>13
  DEF op, h, fresh, old, values

LEMMA MakeHistory ==
  ASSUME RInv, RInv', Apart, Shallow, NEW a \in left, Evaluate(a),
         ~UNCHANGED <<metaMap, ops, heap>>,
         NEW D, NEW J, History(D, J),
         NEW E, \A i \in 0..Len(ops) : E[i] = D[i], E[Len(ops) + 1] = JsonDoc(metaMap', heap'),
         NEW K, \A i \in 1..Len(ops) : K[i] = J[i],
         K[Len(ops) + 1] = Json(ResolveValue(a), ResolvedHeap(a))
  PROVE  History(E, K)'
<1> DEFINE x == ResolveValue(a)
           op == [key |-> a.key, op |-> a.op, value |-> x]
           n == Len(ops)
           h == ResolvedHeap(a)
           fresh == <<"new", Len(evaluated)>>
           old == At(metaMap, a.key)
           more == (Values \cup {x}) \cup {Null}
<1>0. op.value = x /\ op.key = a.key
  OBVIOUS
<1>1. /\ n \in Nat /\ Len(ops') = n + 1 /\ ops'[n + 1] = op
      /\ \A i \in 1..n : ops'[i] = ops[i] /\ ops[i].value \in Values
      /\ DOMAIN ops = 1..n /\ DOMAIN ops' = 1..(n + 1)
      /\ UNCHANGED <<stored, meta, applied, phase>> /\ phase = "evaluate"
  BY MakeOps
<1>2. /\ Sound(more, h)
      /\ \A v \in Values : /\ Distinct(x, v) /\ (~Scalar(v) => v.ref # fresh)
                           /\ Json(v, h) = Json(v, heap)
                           /\ ~Scalar(v) => h[v.ref] = heap[v.ref]
      /\ ~Scalar(x) => x.ref # fresh
      /\ op.op = "append" => Scalar(x)
      /\ Touched(h, heap', old, fresh) /\ Written(op, old, h, heap')
      /\ \A k : k # a.key => /\ k \in DOMAIN metaMap' <=> k \in DOMAIN metaMap
                             /\ k \in DOMAIN metaMap => metaMap'[k] = metaMap[k]
      /\ a.key \in DOMAIN metaMap' => Becomes(op, old, metaMap'[a.key], fresh)
      /\ JsonDoc(metaMap', heap') = Changed(JsonDoc(metaMap, heap), op, Json(x, h))
  BY MakeHeap
<1>3. \/ a.key \in DOMAIN metaMap /\ old = metaMap[a.key] /\ old \in Values
      \/ old = Null /\ Scalar(old)
  BY Kinds DEF At, Values, ValuesOf
<1>4. \A k \in DOMAIN meta : meta[k] \in Values
  BY DEF Values, ValuesOf
<1>5. \A k \in DOMAIN metaMap : metaMap[k] \in Values
  BY DEF Values, ValuesOf
<1>6. /\ applied = 0 /\ JsonDoc(metaMap, heap) = D[n]
      /\ \A k \in DOMAIN metaMap, l \in DOMAIN meta : Distinct(metaMap[k], meta[l])
  BY <1>1 DEF History, Phases
<1>7. K[n + 1] = Json(x, h) /\ E[n + 1] = Changed(D[n], op, Json(x, h))
  BY <1>2, <1>6
<1>8. Distinct(old, x)
  BY <1>2, <1>3 DEF Distinct
<1>9. Sound(Values, heap)
  BY DEF RInv
<1> HIDE DEF op, n, h, fresh, old, x, more
<1>10. \A i, k, f : Later(ops, J, i, k, f) => Later(ops', K, i, k, f)
  BY <1>1 DEF Later, n
<1>11. \A i \in 1..n : op.op = "merge" =>
         \A f \in DOMAIN Fields(Json(op.value, h)) : Later(ops', K, i, a.key, f)
  BY <1>0, <1>1, <1>7 DEF Later
<1>12. ASSUME NEW v \in Values, NEW j, NEW i, NEW k, Agrees(v, heap, j, ops, J, i, k)
       PROVE  Agrees(v, h, j, ops', K, i, k)
  <2>1. Agrees(v, h, j, ops, J, i, k)
    BY <1>2, <1>12, AgreesCell DEF Scalar
  <2>2. QED
    BY <1>10, <2>1, AgreesMore
<1>13. ASSUME NEW v \in Values \cup {x}, Distinct(old, v),
              NEW j, NEW i, NEW k, Agrees(v, h, j, ops', K, i, k)
       PROVE  Agrees(v, heap', j, ops', K, i, k)
  <2>1. v \in more
    BY DEF more
  <2>2. QED
    BY <1>2, <1>13, <2>1, AgreesApart
<1>14. Past(E, K)'
  <2>1. \A i \in 1..(n + 1) : E[i] = Changed(E[i - 1], ops'[i], K[i])
    <3>1. ASSUME NEW i \in 1..n
          PROVE  E[i] = Changed(E[i - 1], ops'[i], K[i])
      <4>1. i \in 0..n /\ i - 1 \in 0..n
        BY <1>1
      <4>2. D[i] = Changed(D[i - 1], ops[i], J[i])
        BY DEF History, Past, n
      <4>3. QED
        BY <1>1, <4>1, <4>2 DEF n
    <3>2. E[n + 1 - 1] = D[n]
      BY <1>1 DEF n
    <3>3. QED
      BY <1>1, <1>7, <3>1, <3>2
  <2>2. E[0] = stored'
    BY <1>1 DEF History, Past, n
  <2>3. IsFunction(E[n + 1])
    BY DEF n, JsonDoc, IsFunction
  <2>4. QED
    BY <1>1, <2>1, <2>2, <2>3 DEF Past
<1>15. ASSUME NEW j \in 1..(n + 1)
       PROVE  /\ ops'[j].op = "append" => Scalar(ops'[j].value)
              /\ Agrees(ops'[j].value, heap', K[j], ops', K, j, ops'[j].key)
              /\ ops'[j].op = "merge" => K[j] = Json(ops'[j].value, heap')
  <2>1. CASE j \in 1..n
    <3> DEFINE v == ops[j].value
    <3>1. /\ ops[j].op = "append" => Scalar(v)
          /\ Agrees(v, heap, J[j], ops, J, j, ops[j].key)
          /\ ops[j].op = "merge" => J[j] = Json(v, heap)
      BY <1>1, <1>6, <2>1 DEF History, Coming, n
    <3>2. v \in Values /\ ops'[j] = ops[j] /\ K[j] = J[j]
      BY <1>1, <2>1 DEF n
    <3>3. Shares(old, v) =>
            /\ ops[j].key = a.key /\ ops[j].op # "merge"
            /\ v.kind = "array" => v.len <= old.len
      BY <1>3, <2>1 DEF History, SharedByMap, Shares, Distinct, n
    <3> HIDE DEF v
    <3>4. Agrees(v, h, K[j], ops', K, j, ops[j].key)
      BY <1>12, <3>1, <3>2
    <3>5. Agrees(v, heap', K[j], ops', K, j, ops[j].key)
      <4>1. CASE Distinct(old, v)
        BY <1>13, <3>2, <3>4, <4>1
      <4>2. CASE Shares(old, v)
        <5>1. v \in more /\ old \in more
          BY <1>3, <3>2 DEF more
        <5>2. QED
          BY <1>2, <1>11, <2>1, <3>3, <3>4, <4>2, <5>1, AgreesWritten
      <4>3. QED
        BY <4>1, <4>2 DEF Shares
    <3>6. ops[j].op = "merge" => K[j] = Json(v, heap')
      <4>1. SUFFICES ASSUME ops[j].op = "merge"
                     PROVE  Json(v, heap') = Json(v, h)
        BY <1>2, <3>1, <3>2
      <4>2. Distinct(old, v) /\ v \in more
        BY <3>2, <3>3, <4>1 DEF Shares, more
      <4>3. QED
        BY <1>2, <4>2, JsonStays
    <3>7. QED
      BY <3>1, <3>2, <3>5, <3>6 DEF v
  <2>2. CASE j = n + 1
    <3>1. x \in more
      BY DEF more
    <3>2. x.kind = "object" => IsFunction(h[x.ref])
      BY <1>2, <3>1 DEF Sound, Denotes
    <3>3. Agrees(x, h, K[j], ops', K, j, a.key)
      BY <1>7, <2>2, <3>2, ExactAgrees
    <3>4. Agrees(x, heap', K[j], ops', K, j, a.key)
      BY <1>8, <1>13, <3>3
    <3>5. Json(x, heap') = Json(x, h)
      BY <1>2, <1>8, <3>1, JsonStays
    <3>6. QED
      BY <1>0, <1>1, <1>2, <1>7, <2>2, <3>4, <3>5
  <2>3. QED
    BY <1>1, <2>1, <2>2
<1>16. Coming(K)'
  BY <1>1, <1>15 DEF Coming
<1>17. Computing(E, K)'
  <2>1. /\ DOMAIN meta = DOMAIN D[0]
        /\ \A k \in DOMAIN meta : Agrees(meta[k], heap, D[0][k], ops, J, 0, k)
    BY <1>6 DEF History, Computing
  <2>2. E[0] = D[0] /\ meta' = meta /\ applied' = 0
    BY <1>1, <1>6 DEF n
  <2>3. ASSUME NEW k \in DOMAIN meta
        PROVE  Agrees(meta[k], heap', D[0][k], ops', K, 0, k)
    <3>1. Agrees(meta[k], h, D[0][k], ops', K, 0, k)
      BY <1>4, <1>12, <2>1
    <3>2. Distinct(old, meta[k])
      BY <1>3, <1>6 DEF Distinct
    <3>3. QED
      BY <1>4, <1>13, <3>1, <3>2
  <2>4. QED
    BY <2>1, <2>2, <2>3 DEF Computing
<1>18. ASSUME NEW j \in 1..(n + 1), NEW k \in DOMAIN metaMap', Shares(metaMap'[k], ops'[j].value)
       PROVE  /\ ops'[j].key = k /\ ops'[j].op # "merge"
              /\ ops'[j].value.kind = "array" => ops'[j].value.len <= metaMap'[k].len
  <2> DEFINE y == metaMap'[k]
             w == ops'[j].value
  <2>0. /\ ~Scalar(y) /\ ~Scalar(w) /\ y.ref = w.ref
        /\ j \in 1..n => ops'[j] = ops[j] /\ w \in Values
        /\ j \notin 1..n => j = n + 1 /\ w = x /\ ops'[j] = op
    BY <1>0, <1>1, <1>18 DEF Shares, Distinct
  <2>1. ASSUME NEW l \in DOMAIN metaMap, Shares(metaMap[l], w)
        PROVE  /\ j \in 1..n /\ ops'[j].key = l /\ ops'[j].op # "merge"
               /\ w.kind = "array" => w.len <= metaMap[l].len
    <3>1. j \in 1..n
      BY <1>2, <1>5, <2>0, <2>1 DEF Shares, Distinct
    <3>2. QED
      BY <1>1, <2>1, <3>1 DEF History, SharedByMap, n
  <2>2. CASE k # a.key
    <3>1. k \in DOMAIN metaMap /\ y = metaMap[k]
      BY <1>2, <1>18, <2>2
    <3>2. QED
      BY <1>18, <2>1, <3>1
  <2>3. CASE k = a.key
    <3>1. Becomes(op, old, y, fresh)
      BY <1>2, <2>3
    <3>2. y.ref # fresh
      BY <1>2, <2>0
    <3>3. CASE y = x /\ op.op \notin {"merge", "append"}
      <4>1. j = n + 1 /\ w = x /\ ops'[j] = op
        BY <1>2, <2>0, <3>3 DEF Distinct
      <4>2. x.kind = "array" => x.len <= x.len
        <5>1. x.kind = "array" => x.len \in Nat
          BY <1>2 DEF Sound, Denotes, more
        <5>2. QED
          BY <5>1
      <4>3. QED
        BY <1>0, <2>3, <3>3, <4>1, <4>2
    <3>4. CASE Grown(op, old, y)
      <4>1. old = metaMap[k] /\ k \in DOMAIN metaMap /\ old \in Values /\ y.ref = old.ref /\ ~Scalar(old)
        BY <1>3, <2>3, <3>4 DEF Grown
      <4>2. Shares(metaMap[k], w)
        BY <2>0, <4>1 DEF Shares, Distinct
      <4>3. j \in 1..n /\ ops'[j].key = k /\ ops'[j].op # "merge"
            /\ (w.kind = "array" => w.len <= old.len)
        BY <2>1, <4>1, <4>2
      <4>4. ASSUME w.kind = "array" PROVE w.len <= y.len
        <5>1. w \in Values /\ old.ref = w.ref
          BY <2>0, <4>1, <4>3
        <5>2. old.kind = "array" /\ old.len \in Nat /\ w.len \in Nat
          BY <1>9, <4>1, <4>4, <5>1 DEF Sound, Denotes, Scalar
        <5>3. y.len = old.len + 1 \/ y = old
          BY <3>4, <5>2 DEF Grown
        <5>4. QED
          BY <4>3, <4>4, <5>2, <5>3
      <4>5. QED
        BY <4>3, <4>4
    <3>5. QED
      BY <1>0, <2>0, <3>1, <3>2, <3>3, <3>4 DEF Becomes
  <2>4. QED
    BY <2>2, <2>3
<1>19. SharedByMap'
  BY <1>1, <1>18 DEF SharedByMap
<1>20. ASSUME NEW k \in DOMAIN metaMap', NEW l \in DOMAIN meta
       PROVE  Distinct(metaMap'[k], meta[l])
  <2>1. CASE k # a.key
    BY <1>2, <1>6, <2>1
  <2>2. CASE k = a.key
    <3>1. Becomes(op, old, metaMap'[k], fresh)
      BY <1>2, <2>2
    <3>2. meta[l] \in Values /\ Distinct(x, meta[l]) /\ (~Scalar(meta[l]) => meta[l].ref # fresh)
      BY <1>2, <1>4
    <3>3. Distinct(old, meta[l])
      BY <1>3, <1>6 DEF Distinct
    <3>4. QED
      BY <1>0, <3>1, <3>2, <3>3 DEF Becomes, Grown, Distinct
  <2>3. QED
    BY <2>1, <2>2
<1>21. Phases(E)'
  BY <1>1, <1>6, <1>20 DEF Phases, n
<1>22. QED
  BY <1>14, <1>16, <1>17, <1>19, <1>21 DEF History

-----------------------------------------------------------------------------
(***************************************************************************)
(* A step of ComputeResult.                                                *)
(***************************************************************************)

LEMMA ComputeIs ==
  ASSUME RInv, Compute
  PROVE  LET op == ops[applied + 1]
             result == ApplyOp(op, meta, heap, <<"result", applied>>) IN
         /\ meta' = result.doc /\ heap' = result.heap
         /\ applied' = applied + 1 /\ phase' = phase /\ phase = "compute"
         /\ UNCHANGED <<stored, evaluated, metaMap, ops>>
         /\ IsOp(op) /\ op.value \in Values /\ <<"result", applied>> \notin DOMAIN heap
         /\ applied \in Nat /\ Len(ops) \in Nat /\ DOMAIN ops = 1..Len(ops)
         /\ applied + 1 \in 1..Len(ops)
<1>1. /\ applied \in Nat /\ Len(ops) \in Nat /\ DOMAIN ops = 1..Len(ops)
      /\ <<"result", applied>> \notin DOMAIN heap
  BY Free, AppendElements DEF RInv, Control
<1>2. applied + 1 \in 1..Len(ops) /\ phase = "compute"
  BY <1>1 DEF Compute
<1>3. IsOp(ops[applied + 1]) /\ ops[applied + 1].value \in Values
  BY <1>1, <1>2 DEF RInv, Control, Values
<1>4. QED
  BY <1>1, <1>2, <1>3 DEF Compute

LEMMA ApplyHistory ==
  ASSUME RInv, Apart, Compute, NEW D, NEW J, History(D, J)
  PROVE  History(D, J)'
<1> DEFINE l == applied + 1
           op == ops[l]
           key == op.key
           fresh == <<"result", applied>>
           result == ApplyOp(op, meta, heap, fresh)
           old == At(meta, key)
           d == D[applied]
           e == Changed(d, op, J[l])
           more == Values \cup {Null}
<1>1. /\ meta' = result.doc /\ heap' = result.heap
      /\ applied' = l /\ phase' = phase /\ phase = "compute"
      /\ UNCHANGED <<stored, metaMap, ops>>
      /\ IsOp(op) /\ op.value \in Values /\ fresh \notin DOMAIN heap
      /\ applied \in Nat /\ Len(ops) \in Nat /\ DOMAIN ops = 1..Len(ops)
      /\ l \in 1..Len(ops) /\ l > applied
  BY ComputeIs
<1>2. Sound(Values, heap) /\ Sound(more, heap) /\ ValuesOf(meta) \subseteq Values
  BY Kinds, ScalarSound DEF RInv, Values
<1>3. /\ Touched(heap, heap', old, fresh)
      /\ \A k : k # key => /\ k \in DOMAIN meta' <=> k \in DOMAIN meta
                           /\ k \in DOMAIN meta => meta'[k] = meta[k]
  BY ComputeSound
<1>4. \A k, f : Later(ops, J, applied, k, f) <=>
                  \/ Later(ops, J, l, k, f)
                  \/ key = k /\ op.op = "merge" /\ f \in DOMAIN Fields(J[l])
  <2>1. applied + 1 \in DOMAIN ops /\ DOMAIN ops \subseteq Nat
    BY <1>1
  <2>2. QED
    BY <1>1, <2>1, LaterNext
<1>5. D[l] = e
  BY <1>1 DEF History, Past
<1>6. /\ op.op = "append" => Scalar(op.value)
      /\ Agrees(op.value, heap, J[l], ops, J, l, key)
      /\ op.op = "merge" => J[l] = Json(op.value, heap)
  BY <1>1 DEF History, Coming
<1>7. /\ DOMAIN meta = DOMAIN d
      /\ \A k \in DOMAIN meta : Agrees(meta[k], heap, d[k], ops, J, applied, k)
  BY DEF History, Computing
<1>8. Agrees(old, heap, At(d, key), ops, J, applied, key)
  <2>1. CASE key \in DOMAIN meta
    BY <1>7, <2>1 DEF At
  <2>2. CASE key \notin DOMAIN meta
    <3>1. old = Null /\ At(d, key) = Null
      BY <1>7, <2>2 DEF At
    <3>2. Null = Json(Null, heap) /\ Null.kind # "object"
      BY Kinds, JsonIs DEF Scalar
    <3>3. QED
      BY <3>1, <3>2, ExactAgrees
  <2>3. QED
    BY <2>1, <2>2
<1>9. /\ key \in DOMAIN result.doc <=> key \in DOMAIN e
      /\ key \in DOMAIN e => Agrees(result.doc[key], result.heap, e[key], ops, J, l, key)
  <2>1. key \in DOMAIN meta <=> key \in DOMAIN d
    BY <1>7
  <2> HIDE DEF op, fresh, d, l
  <2>2. QED
    BY <1>1, <1>2, <1>4, <1>6, <1>8, <2>1, ApplyAgrees
<1>10. ASSUME NEW k, k # key
       PROVE  /\ k \in DOMAIN e <=> k \in DOMAIN d
              /\ k \in DOMAIN d => e[k] = d[k]
  BY <1>10 DEF Changed, Put, Without
<1> HIDE DEF l, op, key, fresh, result, old, d, e, more
<1>11. old \in more /\ \A k \in DOMAIN meta : meta[k] \in more /\ (k # key => Distinct(old, meta[k]))
  BY <1>2, AtIs, OldApart DEF ValuesOf, Apart, old, more
<1>12. ASSUME NEW k \in DOMAIN meta'
       PROVE  k \in DOMAIN e /\ Agrees(meta'[k], heap', e[k], ops, J, l, k)
  <2>1. CASE k = key
    BY <1>1, <1>9, <1>12, <2>1
  <2>2. CASE k # key
    <3>1. k \in DOMAIN meta /\ meta'[k] = meta[k] /\ k \in DOMAIN e /\ e[k] = d[k]
      BY <1>3, <1>7, <1>10, <1>12, <2>2
    <3>2. Agrees(meta[k], heap, d[k], ops, J, l, k)
      BY <1>4, <1>7, <2>2, <3>1, AgreesMore
    <3>3. Agrees(meta[k], heap', d[k], ops, J, l, k)
      BY <1>2, <1>3, <1>11, <2>2, <3>1, <3>2, AgreesApart
    <3>4. QED
      BY <3>1, <3>3
  <2>3. QED
    BY <2>1, <2>2
<1>13. DOMAIN meta' = DOMAIN e
  <2>1. \A k : k \in DOMAIN meta' <=> k \in DOMAIN e
    BY <1>1, <1>3, <1>7, <1>9, <1>10
  <2>2. QED
    BY <2>1
<1>14. Computing(D, J)'
  BY <1>1, <1>5, <1>12, <1>13 DEF Computing
<1>15. ASSUME NEW j \in 1..Len(ops), j > l
       PROVE  /\ Agrees(ops[j].value, heap', J[j], ops, J, j, ops[j].key)
              /\ ops[j].op = "merge" => J[j] = Json(ops[j].value, heap')
  <2>1. ops[j].value \in more /\ Distinct(old, ops[j].value) /\ j > applied
    <3>1. j > applied /\ ops[j].value \in Values
      BY <1>1, <1>15 DEF Values, l
    <3>2. QED
      BY <1>1, <3>1, Kinds DEF Apart, At, Distinct, old, more
  <2>2. /\ Agrees(ops[j].value, heap, J[j], ops, J, j, ops[j].key)
        /\ ops[j].op = "merge" => J[j] = Json(ops[j].value, heap)
    BY <2>1 DEF History, Coming
  <2>3. Agrees(ops[j].value, heap', J[j], ops, J, j, ops[j].key)
    BY <1>2, <1>3, <2>1, <2>2, AgreesApart
  <2>4. Json(ops[j].value, heap') = Json(ops[j].value, heap)
    BY <1>2, <1>3, <2>1, JsonStays
  <2>5. QED
    BY <2>2, <2>3, <2>4
<1>16. Coming(J)'
  BY <1>1, <1>15 DEF History, Coming
<1>17. Past(D, J)' /\ SharedByMap' /\ Phases(D)'
  BY <1>1 DEF History, Past, SharedByMap, Phases
<1>18. QED
  BY <1>14, <1>16, <1>17 DEF History

-----------------------------------------------------------------------------
(***************************************************************************)
(* The document that is stored is what the actions evaluated mean.         *)
(***************************************************************************)

Intended ==
  \E D, J : History(D, J) /\ D[Len(ops)] = Meaning(stored, evaluated)

LEMMA InitIntended ==
  ASSUME Init
  PROVE  Intended
<1> DEFINE D == [m \in Nat |-> stored]
<1>1. History(D, D)
  BY InitHistory
<1>2. Len(ops) = 0 /\ evaluated = <<>> /\ Meaning(stored, <<>>) = stored
  BY MeaningOfNone DEF Init
<1>3. D[Len(ops)] = Meaning(stored, evaluated)
  BY <1>2
<1> HIDE DEF D
<1>4. QED
  BY <1>1, <1>3 DEF Intended

LEMMA EvaluateIntended ==
  ASSUME RInv, RInv', Apart, Shallow, NoStrings, Intended, NEW a \in left, Evaluate(a)
  PROVE  Intended'
<1> DEFINE n == Len(ops)
<1>1. PICK D, J : History(D, J) /\ D[n] = Meaning(stored, evaluated)
  BY DEF Intended
<1>2. JsonDoc(metaMap, heap) = D[n]
  BY <1>1 DEF History, Phases, Evaluate
<1>3. JsonDoc(metaMap', heap') = Meaning(stored, evaluated')
  <2>1. evaluated' = Append(evaluated, a) /\ IsSequence(evaluated)
    BY DEF Evaluate, RInv, Control
  <2>2. JsonDoc(metaMap', heap') = Step(JsonDoc(metaMap, heap), a)
    BY EvaluateMeaning
  <2>3. QED
    BY <1>1, <1>2, <2>1, <2>2, MeaningOfAppend
<1>4. stored' = stored
  BY DEF Evaluate
<1>5. CASE UNCHANGED <<metaMap, ops, heap>>
  <2>1. UNCHANGED <<stored, ops, metaMap, meta, applied, heap>> /\ [Next]_vars /\ Control
    BY <1>5 DEF Evaluate, Next, RInv
  <2>2. History(D, J)'
    BY <1>1, <2>1, OtherHistory
  <2>3. D[Len(ops')] = Meaning(stored', evaluated')
    BY <1>2, <1>3, <1>4, <1>5
  <2>4. QED
    BY <2>2, <2>3 DEF Intended
<1>6. CASE ~UNCHANGED <<metaMap, ops, heap>>
  <2>0. n \in Nat /\ Len(ops') = n + 1
    BY <1>6, MakeOps
  <2>1. PICK E : E = [m \in Nat |-> IF m = n + 1 THEN JsonDoc(metaMap', heap') ELSE D[m]]
    OBVIOUS
  <2>2. PICK K : K = [m \in Nat |-> IF m = n + 1 THEN Json(ResolveValue(a), ResolvedHeap(a))
                                    ELSE J[m]]
    OBVIOUS
  <2>3. E[n + 1] = JsonDoc(metaMap', heap') /\ \A i \in 0..n : E[i] = D[i]
    BY <2>0, <2>1
  <2>4. K[n + 1] = Json(ResolveValue(a), ResolvedHeap(a)) /\ \A i \in 1..n : K[i] = J[i]
    BY <2>0, <2>2
  <2>5. History(E, K)'
    BY <1>1, <1>6, <2>3, <2>4, MakeHistory
  <2>6. E[Len(ops')] = Meaning(stored', evaluated')
    BY <1>3, <1>4, <2>0, <2>3
  <2>7. QED
    BY <2>5, <2>6 DEF Intended
<1>7. QED
  BY <1>5, <1>6

LEMMA IntendedStep ==
  ASSUME RInv, RInv', Apart, Shallow, NoStrings, Intended, [Next]_vars
  PROVE  Intended'
<1>1. PICK D, J : History(D, J) /\ D[Len(ops)] = Meaning(stored, evaluated)
  BY DEF Intended
<1>2. CASE \E a \in left : Evaluate(a)
  BY <1>2, EvaluateIntended
<1>3. CASE Compute
  <2>1. UNCHANGED <<stored, evaluated, ops>>
    BY <1>3 DEF Compute
  <2>2. History(D, J)'
    BY <1>1, <1>3, ApplyHistory
  <2>3. QED
    BY <1>1, <2>1, <2>2 DEF Intended
<1>4. CASE UNCHANGED <<stored, evaluated, ops, metaMap, meta, applied, heap>>
  <2>1. History(D, J)'
    BY <1>1, <1>4, OtherHistory DEF RInv
  <2>2. QED
    BY <1>1, <1>4, <2>1 DEF Intended
<1>5. QED
  BY <1>2, <1>3, <1>4 DEF Next, Find, BeginRule, Evaluated, Computed, vars

\* When all operations are applied.
LEMMA AllApplied ==
  ASSUME RInv, NEW D, NEW J, History(D, J), applied = Len(ops)
  PROVE  JsonDoc(meta, heap) = D[Len(ops)]
<1>1. DOMAIN ops = 1..Len(ops)
  BY AppendElements DEF RInv, Control
<1>2. \A k, f : ~Later(ops, J, Len(ops), k, f)
  BY <1>1, LengthIs DEF Later, RInv, Control
<1>3. DOMAIN meta = DOMAIN D[Len(ops)] /\ IsFunction(D[Len(ops)])
  BY DEF History, Past, Computing
<1>4. ASSUME NEW k \in DOMAIN meta
      PROVE  D[Len(ops)][k] = Json(meta[k], heap)
  <2>1. Agrees(meta[k], heap, D[Len(ops)][k], ops, J, Len(ops), k)
    BY DEF History, Computing
  <2>2. meta[k].kind = "object" => IsFunction(heap[meta[k].ref])
    BY DEF RInv, Sound, Denotes, Values, ValuesOf
  <2>3. QED
    BY <1>2, <2>1, <2>2, AgreesExact
<1>5. QED
  BY <1>3, <1>4 DEF JsonDoc, IsFunction

\* The document that is stored is what RuleSemantics makes of the one that was
\* read and the actions evaluated, whatever the rules are: although the actions
\* were evaluated against one copy of the document and applied to another, and
\* both share with the operations what they hold.
THEOREM ResultMeant == Spec /\ []Shallow /\ []NoStrings => []ResultIsMeaning
<1>1. Init => RInv /\ Apart /\ Intended
  BY InitSound, InitApart, InitIntended
<1>2. RInv /\ Apart /\ Intended /\ Shallow /\ NoStrings /\ [Next]_vars
        => RInv' /\ Apart' /\ Intended'
  BY RInvStep, ApartStep, IntendedStep DEF Shallow
<1>3. RInv /\ Intended => ResultIsMeaning
  BY AllApplied DEF Intended, History, Phases, ResultIsMeaning
<1>4. QED
  BY <1>1, <1>2, <1>3, PTL DEF Spec

-----------------------------------------------------------------------------
(***************************************************************************)
(* The two copies of the document.  What they share was put into both by   *)
(* one operation; from then on the operations of its key have only grown   *)
(* it.  So what ComputeResult writes into it is what was evaluated.        *)
(***************************************************************************)

\* The operation, with the value x, leaves the object or list d in its cell.
Grows(op, x, d) ==
  \/ op.op = "merge" /\ d.kind = "object"
  \/ op.op = "append" /\ d.kind = "array"
  \/ op.op = "max" /\ d.kind \in {"object", "array"} /\ Number(x) <= 0

\* What d has become with the operations after the m-th: e.
Leads(d, e, o, J, m, k) ==
  /\ d.kind = e.kind
  /\ d.kind = "object" => SameFields(d.fields, e.fields, o, J, m, k)
  /\ d.kind = "array" => /\ Len(d.elems) \in 0..Len(e.elems)
                         /\ \A i \in 1..Len(d.elems) : d.elems[i] = e.elems[i]

Live(D, J) ==
  \A j \in 1..Len(ops), k \in DOMAIN metaMap :
    Shares(metaMap[k], ops[j].value) =>
      \A m \in j..Len(ops) :
        /\ Leads(D[m][k], D[Len(ops)][k], ops, J, m, k)
        /\ m > j /\ ops[m].key = k => Grows(ops[m], J[m], D[m - 1][k])

SharedByBoth ==
  \A k \in DOMAIN metaMap, l \in DOMAIN meta :
    Shares(metaMap[k], meta[l]) =>
      l = k /\ \E j \in 1..applied : Shares(metaMap[k], ops[j].value)

\* The document the rules were evaluated against is still the last one, but for
\* what is yet to be merged again into what it shares.
Mapped(D, J) ==
  /\ DOMAIN metaMap = DOMAIN D[Len(ops)]
  /\ \A k \in DOMAIN metaMap :
       /\ Agrees(metaMap[k], heap, D[Len(ops)][k], ops, J, applied, k)
       /\ \/ Json(metaMap[k], heap) = D[Len(ops)][k]
          \/ k \in DOMAIN meta /\ Shares(metaMap[k], meta[k])

LEMMA LeadsItself ==
  ASSUME NEW d, d.kind = "array" => IsSequence(d.elems), NEW o, NEW J, NEW m, NEW k
  PROVE  Leads(d, d, o, J, m, k)
BY LengthIs DEF Leads, SameFields

LEMMA LeadsOn ==
  ASSUME NEW d, NEW e, NEW o, NEW J, NEW m, NEW k, Leads(d, e, o, J, m, k),
         NEW p, NEW K, \A f : Later(o, J, m, k, f) => Later(p, K, m, k, f)
  PROVE  Leads(d, e, p, K, m, k)
BY DEF Leads, SameFields

LEMMA LeadsFurther ==
  ASSUME NEW doc, NEW op, op.key \in DOMAIN doc, NEW x, Grows(op, x, doc[op.key]),
         doc[op.key].kind = "array" => IsSequence(doc[op.key].elems),
         NEW d, NEW o, NEW J, NEW m, Leads(d, doc[op.key], o, J, m, op.key),
         op.op = "merge" => \A f \in DOMAIN Fields(x) : Later(o, J, m, op.key, f)
  PROVE  Leads(d, Changed(doc, op, x)[op.key], o, J, m, op.key)
<1> DEFINE key == op.key
           w == doc[key]
           e == Changed(doc, op, x)[key]
           F == Fields(x)
<1>1. At(doc, key) = w
  BY DEF At
<1>2. CASE op.op = "merge" /\ w.kind = "object"
  <2>1. e = JObject(Over(F, Fields(w))) /\ Fields(w) = w.fields
    BY <1>1, <1>2 DEF Changed, Put, Fields
  <2>2. e.kind = "object" /\ e.fields = Over(F, w.fields)
    BY <2>1 DEF JObject
  <2>3. d.kind = "object" /\ SameFields(d.fields, w.fields, o, J, m, key)
    BY <1>2 DEF Leads
  <2>4. \A f \in DOMAIN F : Later(o, J, m, key, f)
    BY <1>2
  <2> HIDE DEF e, w, F, key
  <2>5. SameFields(d.fields, Over(F, w.fields), o, J, m, key)
    BY <2>3, <2>4 DEF SameFields, Over
  <2>6. QED
    BY <2>2, <2>3, <2>5 DEF Leads, e, key
<1>3. CASE op.op = "append" /\ w.kind = "array"
  <2> DEFINE s == w.elems
             t == Append(s, x)
  <2>1. e = JArray(t)
    BY <1>1, <1>3 DEF Changed, Put, Elements
  <2>2. e.kind = "array" /\ e.elems = t
    BY <2>1 DEF JArray
  <2>3. Len(t) = Len(s) + 1 /\ Len(s) \in Nat /\ \A i \in 1..Len(s) : t[i] = s[i]
    BY <1>3, AppendIs, AppendElements, LengthIs
  <2>4. /\ d.kind = "array" /\ Len(d.elems) \in 0..Len(s)
        /\ \A i \in 1..Len(d.elems) : d.elems[i] = s[i]
    BY <1>3 DEF Leads
  <2> HIDE DEF e, s, t
  <2>5. QED
    BY <2>2, <2>3, <2>4 DEF Leads, e
<1>4. CASE op.op = "max" /\ w.kind \in {"object", "array"} /\ Number(x) <= 0
  <2>1. Number(w) = 0
    BY <1>4 DEF Number
  <2>2. Changed(doc, op, x) = doc
    BY <1>1, <1>4, <2>1 DEF Changed
  <2>3. QED
    BY <2>2
<1>5. QED
  BY <1>2, <1>3, <1>4 DEF Grows

\* The elements of a list are a sequence.
LEMMA JsonTyped ==
  ASSUME NEW values, NEW h, Sound(values, h), NEW v \in values
  PROVE  Json(v, h).kind = "array" => IsSequence(Json(v, h).elems)
<1> SUFFICES ASSUME v.kind = "array" PROVE IsSequence(Json(v, h).elems)
  BY JsonIs
<1> DEFINE s == SubSeq(h[v.ref], 1, v.len)
<1>1. IsSequence(s)
  BY PrefixIs DEF Sound, Denotes
<1>2. Json(v, h) = JArray(s)
  BY JsonIs
<1> HIDE DEF s
<1>3. QED
  BY <1>1, <1>2 DEF JArray

LEMMA MakeLive ==
  ASSUME RInv, RInv', Apart, Shallow, NEW a \in left, Evaluate(a),
         ~UNCHANGED <<metaMap, ops, heap>>,
         NEW D, NEW J, History(D, J), Live(D, J),
         NEW E, \A i \in 0..Len(ops) : E[i] = D[i], E[Len(ops) + 1] = JsonDoc(metaMap', heap'),
         NEW K, \A i \in 1..Len(ops) : K[i] = J[i],
         K[Len(ops) + 1] = Json(ResolveValue(a), ResolvedHeap(a))
  PROVE  Live(E, K)'
<1> DEFINE x == ResolveValue(a)
           op == [key |-> a.key, op |-> a.op, value |-> x]
           n == Len(ops)
           h == ResolvedHeap(a)
           fresh == <<"new", Len(evaluated)>>
           old == At(metaMap, a.key)
           key == a.key
<1>0. op.value = x /\ op.key = key
  OBVIOUS
<1>1. /\ n \in Nat /\ Len(ops') = n + 1 /\ ops'[n + 1] = op
      /\ \A i \in 1..n : ops'[i] = ops[i] /\ ops[i].value \in Values
      /\ DOMAIN ops = 1..n /\ DOMAIN ops' = 1..(n + 1) /\ phase = "evaluate"
  BY MakeOps
<1>2. /\ \A v \in Values : Distinct(x, v) /\ (~Scalar(v) => v.ref # fresh)
      /\ ~Scalar(x) => x.ref # fresh
      /\ \A k : k # key => /\ k \in DOMAIN metaMap' <=> k \in DOMAIN metaMap
                           /\ k \in DOMAIN metaMap => metaMap'[k] = metaMap[k]
      /\ key \in DOMAIN metaMap' => Becomes(op, old, metaMap'[key], fresh)
      /\ JsonDoc(metaMap', heap') = Changed(JsonDoc(metaMap, heap), op, Json(x, h))
  BY MakeHeap
<1>3. (key \in DOMAIN metaMap /\ old = metaMap[key]) \/ Scalar(old)
  BY Kinds DEF At
<1>4. \A k \in DOMAIN metaMap : metaMap[k] \in Values
  BY DEF Values, ValuesOf
<1>5. JsonDoc(metaMap, heap) = D[n]
  BY <1>1 DEF History, Phases
<1>6. Sound(Values, heap) /\ Sound(Values', heap')
  BY DEF RInv, Sound, Denotes
<1>7. /\ DOMAIN D[n] = DOMAIN metaMap
      /\ \A k \in DOMAIN metaMap : D[n][k] = Json(metaMap[k], heap)
  BY <1>5 DEF JsonDoc
<1>8. /\ E[n + 1] = Changed(D[n], op, K[n + 1]) /\ DOMAIN E[n + 1] = DOMAIN metaMap'
      /\ \A k \in DOMAIN metaMap' : E[n + 1][k] = Json(metaMap'[k], heap')
  BY <1>2, <1>5 DEF JsonDoc
<1>9. K[n + 1] = Json(x, h)
  OBVIOUS
<1> HIDE DEF op, n, h, fresh, old, x, key
<1>10. \A i, k, f : Later(ops, J, i, k, f) => Later(ops', K, i, k, f)
  BY <1>1 DEF Later, n
<1>11. \A i \in 1..n : op.op = "merge" =>
         \A f \in DOMAIN Fields(K[n + 1]) : Later(ops', K, i, key, f)
  BY <1>0, <1>1 DEF Later
<1>12. ASSUME NEW k \in DOMAIN metaMap'
       PROVE  Leads(E[n + 1][k], E[n + 1][k], ops', K, n + 1, k)
  <2>1. metaMap'[k] \in Values'
    BY DEF Values, ValuesOf
  <2>2. E[n + 1][k].kind = "array" => IsSequence(E[n + 1][k].elems)
    BY <1>6, <1>8, <2>1, JsonTyped
  <2>3. QED
    BY <2>2, LeadsItself
<1>13. ASSUME NEW j \in 1..(n + 1), NEW k \in DOMAIN metaMap', Shares(metaMap'[k], ops'[j].value),
              NEW m \in j..(n + 1)
       PROVE  /\ Leads(E[m][k], E[n + 1][k], ops', K, m, k)
              /\ m > j /\ ops'[m].key = k => Grows(ops'[m], K[m], E[m - 1][k])
  <2> DEFINE y == metaMap'[k]
             w == ops'[j].value
  <2>0. /\ ~Scalar(y) /\ ~Scalar(w) /\ y.ref = w.ref
        /\ j \in 1..n => ops'[j] = ops[j] /\ w \in Values
        /\ j \notin 1..n => j = n + 1 /\ w = x /\ ops'[j] = op
    BY <1>0, <1>1, <1>13 DEF Shares, Distinct
  <2>1. CASE m = n + 1 /\ j = n + 1
    BY <1>1, <1>12, <2>1
  <2>2. ASSUME NEW l \in DOMAIN metaMap, Shares(metaMap[l], w)
        PROVE  /\ j \in 1..n
               /\ \A i \in j..n : /\ Leads(D[i][l], D[n][l], ops', K, i, l)
                                  /\ i > j /\ ops'[i].key = l => Grows(ops'[i], K[i], E[i - 1][l])
    <3>1. j \in 1..n
      BY <1>2, <1>4, <2>0, <2>2 DEF Shares, Distinct
    <3>2. ASSUME NEW i \in j..n
          PROVE  /\ Leads(D[i][l], D[n][l], ops', K, i, l)
                 /\ i > j /\ ops'[i].key = l => Grows(ops'[i], K[i], E[i - 1][l])
      <4>1. /\ Leads(D[i][l], D[n][l], ops, J, i, l)
            /\ i > j /\ ops[i].key = l => Grows(ops[i], J[i], D[i - 1][l])
        BY <2>0, <2>2, <3>1 DEF Live, n
      <4>2. Leads(D[i][l], D[n][l], ops', K, i, l)
        BY <1>10, <4>1, LeadsOn
      <4>3. ops'[i] = ops[i] /\ K[i] = J[i] /\ E[i - 1] = D[i - 1]
        <5>1. i \in 1..n /\ i - 1 \in 0..n
          BY <1>1, <3>1
        <5>2. QED
          BY <1>1, <5>1 DEF n
      <4>4. QED
        BY <4>1, <4>2, <4>3
    <3>3. QED
      BY <3>1, <3>2
  <2>3. CASE k # key
    <3>1. k \in DOMAIN metaMap /\ y = metaMap[k] /\ E[n + 1][k] = D[n][k]
      BY <1>0, <1>2, <1>7, <1>8, <1>13, <2>3 DEF Changed, Put, Without
    <3>2. j \in 1..n
      BY <1>13, <2>2, <3>1
    <3>3. CASE m = n + 1
      BY <1>0, <1>1, <1>12, <2>3, <3>3
    <3>4. CASE m \in j..n
      <4>1. /\ Leads(D[m][k], D[n][k], ops', K, m, k)
            /\ m > j /\ ops'[m].key = k => Grows(ops'[m], K[m], E[m - 1][k])
        BY <1>13, <2>2, <3>1, <3>4
      <4>2. E[m] = D[m]
        BY <1>1, <3>2, <3>4 DEF n
      <4>3. QED
        BY <3>1, <4>1, <4>2
    <3>5. QED
      BY <1>1, <3>2, <3>3, <3>4
  <2>4. CASE k = key
    <3>1. Becomes(op, old, y, fresh) /\ y.ref # fresh
      BY <1>2, <2>0, <2>4
    <3>2. CASE y = x /\ op.op \notin {"merge", "append"}
      <4>1. j = n + 1
        BY <1>2, <2>0, <3>2 DEF Distinct
      <4>2. QED
        BY <1>1, <2>1, <4>1
    <3>3. CASE Grown(op, old, y)
      <4>1. key \in DOMAIN metaMap /\ old = metaMap[key] /\ Shares(metaMap[key], w)
        BY <1>3, <2>0, <3>3 DEF Grown, Shares, Distinct
      <4>2. j \in 1..n
        BY <2>2, <4>1
      <4>3. /\ D[n][key].kind = old.kind
            /\ D[n][key].kind = "array" => IsSequence(D[n][key].elems)
        BY <1>4, <1>6, <1>7, <4>1, JsonIs, JsonTyped
      <4>4. Grows(op, K[n + 1], D[n][key])
        <5>1. Number(K[n + 1]) = UtilToFloat(op.value)
          BY <1>0, <1>9, PartsOfJson
        <5>2. QED
          BY <3>3, <4>3, <5>1 DEF Grown, Grows, Scalar
      <4>5. CASE m = n + 1
        <5>1. E[m - 1] = D[n] /\ ops'[m] = op
          BY <1>1, <4>5 DEF n
        <5>2. QED
          BY <1>12, <2>4, <4>4, <4>5, <5>1
      <4>6. CASE m \in j..n
        <5>1. /\ Leads(D[m][key], D[n][key], ops', K, m, key)
              /\ m > j /\ ops'[m].key = key => Grows(ops'[m], K[m], E[m - 1][key])
          BY <2>2, <4>1, <4>6
        <5>2. m \in 1..n /\ E[m] = D[m]
          BY <1>1, <4>2, <4>6 DEF n
        <5>3. Leads(D[m][key], Changed(D[n], op, K[n + 1])[key], ops', K, m, key)
          BY <1>0, <1>7, <1>11, <4>1, <4>3, <4>4, <5>1, <5>2, LeadsFurther
        <5>4. QED
          BY <1>8, <2>4, <5>1, <5>2, <5>3
      <4>7. QED
        BY <1>1, <4>2, <4>5, <4>6
    <3>4. QED
      BY <1>0, <2>0, <3>1, <3>2, <3>3 DEF Becomes
  <2>5. QED
    BY <2>3, <2>4
<1>14. QED
  BY <1>1, <1>13 DEF Live

\* As long as the rules are evaluated nothing is shared, and metaMap is the last
\* document.
LEMMA MappedAtFirst ==
  ASSUME RInv, NEW D, NEW J, Phases(D), phase \in {"find", "evaluate"}
  PROVE  SharedByBoth /\ Mapped(D, J)
<1>1. /\ JsonDoc(metaMap, heap) = D[Len(ops)]
      /\ \A k \in DOMAIN metaMap, l \in DOMAIN meta : Distinct(metaMap[k], meta[l])
  BY DEF Phases
<1>2. ASSUME NEW k \in DOMAIN metaMap
      PROVE  /\ D[Len(ops)][k] = Json(metaMap[k], heap)
             /\ Agrees(metaMap[k], heap, D[Len(ops)][k], ops, J, applied, k)
  <2>1. D[Len(ops)][k] = Json(metaMap[k], heap)
    BY <1>1 DEF JsonDoc
  <2>2. metaMap[k].kind = "object" => IsFunction(heap[metaMap[k].ref])
    BY DEF RInv, Sound, Denotes, Values, ValuesOf
  <2>3. QED
    BY <2>1, <2>2, ExactAgrees
<1>3. DOMAIN metaMap = DOMAIN D[Len(ops)]
  BY <1>1 DEF JsonDoc
<1>4. QED
  BY <1>1, <1>2, <1>3 DEF SharedByBoth, Mapped, Shares

\* What ComputeResult writes into a cell of both.
LEMMA ApplyMapped ==
  ASSUME RInv, RInv', Apart, Compute, NEW D, NEW J, History(D, J), History(D, J)',
         Live(D, J), SharedByBoth, Mapped(D, J)
  PROVE  SharedByBoth' /\ Mapped(D, J)'
<1> DEFINE l == applied + 1
           op == ops[l]
           key == op.key
           fresh == <<"result", applied>>
           result == ApplyOp(op, meta, heap, fresh)
           old == At(meta, key)
           n == Len(ops)
           d == D[applied]
           e == D[l]
           t == D[n]
<1>1. /\ meta' = result.doc /\ heap' = result.heap /\ applied' = l
      /\ UNCHANGED <<stored, metaMap, ops>>
      /\ IsOp(op) /\ op.value \in Values /\ fresh \notin DOMAIN heap
      /\ applied \in Nat /\ n \in Nat /\ l \in 1..n /\ l > applied /\ l - 1 = applied
      /\ DOMAIN ops = 1..n
  BY ComputeIs
<1>2. Sound(Values, heap) /\ ValuesOf(meta) \subseteq Values
  BY DEF RInv, Values
<1>3. /\ Touched(heap, heap', old, fresh)
      /\ \A k : k # key => /\ k \in DOMAIN meta' <=> k \in DOMAIN meta
                           /\ k \in DOMAIN meta => meta'[k] = meta[k]
  BY ComputeSound
<1>4. /\ Written(op, old, heap, heap')
      /\ key \in DOMAIN meta' => Becomes(op, old, meta'[key], fresh)
  <2> HIDE DEF op, fresh
  <2>1. QED
    BY <1>1, <1>2, ApplyWritten
<1>5. \A k, f : Later(ops, J, applied, k, f) <=>
                  \/ Later(ops, J, l, k, f)
                  \/ key = k /\ op.op = "merge" /\ f \in DOMAIN Fields(J[l])
  <2>1. applied + 1 \in DOMAIN ops /\ DOMAIN ops \subseteq Nat
    BY <1>1
  <2>2. QED
    BY <1>1, <2>1, LaterNext
<1>6. e = Changed(d, op, J[l])
  BY <1>1 DEF History, Past
<1>7. /\ op.op = "append" => Scalar(op.value)
      /\ Agrees(op.value, heap, J[l], ops, J, l, key)
  BY <1>1 DEF History, Coming
<1>8. /\ DOMAIN meta = DOMAIN d
      /\ \A k \in DOMAIN meta : Agrees(meta[k], heap, d[k], ops, J, applied, k)
  BY DEF History, Computing
<1>9. /\ DOMAIN meta' = DOMAIN e
      /\ \A k \in DOMAIN meta' : Agrees(meta'[k], heap', e[k], ops, J, l, k)
  BY <1>1 DEF History, Computing
<1>10. \A k \in DOMAIN metaMap :
         /\ metaMap[k] \in Values
         /\ metaMap[k].kind = "object" => IsFunction(heap'[metaMap[k].ref])
  <2>1. \A k \in DOMAIN metaMap : metaMap[k] \in Values /\ metaMap[k] \in Values'
    BY <1>1 DEF Values, ValuesOf
  <2>2. Sound(Values', heap')
    BY DEF RInv, Sound, Denotes
  <2>3. QED
    BY <2>1, <2>2 DEF Sound, Denotes
<1>11. (key \in DOMAIN meta /\ old = meta[key] /\ old \in Values) \/ Scalar(old)
  BY Kinds DEF At, Values, ValuesOf
<1>12. \A v \in Values : ~Scalar(v) => v.ref # fresh
  BY <1>1, <1>2, InHeap
<1>13. \A k \in DOMAIN metaMap : Shares(metaMap[k], op.value) => key = k
  BY <1>1 DEF History, SharedByMap
<1> HIDE DEF l, op, key, fresh, result, old, n, d, e, t
<1>14. ASSUME NEW k \in DOMAIN metaMap, Shares(metaMap[k], old)
       PROVE  /\ k = key /\ key \in DOMAIN meta /\ old = meta[key] /\ old \in Values
              /\ \E j \in 1..applied : Shares(metaMap[k], ops[j].value)
  <2>1. key \in DOMAIN meta /\ old = meta[key] /\ old \in Values
    BY <1>11, <1>14 DEF Shares, Distinct
  <2>2. QED
    BY <1>14, <2>1 DEF SharedByBoth
<1>15. ASSUME NEW k \in DOMAIN metaMap, NEW m \in DOMAIN meta', Shares(metaMap[k], meta'[m])
       PROVE  m = k /\ \E j \in 1..l : Shares(metaMap[k], ops[j].value)
  <2>0. \A j \in 1..applied : j \in 1..l
    BY <1>1
  <2>1. CASE m # key
    BY <1>3, <1>15, <2>0, <2>1 DEF SharedByBoth
  <2>2. CASE m = key
    <3> DEFINE y == meta'[m]
    <3>1. Becomes(op, old, y, fresh)
      BY <1>4, <2>2
    <3>2. ~Scalar(y) /\ y.ref # fresh /\ ~Scalar(metaMap[k]) /\ y.ref = metaMap[k].ref
      BY <1>10, <1>12, <1>15 DEF Shares, Distinct
    <3>3. CASE y = op.value
      BY <1>1, <1>13, <1>15, <2>2, <3>3 DEF op
    <3>4. CASE Grown(op, old, y)
      <4>1. Shares(metaMap[k], old)
        BY <3>2, <3>4 DEF Grown, Shares, Distinct
      <4>2. QED
        BY <1>14, <2>0, <2>2, <4>1
    <3>5. QED
      BY <3>1, <3>2, <3>3, <3>4 DEF Becomes
  <2>3. QED
    BY <2>1, <2>2
<1>16. SharedByBoth'
  BY <1>1, <1>15 DEF SharedByBoth
<1>17. ASSUME NEW k \in DOMAIN metaMap
       PROVE  /\ Agrees(metaMap[k], heap', t[k], ops, J, l, k)
              /\ \/ Json(metaMap[k], heap') = t[k]
                 \/ k \in DOMAIN meta' /\ Shares(metaMap[k], meta'[k])
  <2> DEFINE v == metaMap[k]
  <2>0. /\ Agrees(v, heap, t[k], ops, J, applied, k) /\ v \in Values
        /\ \/ Json(v, heap) = t[k]
           \/ k \in DOMAIN meta /\ Shares(v, meta[k])
    BY <1>10 DEF Mapped, t, n
  <2> HIDE DEF v
  <2>1. ASSUME Json(v, heap') = t[k]
        PROVE  Agrees(v, heap', t[k], ops, J, l, k)
    <3>1. v.kind = "object" => IsFunction(heap'[v.ref])
      BY <1>10 DEF v
    <3>2. QED
      BY <2>1, <3>1, ExactAgrees
  <2>2. CASE Distinct(old, v)
    <3>1. Json(v, heap') = Json(v, heap)
      BY <1>2, <1>3, <2>0, <2>2, JsonStays
    <3>2. CASE Json(v, heap) = t[k]
      BY <2>1, <3>1, <3>2 DEF v
    <3>3. CASE k \in DOMAIN meta /\ Shares(v, meta[k])
      <4>1. k # key
        BY <2>2, <3>3 DEF Shares, Distinct, old, At
      <4>2. Agrees(v, heap, t[k], ops, J, l, k)
        BY <1>5, <2>0, <4>1, AgreesMore
      <4>3. Agrees(v, heap', t[k], ops, J, l, k)
        BY <1>2, <1>3, <2>0, <2>2, <4>2, AgreesApart
      <4>4. QED
        BY <1>3, <3>3, <4>1, <4>3 DEF v
    <3>4. QED
      BY <2>0, <3>2, <3>3
  <2>3. CASE Shares(v, old)
    <3>1. /\ k = key /\ key \in DOMAIN meta /\ old = meta[key] /\ old \in Values
          /\ ~Scalar(v) /\ ~Scalar(old) /\ v.ref = old.ref
      BY <1>14, <2>3 DEF Shares, Distinct, v
    <3>2. PICK j \in 1..applied : Shares(metaMap[k], ops[j].value)
      BY <1>14, <2>3 DEF v
    <3>3. Leads(e[k], t[k], ops, J, l, k) /\ Grows(op, J[l], d[k])
      <4>1. j \in 1..n /\ l \in j..n /\ l > j
        BY <1>1, <3>2
      <4>2. /\ Leads(D[l][k], t[k], ops, J, l, k)
            /\ ops[l].key = k => Grows(ops[l], J[l], D[l - 1][k])
        BY <3>2, <4>1 DEF Live, n, t
      <4>3. QED
        BY <1>1, <3>1, <4>2 DEF op, key, d, e
    <3>4. d[k].kind = old.kind /\ v.kind = old.kind
      BY <1>2, <1>8, <2>0, <3>1 DEF Agrees, Sound, Scalar
    <3>5. CASE op.op = "merge" /\ old.kind = "object"
      <4>1. /\ key \in DOMAIN meta' /\ meta'[key].kind = "object" /\ meta'[key].ref = old.ref
        <5>1. meta' = Put(meta, key, Object(old.ref))
          BY <1>1, <3>5 DEF result, ApplyOp, NewValue, Merged, Keeps, old, key
        <5>2. QED
          BY <5>1, Kinds DEF Put
      <4>2. SameFields(heap'[v.ref], e[k].fields, ops, J, l, k) /\ e[k].kind = "object"
        BY <1>9, <3>1, <4>1 DEF Agrees
      <4>3. SameFields(e[k].fields, t[k].fields, ops, J, l, k)
        BY <3>3, <4>2 DEF Leads
      <4>4. SameFields(heap'[v.ref], t[k].fields, ops, J, l, k)
        BY <4>2, <4>3 DEF SameFields
      <4>5. v.kind = "object" /\ t[k].kind = "object" /\ IsObject(t[k])
        BY <2>0, <3>4, <3>5 DEF Agrees
      <4>6. Agrees(v, heap', t[k], ops, J, l, k)
        BY <4>4, <4>5 DEF Agrees
      <4>7. Shares(v, meta'[k])
        BY <3>1, <4>1 DEF Shares, Distinct, Scalar
      <4>8. QED
        BY <3>1, <4>1, <4>6, <4>7 DEF v
    <3>6. CASE op.op = "append" /\ old.kind = "array"
      <4> DEFINE s == heap[v.ref]
                 g == heap'[v.ref]
                 q == old.len
                 x == op.value
      <4>1. /\ IsSequence(s) /\ q \in Nat /\ v.len \in Nat /\ q <= Len(s) /\ v.len <= Len(s)
            /\ v.ref \in DOMAIN heap
        BY <1>2, <2>0, <3>1, <3>4, <3>6 DEF Sound, Denotes
      <4>2. t[k] = Json(v, heap) /\ v.kind = "array" /\ d[k] = Json(old, heap)
        BY <1>8, <2>0, <3>1, <3>4, <3>6 DEF Agrees
      <4>3. J[l] = x
        BY <1>7, <3>6, JsonIs DEF Agrees, Scalar
      <4> DEFINE p == SubSeq(s, 1, q)
                 c == SubSeq(s, 1, v.len)
                 b == Append(p, x)
      <4>4. t[k] = JArray(c)
        BY <4>2, JsonIs
      <4>5. e[k] = JArray(b)
        <5>1. At(d, key) = d[k] /\ Elements(d[k]) = p
          BY <1>8, <3>1, <3>6, <4>2, PartsOfJson DEF At
        <5>2. e = Put(d, key, JArray(Append(Elements(At(d, key)), J[l])))
          BY <1>6, <3>6 DEF Changed, key
        <5>3. QED
          BY <3>1, <4>3, <5>1, <5>2 DEF Put
      <4>6. /\ IsSequence(p) /\ Len(p) = q /\ IsSequence(c) /\ Len(c) = v.len
            /\ c = [i \in 1..v.len |-> s[i]]
        <5> HIDE DEF s, q
        <5>1. QED
          BY <4>1, PrefixIs, PrefixAt
      <4>7. Len(b) = q + 1 /\ b[q + 1] = x
        <5> HIDE DEF p, q, x
        <5>1. QED
          BY <4>6, AppendIs, AppendElements
      <4>8. q + 1 \in 1..v.len /\ s[q + 1] = x
        <5> HIDE DEF s, p, q, x, c, b
        <5>1. /\ e[k].kind = "array" /\ e[k].elems = b
              /\ t[k].kind = "array" /\ t[k].elems = c
          BY <4>4, <4>5 DEF JArray
        <5>2. Len(b) \in 0..Len(c) /\ \A i \in 1..Len(b) : b[i] = c[i]
          BY <3>3, <5>1 DEF Leads
        <5>3. q + 1 \in 1..v.len /\ q + 1 \in 1..Len(b)
          BY <4>1, <4>6, <4>7, <5>2
        <5>4. c[q + 1] = x
          BY <4>7, <5>2, <5>3
        <5>5. QED
          BY <4>6, <5>3, <5>4
      <4>9. g = s
        <5>1. g = s \/ g = [s EXCEPT ![q + 1] = x]
          BY <1>4, <3>1, <3>6, <4>1 DEF Written
        <5>2. s = [i \in 1..Len(s) |-> s[i]]
          BY <4>1, SequenceAt
        <5> HIDE DEF s, g, q, x
        <5>3. QED
          BY <4>8, <5>1, <5>2
      <4>10. Json(v, heap') = t[k]
        BY <4>2, <4>9, JsonIs
      <4>11. QED
        BY <2>1, <4>10 DEF v
    <3>7. CASE op.op = "max" /\ old.kind \in {"object", "array"} /\ Number(J[l]) <= 0
      <4>1. UtilToFloat(old) = 0 /\ Number(J[l]) = UtilToFloat(op.value)
        BY <1>7, <3>7, AgreesParts DEF UtilToFloat
      <4>2. Keeps(op, old)
        BY <3>7, <4>1 DEF Keeps
      <4>3. meta' = meta /\ heap' = heap
        BY <1>1, <3>7, <4>2 DEF result, ApplyOp, old, key
      <4>4. Agrees(v, heap', t[k], ops, J, l, k)
        BY <1>5, <2>0, <3>7, <4>3, AgreesMore
      <4>5. QED
        BY <2>0, <4>3, <4>4 DEF v
    <3>8. QED
      BY <3>3, <3>4, <3>5, <3>6, <3>7 DEF Grows
  <2>4. QED
    BY <2>2, <2>3 DEF Shares, Distinct
<1>18. Mapped(D, J)'
  BY <1>1, <1>17 DEF Mapped, n, t
<1>19. QED
  BY <1>16, <1>18

-----------------------------------------------------------------------------
(***************************************************************************)
(* The document that is stored is the one the actions were evaluated       *)
(* against.                                                                *)
(***************************************************************************)

\* Until the operations are applied nothing is shared by the two copies.
Copied(D, J) ==
  phase \in {"compute", "done"} => SharedByBoth /\ Mapped(D, J)

Kept ==
  \E D, J : History(D, J) /\ Live(D, J) /\ Copied(D, J)

LEMMA InitKept ==
  ASSUME Init
  PROVE  Kept
<1> DEFINE D == [m \in Nat |-> stored]
<1>1. History(D, D)
  BY InitHistory
<1>2. Live(D, D) /\ Copied(D, D)
  BY DEF Init, Live, Copied
<1> HIDE DEF D
<1>3. QED
  BY <1>1, <1>2 DEF Kept

\* A step that neither makes nor applies an operation.
LEMMA OtherKept ==
  ASSUME RInv, Kept, [Next]_vars,
         UNCHANGED <<stored, ops, metaMap, meta, applied, heap>>
  PROVE  Kept'
<1>1. PICK D, J : History(D, J) /\ Live(D, J) /\ Copied(D, J)
  BY DEF Kept
<1>2. History(D, J)'
  BY <1>1, OtherHistory DEF RInv
<1>3. Live(D, J)'
  BY <1>1 DEF Live
<1>4. SharedByBoth /\ Mapped(D, J)
  <2>1. CASE phase \in {"compute", "done"}
    BY <1>1, <2>1 DEF Copied
  <2>2. CASE phase \in {"find", "evaluate"}
    BY <1>1, <2>2, MappedAtFirst DEF History
  <2>3. QED
    BY <2>1, <2>2 DEF RInv, Control
<1>5. SharedByBoth' /\ Mapped(D, J)'
  BY <1>4 DEF SharedByBoth, Mapped
<1>6. QED
  BY <1>2, <1>3, <1>5 DEF Kept, Copied

LEMMA EvaluateKept ==
  ASSUME RInv, RInv', Apart, Shallow, Kept, NEW a \in left, Evaluate(a)
  PROVE  Kept'
<1> DEFINE n == Len(ops)
<1>1. CASE UNCHANGED <<metaMap, ops, heap>>
  BY <1>1, OtherKept DEF Evaluate, Next
<1>2. CASE ~UNCHANGED <<metaMap, ops, heap>>
  <2>1. PICK D, J : History(D, J) /\ Live(D, J)
    BY DEF Kept
  <2>2. n \in Nat /\ phase' = "evaluate"
    BY <1>2, MakeOps
  <2>3. PICK E : E = [m \in Nat |-> IF m = n + 1 THEN JsonDoc(metaMap', heap') ELSE D[m]]
    OBVIOUS
  <2>4. PICK K : K = [m \in Nat |-> IF m = n + 1 THEN Json(ResolveValue(a), ResolvedHeap(a))
                                    ELSE J[m]]
    OBVIOUS
  <2>5. E[n + 1] = JsonDoc(metaMap', heap') /\ \A i \in 0..n : E[i] = D[i]
    BY <2>2, <2>3
  <2>6. K[n + 1] = Json(ResolveValue(a), ResolvedHeap(a)) /\ \A i \in 1..n : K[i] = J[i]
    BY <2>2, <2>4
  <2>7. History(E, K)'
    BY <1>2, <2>1, <2>5, <2>6, MakeHistory
  <2>8. Live(E, K)'
    BY <1>2, <2>1, <2>5, <2>6, MakeLive
  <2>9. QED
    BY <2>2, <2>7, <2>8 DEF Kept, Copied
<1>3. QED
  BY <1>1, <1>2

LEMMA ComputeKept ==
  ASSUME RInv, RInv', Apart, Kept, Compute
  PROVE  Kept'
<1>1. PICK D, J : History(D, J) /\ Live(D, J) /\ Copied(D, J)
  BY DEF Kept
<1>2. UNCHANGED <<ops, metaMap>> /\ phase = "compute"
  BY DEF Compute
<1>3. History(D, J)'
  BY <1>1, ApplyHistory
<1>4. SharedByBoth /\ Mapped(D, J)
  BY <1>1, <1>2 DEF Copied
<1>5. SharedByBoth' /\ Mapped(D, J)'
  BY <1>1, <1>3, <1>4, ApplyMapped
<1>6. Live(D, J)'
  BY <1>1, <1>2 DEF Live
<1>7. QED
  BY <1>3, <1>5, <1>6 DEF Kept, Copied

LEMMA KeptStep ==
  ASSUME RInv, RInv', Apart, Shallow, Kept, [Next]_vars
  PROVE  Kept'
<1>1. CASE \E a \in left : Evaluate(a)
  BY <1>1, EvaluateKept
<1>2. CASE Compute
  BY <1>2, ComputeKept
<1>3. CASE UNCHANGED <<stored, ops, metaMap, meta, applied, heap>>
  BY <1>3, OtherKept
<1>4. QED
  BY <1>1, <1>2, <1>3 DEF Next, Find, BeginRule, Evaluated, Computed, vars

\* When all operations are applied nothing is to be merged into metaMap.
LEMMA AllMapped ==
  ASSUME RInv, NEW D, NEW J, History(D, J), Mapped(D, J), applied = Len(ops)
  PROVE  JsonDoc(metaMap, heap) = D[Len(ops)]
<1>1. DOMAIN ops = 1..Len(ops)
  BY AppendElements DEF RInv, Control
<1>2. \A k, f : ~Later(ops, J, Len(ops), k, f)
  BY <1>1, LengthIs DEF Later, RInv, Control
<1>3. DOMAIN metaMap = DOMAIN D[Len(ops)] /\ IsFunction(D[Len(ops)])
  BY DEF History, Past, Mapped
<1>4. ASSUME NEW k \in DOMAIN metaMap
      PROVE  D[Len(ops)][k] = Json(metaMap[k], heap)
  <2>1. Agrees(metaMap[k], heap, D[Len(ops)][k], ops, J, Len(ops), k)
    BY DEF Mapped
  <2>2. metaMap[k].kind = "object" => IsFunction(heap[metaMap[k].ref])
    BY DEF RInv, Sound, Denotes, Values, ValuesOf
  <2>3. QED
    BY <1>2, <2>1, <2>2, AgreesExact
<1>5. QED
  BY <1>3, <1>4 DEF JsonDoc, IsFunction

\* What is stored is what the conditions and the values of the rules were
\* evaluated against (StoredIsEvaluated): applyOpToMap, on one copy of the
\* document and with each operation at once, and applyOp, on the other with all of
\* them afterwards, come to the same, although the second writes into objects and
\* lists that the first has put into both.
THEOREM StoredEvaluated == Spec /\ []Shallow => []StoredIsEvaluated
<1>1. Init => RInv /\ Apart /\ Kept
  BY InitSound, InitApart, InitKept
<1>2. RInv /\ Apart /\ Kept /\ Shallow /\ [Next]_vars => RInv' /\ Apart' /\ Kept'
  BY RInvStep, ApartStep, KeptStep DEF Shallow
<1>3. RInv /\ Kept => StoredIsEvaluated
  BY AllApplied, AllMapped DEF Kept, Copied, History, Phases, StoredIsEvaluated
<1>4. QED
  BY <1>1, <1>2, <1>3, PTL DEF Spec

-----------------------------------------------------------------------------
(***************************************************************************)
(* The actions evaluated are those of the table for the event, by the      *)
(* priority of their rules.                                                *)
(***************************************************************************)

\* The actions to come; cur is the rule begun last.
Ahead(cur) ==
  IF phase = "find" THEN Applicable(rows, event)
  ELSE {[rule |-> cur, action |-> a] : a \in left}
         \cup {x \in Applicable(rows, event) : x.rule \in found}

\* p has the actions evaluated, each with its rule: all that are not to come, in
\* the order of their priority and no lower than what is to come.
Behind(p, cur) ==
  /\ p \in [1..Len(evaluated) -> Applicable(rows, event)]
  /\ \A i \in 1..Len(evaluated) : evaluated[i] = p[i].action
  /\ \A i, j \in 1..Len(evaluated) : p[i] = p[j] => i = j
  /\ \A i, j \in 1..Len(evaluated) : i < j => p[i].rule.priority >= p[j].rule.priority
  /\ \A x \in Applicable(rows, event) :
       x \in Ahead(cur) <=> \A i \in 1..Len(evaluated) : p[i] # x
  /\ \A i \in 1..Len(evaluated) : \A x \in Ahead(cur) : p[i].rule.priority >= x.rule.priority

\* The rules found are of the event, and none is before the one begun.
Begun(cur) ==
  /\ \A r \in found : Concerns(r, event)
  /\ left # {} => /\ cur \in rows /\ Concerns(cur, event) /\ left \subseteq cur.actions
                  /\ cur \notin found /\ \A r \in found : cur.priority >= r.priority
  /\ phase = "find" => left = {} /\ found = {}
  /\ phase \in {"compute", "done"} => left = {} /\ found = {}

InTurn == \E p, cur : Behind(p, cur) /\ Begun(cur)

LEMMA ApplicableIs ==
  ASSUME NEW x
  PROVE  x \in Applicable(rows, event) <=>
           \E r \in rows : /\ Concerns(r, event)
                           /\ \E a \in r.actions : x = [rule |-> r, action |-> a]
BY DEF Applicable

LEMMA AheadApplies ==
  ASSUME Control, NEW cur, Begun(cur)
  PROVE  Ahead(cur) \subseteq Applicable(rows, event)
BY ApplicableIs DEF Ahead, Begun

LEMMA InitInTurn ==
  ASSUME Init
  PROVE  InTurn
<1> DEFINE p == [i \in {} |-> i]
<1>1. Len(evaluated) = 0 /\ 1..0 = {} /\ phase = "find" /\ left = {} /\ found = {}
  BY DEF Init
<1>2. Behind(p, 0)
  BY <1>1 DEF Behind, Ahead
<1>3. Begun(0)
  BY <1>1 DEF Begun
<1>4. QED
  BY <1>2, <1>3 DEF InTurn

LEMMA FindInTurn ==
  ASSUME Control, InTurn, Find
  PROVE  InTurn'
<1>1. PICK p, cur : Behind(p, cur) /\ Begun(cur)
  BY DEF InTurn
<1>2. phase = "find" /\ left = {} /\ found' = {r \in rows : Matches(r, event)}
  BY <1>1 DEF Find, Begun
<1>3. UNCHANGED <<rows, event, left, evaluated>> /\ phase' # "find" /\ phase' # "compute"
  BY DEF Find
<1>4. \A r \in rows : Matches(r, event) <=> Concerns(r, event)
  BY DEF Matches, Concerns
<1>5. Ahead(cur)' = Ahead(cur)
  <2>1. \A x \in Applicable(rows, event) : x.rule \in found'
    BY <1>2, <1>4, ApplicableIs
  <2>2. QED
    BY <1>2, <1>3, <2>1 DEF Ahead, Applicable
<1>6. Behind(p, cur)'
  BY <1>1, <1>3, <1>5 DEF Behind, Applicable
<1>7. Begun(cur)'
  <2>1. phase' = "done" => found' = {}
    BY DEF Find
  <2>2. QED
    BY <1>2, <1>3, <1>4, <2>1 DEF Begun
<1>8. QED
  BY <1>6, <1>7 DEF InTurn

LEMMA BeginInTurn ==
  ASSUME Control, InTurn, NEW r \in found, BeginRule(r)
  PROVE  InTurn'
<1>1. PICK p, cur : Behind(p, cur) /\ Begun(cur)
  BY DEF InTurn
<1>2. /\ phase = "evaluate" /\ left = {} /\ left' = r.actions /\ found' = found \ {r}
      /\ UNCHANGED <<rows, event, evaluated, phase>>
      /\ \A s \in found : r.priority >= s.priority
  BY DEF BeginRule, Foremost
<1>3. r \in rows /\ \A s \in found : Concerns(s, event)
  BY <1>1 DEF Control, Begun
<1>4. Ahead(r)' = Ahead(cur)
  <2>1. Ahead(cur) = {x \in Applicable(rows, event) : x.rule \in found}
    BY <1>2 DEF Ahead
  <2>2. Ahead(r)' = {[rule |-> r, action |-> a] : a \in r.actions}
                      \cup {x \in Applicable(rows, event) : x.rule \in found \ {r}}
    BY <1>2 DEF Ahead, Applicable
  <2>3. \A a \in r.actions : /\ [rule |-> r, action |-> a] \in Applicable(rows, event)
                             /\ [rule |-> r, action |-> a].rule = r
    BY <1>3, ApplicableIs
  <2>4. \A x \in Applicable(rows, event) :
          x.rule = r => \E a \in r.actions : x = [rule |-> r, action |-> a]
    BY ApplicableIs
  <2>5. QED
    BY <2>1, <2>2, <2>3, <2>4
<1>5. Behind(p, r)'
  BY <1>1, <1>2, <1>4 DEF Behind, Applicable
<1>6. Begun(r)'
  BY <1>2, <1>3 DEF Begun
<1>7. QED
  BY <1>5, <1>6 DEF InTurn

LEMMA EvaluateInTurn ==
  ASSUME Control, InTurn, NEW a \in left, Evaluate(a)
  PROVE  InTurn'
<1> DEFINE n == Len(evaluated)
           A == Applicable(rows, event)
<1>1. PICK p, cur : Behind(p, cur) /\ Begun(cur)
  BY DEF InTurn
<1>2. /\ phase = "evaluate" /\ left' = left \ {a}
      /\ UNCHANGED <<rows, event, found, phase>> /\ evaluated' = Append(evaluated, a)
  BY DEF Evaluate
<1>3. n \in Nat /\ Len(evaluated') = n + 1 /\ evaluated'[n + 1] = a
      /\ \A i \in 1..n : evaluated'[i] = evaluated[i]
  BY <1>2, LengthIs, AppendIs, AppendElements DEF Control
<1> DEFINE x == [rule |-> cur, action |-> a]
<1>4. /\ cur \in rows /\ Concerns(cur, event) /\ left \subseteq cur.actions
      /\ cur \notin found /\ \A r \in found : cur.priority >= r.priority
  BY <1>1 DEF Begun
<1>5. x \in A /\ x \in Ahead(cur) /\ x.rule = cur /\ x.action = a
  BY <1>2, <1>4, ApplicableIs DEF Ahead
<1>6. Ahead(cur)' = Ahead(cur) \ {x}
  <2>1. Ahead(cur) = {[rule |-> cur, action |-> b] : b \in left} \cup {y \in A : y.rule \in found}
    BY <1>2 DEF Ahead
  <2>2. Ahead(cur)' = {[rule |-> cur, action |-> b] : b \in left \ {a}}
                        \cup {y \in A : y.rule \in found}
    BY <1>2 DEF Ahead, Applicable
  <2>3. x \notin {y \in A : y.rule \in found}
    BY <1>4, <1>5
  <2>4. \A b \in left : [rule |-> cur, action |-> b] = x <=> b = a
    BY <1>5
  <2>5. QED
    BY <2>1, <2>2, <2>3, <2>4
<1>7. \A y \in Ahead(cur) : x.rule.priority >= y.rule.priority
  <2>1. cur.priority \in Int
    BY <1>4, RulesTyped DEF Control
  <2>2. QED
    BY <1>2, <1>4, <1>5, <2>1 DEF Ahead
<1>8. Ahead(cur) \subseteq A
  BY <1>1, AheadApplies
<1>9. /\ p \in [1..n -> A]
      /\ \A i \in 1..n : evaluated[i] = p[i].action
      /\ \A i, j \in 1..n : p[i] = p[j] => i = j
      /\ \A i, j \in 1..n : i < j => p[i].rule.priority >= p[j].rule.priority
      /\ \A y \in A : y \in Ahead(cur) <=> \A i \in 1..n : p[i] # y
      /\ \A i \in 1..n : \A y \in Ahead(cur) : p[i].rule.priority >= y.rule.priority
  BY <1>1 DEF Behind
<1>10. PICK q : /\ q \in [1..(n + 1) -> A] /\ q[n + 1] = x
                /\ \A i \in 1..n : q[i] = p[i] /\ i # n + 1
  <2> DEFINE r == [i \in 1..(n + 1) |-> IF i = n + 1 THEN x ELSE p[i]]
  <2>1. /\ r \in [1..(n + 1) -> A] /\ r[n + 1] = x
        /\ \A i \in 1..n : r[i] = p[i] /\ i # n + 1
    BY <1>3, <1>5, <1>9
  <2>2. QED
    BY <2>1
<1> HIDE DEF x, A, n
<1>11. \A i \in 1..(n + 1) : i \in 1..n \/ i = n + 1
  BY <1>3
<1>12. \A i \in 1..(n + 1) : evaluated'[i] = q[i].action
  BY <1>3, <1>5, <1>9, <1>10, <1>11
<1>13. \A i \in 1..n : p[i] # x
  BY <1>5, <1>9
<1>14. \A i, j \in 1..(n + 1) : q[i] = q[j] => i = j
  BY <1>9, <1>10, <1>11, <1>13
<1>15. \A i, j \in 1..(n + 1) : i < j => q[i].rule.priority >= q[j].rule.priority
  <2>1. \A i, j \in 1..(n + 1) : i < j => i \in 1..n
    BY <1>3
  <2>2. QED
    BY <1>5, <1>9, <1>10, <1>11, <2>1
<1>16. \A y \in A : y \in Ahead(cur) \ {x} <=> \A i \in 1..(n + 1) : q[i] # y
  <2>1. n + 1 \in 1..(n + 1) /\ \A i \in 1..n : i \in 1..(n + 1)
    BY <1>3
  <2>2. QED
    BY <1>9, <1>10, <1>11, <2>1
<1>17. \A i \in 1..(n + 1) : \A y \in Ahead(cur) \ {x} : q[i].rule.priority >= y.rule.priority
  BY <1>7, <1>9, <1>10, <1>11
<1>18. Behind(q, cur)'
  <2>1. Applicable(rows', event') = A /\ Len(evaluated') = n + 1
    BY <1>2, <1>3 DEF A, Applicable
  <2>2. /\ q \in [1..Len(evaluated') -> Applicable(rows', event')]
        /\ \A i \in 1..Len(evaluated') : evaluated'[i] = q[i].action
        /\ \A i, j \in 1..Len(evaluated') : q[i] = q[j] => i = j
    BY <1>10, <1>12, <1>14, <2>1
  <2>3. \A i, j \in 1..Len(evaluated') : i < j => q[i].rule.priority >= q[j].rule.priority
    BY <1>15, <2>1
  <2>4. \A y \in Applicable(rows', event') :
          y \in Ahead(cur)' <=> \A i \in 1..Len(evaluated') : q[i] # y
    BY <1>6, <1>16, <2>1
  <2>5. \A i \in 1..Len(evaluated') :
          \A y \in Ahead(cur)' : q[i].rule.priority >= y.rule.priority
    BY <1>6, <1>17, <2>1
  <2>6. QED
    BY <2>2, <2>3, <2>4, <2>5 DEF Behind
<1>19. Begun(cur)'
  BY <1>1, <1>2, <1>4 DEF Begun
<1>20. QED
  BY <1>18, <1>19 DEF InTurn

LEMMA InTurnStep ==
  ASSUME Control, InTurn, [Next]_vars
  PROVE  InTurn'
<1>1. CASE Evaluated \/ Compute \/ Computed \/ UNCHANGED vars
  <2>1. PICK p, cur : Behind(p, cur) /\ Begun(cur)
    BY DEF InTurn
  <2>2. UNCHANGED <<rows, event, found, left, evaluated>>
    BY <1>1 DEF Evaluated, Compute, Computed, vars, table
  <2>3. \/ phase' = phase
        \/ /\ phase # "find" /\ phase' # "find" /\ left = {} /\ found = {}
    BY <1>1, <2>1 DEF Evaluated, Compute, Computed, vars, table, Begun
  <2>4. Behind(p, cur)'
    BY <2>1, <2>2, <2>3 DEF Behind, Ahead, Applicable
  <2>5. Begun(cur)'
    BY <2>1, <2>2, <2>3 DEF Begun
  <2>6. QED
    BY <2>4, <2>5 DEF InTurn
<1>2. QED
  BY <1>1, FindInTurn, BeginInTurn, EvaluateInTurn DEF Next

\* When there is nothing to come, they are all the table has.
LEMMA AllInOrder ==
  ASSUME Control, InTurn, phase = "done"
  PROVE  \E p : /\ Ordered(p, Len(evaluated), Applicable(rows, event))
                /\ evaluated = Actions(p)
<1> DEFINE n == Len(evaluated)
           A == Applicable(rows, event)
<1>1. PICK p, cur : Behind(p, cur) /\ Begun(cur)
  BY DEF InTurn
<1>2. Ahead(cur) = {}
  BY <1>1 DEF Begun, Ahead
<1>3. Ordered(p, n, A)
  BY <1>1, <1>2 DEF Behind, Ordered
<1>4. n \in Nat /\ evaluated = [i \in 1..n |-> evaluated[i]]
  <2>1. n \in Nat
    BY LengthIs DEF Control
  <2>2. evaluated \in Seq({evaluated[i] : i \in DOMAIN evaluated})
    BY DEF Control, IsSequence
  <2>3. QED
    BY <2>1, <2>2
<1>5. p \in [1..n -> A] /\ \A i \in 1..n : evaluated[i] = p[i].action
  BY <1>1 DEF Behind
<1>6. Actions(p) = [i \in 1..n |-> p[i].action]
  BY <1>5 DEF Actions
<1>7. evaluated = Actions(p)
  <2> HIDE DEF n, A
  <2>1. QED
    BY <1>4, <1>5, <1>6
<1>8. QED
  BY <1>3, <1>7

\* The orders by priority are the sequences in Orders.
LEMMA OrdersAre ==
  ASSUME NEW n \in Nat, NEW p, Ordered(p, n, Applicable(rows, event))
  PROVE  /\ Actions(p) \in Orders(rows, event)
         /\ \A s \in Orders(rows, event) :
              \E q : Ordered(q, n, Applicable(rows, event)) /\ s = Actions(q)
<1> DEFINE A == Applicable(rows, event)
<1>1. /\ p \in [1..n -> A]
      /\ \A i, j \in 1..n : p[i] = p[j] => i = j
      /\ \A x \in A : \E i \in 1..n : p[i] = x
      /\ \A i, j \in 1..n : i < j => p[i].rule.priority >= p[j].rule.priority
  BY DEF Ordered
<1> HIDE DEF A
<1>2. p \in Bijection(1..n, A)
  BY <1>1 DEF Bijection, Injection, Surjection, IsInjective
<1>3. ExistsBijection(1..n, A)
  BY <1>2 DEF ExistsBijection
<1>4. IsFiniteSet(A) /\ Cardinality(A) = n
  BY <1>3, FS_NatBijection, FS_CountingElements
<1>5. SetToSeqs(A) = {f \in [1..n -> A] : \A i, j \in 1..n : i # j => f[i] # f[j]}
  BY <1>4 DEF SetToSeqs
<1>6. Orders(rows, event) =
        {Actions(q) : q \in {t \in SetToSeqs(A) :
           \A i, j \in DOMAIN t : i < j => t[i].rule.priority >= t[j].rule.priority}}
  BY DEF Orders, Actions, A
<1>7. Actions(p) \in Orders(rows, event)
  <2>1. p \in SetToSeqs(A) /\ DOMAIN p = 1..n
    BY <1>1, <1>5
  <2>2. QED
    BY <1>1, <1>6, <2>1
<1>8. ASSUME NEW s \in Orders(rows, event)
      PROVE  \E q : Ordered(q, n, A) /\ s = Actions(q)
  <2>1. PICK q \in SetToSeqs(A) :
          /\ s = Actions(q)
          /\ \A i, j \in DOMAIN q : i < j => q[i].rule.priority >= q[j].rule.priority
    BY <1>6
  <2>2. q \in [1..n -> A] /\ DOMAIN q = 1..n /\ \A i, j \in 1..n : i # j => q[i] # q[j]
    BY <1>5
  <2>3. q \in Injection(1..n, A)
    BY <2>2 DEF Injection, IsInjective
  <2>4. Cardinality(1..n) = n
    BY FS_Interval
  <2>5. q \in Surjection(1..n, A)
    BY <1>4, <2>3, <2>4, FS_Injection
  <2>6. \A x \in A : \E i \in 1..n : q[i] = x
    BY <2>5 DEF Surjection
  <2>7. Ordered(q, n, A)
    BY <2>1, <2>2, <2>6 DEF Ordered
  <2>8. QED
    BY <2>1, <2>7
<1>9. QED
  BY <1>7, <1>8 DEF A

\* So what is stored is what the table means for the event, whatever order the
\* database returned the rules of one priority and the actions of a rule in
\* (ResultIsOfTable).
THEOREM TableMeant == Spec /\ []Shallow /\ []NoStrings => []ResultIsOfTable
<1> DEFINE A == Applicable(rows, event)
<1>1. Init => RInv /\ Apart /\ Intended /\ InTurn
  BY InitSound, InitApart, InitIntended, InitInTurn
<1>2. RInv /\ Apart /\ Intended /\ InTurn /\ Shallow /\ NoStrings /\ [Next]_vars
        => RInv' /\ Apart' /\ Intended' /\ InTurn'
  BY RInvStep, ApartStep, IntendedStep, InTurnStep DEF Shallow, RInv
<1>3. ASSUME RInv, Intended, InTurn, phase = "done", Independent(rows, event)
      PROVE  {JsonDoc(meta, heap)} = {Meaning(stored, s) : s \in Orders(rows, event)}
  <2>1. JsonDoc(meta, heap) = Meaning(stored, evaluated)
    BY <1>3, AllApplied DEF Intended, History, Phases
  <2>2. PICK p : Ordered(p, Len(evaluated), A) /\ evaluated = Actions(p)
    BY <1>3, AllInOrder DEF RInv
  <2>3. Len(evaluated) \in Nat
    BY <1>3, LengthIs DEF RInv, Control
  <2>4. Commuting(A)
    <3>1. ASSUME NEW x \in A
          PROVE  IsAction(x.action) /\ x.rule.priority \in Int
      BY <1>3, RulesTyped, ApplicableIs DEF RInv, Control
    <3>2. QED
      BY <1>3, <3>1 DEF Commuting, Independent
  <2>5. ASSUME NEW s \in Orders(rows, event)
        PROVE  Meaning(stored, s) = Meaning(stored, evaluated)
    <3>1. PICK q : Ordered(q, Len(evaluated), A) /\ s = Actions(q)
      BY <2>2, <2>3, OrdersAre
    <3>2. QED
      BY <2>2, <2>3, <2>4, <3>1, OrdersAgree
  <2>6. evaluated \in Orders(rows, event)
    BY <2>2, <2>3, OrdersAre
  <2>7. QED
    BY <2>1, <2>5, <2>6
<1>4. RInv /\ Intended /\ InTurn => ResultIsOfTable
  BY <1>3 DEF ResultIsOfTable
<1>5. QED
  BY <1>1, <1>2, <1>4, PTL DEF Spec
=============================================================================
