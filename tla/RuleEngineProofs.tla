-------------------------- MODULE RuleEngineProofs --------------------------
(***************************************************************************)
(* The heap of RuleEngine: nothing dangles, and as long as no value is an  *)
(* object or a list of the document, an operation changes its own key only. *)
(***************************************************************************)
EXTENDS RuleEngine, TLAPS

-----------------------------------------------------------------------------
(***************************************************************************)
(* Sequences, backing arrays.                                              *)
(***************************************************************************)

LEMMA SequenceIs ==
  ASSUME NEW S, NEW s \in Seq(S)
  PROVE  IsSequence(s)
BY DEF IsSequence

LEMMA LengthIs ==
  ASSUME NEW s, IsSequence(s)
  PROVE  Len(s) \in Nat
BY DEF IsSequence

LEMMA AppendIs ==
  ASSUME NEW s, IsSequence(s), NEW x
  PROVE  IsSequence(Append(s, x)) /\ Len(Append(s, x)) = Len(s) + 1
<1> DEFINE S == {s[i] : i \in DOMAIN s} \cup {x}
<1>1. s \in Seq(S) /\ x \in S
  BY DEF IsSequence
<1> HIDE DEF S
<1>2. Append(s, x) \in Seq(S) /\ Len(Append(s, x)) = Len(s) + 1
  BY <1>1
<1>3. QED
  BY <1>2, SequenceIs

LEMMA AppendElements ==
  ASSUME NEW s, IsSequence(s), NEW x
  PROVE  /\ DOMAIN Append(s, x) = 1..(Len(s) + 1) /\ DOMAIN s = 1..Len(s)
         /\ \A i \in 1..Len(s) : Append(s, x)[i] = s[i]
         /\ Append(s, x)[Len(s) + 1] = x
<1> DEFINE S == {s[i] : i \in DOMAIN s} \cup {x}
<1>1. s \in Seq(S) /\ x \in S
  BY DEF IsSequence
<1> HIDE DEF S
<1>2. QED
  BY <1>1

LEMMA WriteIs ==
  ASSUME NEW s, IsSequence(s), NEW i \in 1..Len(s), NEW x
  PROVE  IsSequence([s EXCEPT ![i] = x]) /\ Len([s EXCEPT ![i] = x]) = Len(s)
<1> DEFINE S == {s[j] : j \in DOMAIN s} \cup {x}
<1>1. s \in Seq(S) /\ x \in S
  BY DEF IsSequence
<1> HIDE DEF S
<1>2. [s EXCEPT ![i] = x] \in Seq(S) /\ Len([s EXCEPT ![i] = x]) = Len(s)
  BY <1>1
<1>3. QED
  BY <1>2, SequenceIs

LEMMA PrefixIs ==
  ASSUME NEW s, IsSequence(s), NEW n \in Nat, n <= Len(s)
  PROVE  IsSequence(SubSeq(s, 1, n)) /\ Len(SubSeq(s, 1, n)) = n
<1> DEFINE S == {s[j] : j \in DOMAIN s}
<1>1. s \in Seq(S)
  BY DEF IsSequence
<1> HIDE DEF S
<1>2. SubSeq(s, 1, n) \in Seq(S) /\ Len(SubSeq(s, 1, n)) = n
  BY <1>1
<1>3. QED
  BY <1>2, SequenceIs

\* A slice has room for its elements.
LEMMA CapacityHolds ==
  ASSUME NEW n \in Nat
  PROVE  Capacity(n) \in Nat /\ n <= Capacity(n)
<1> DEFINE Powers == {1, 2, 4, 8, 16, 32, 64, 128, 256}
<1>1. CASE n \in 1..256
  <2>1. \E c \in Powers : n <= c /\ c < 2 * n
    BY <1>1
  <2>2. QED
    BY <1>1, <2>1 DEF Capacity
<1>2. CASE n \notin 1..256
  BY <1>2 DEF Capacity
<1>3. QED
  BY <1>1, <1>2

LEMMA PadIs ==
  ASSUME NEW s, IsSequence(s)
  PROVE  IsSequence(Pad(s)) /\ Len(s) \in Nat /\ Len(s) <= Len(Pad(s))
<1>1. Len(s) \in Nat
  BY DEF IsSequence
<1>2. Capacity(Len(s)) \in Nat /\ Len(s) <= Capacity(Len(s))
  BY <1>1, CapacityHolds
<1> DEFINE n == Capacity(Len(s))
           S == {Pad(s)[i] : i \in 1..n}
<1>3. Pad(s) \in [1..n -> S]
  BY DEF Pad
<1> HIDE DEF n, S
<1>4. Pad(s) \in Seq(S) /\ Len(Pad(s)) = n
  BY <1>2, <1>3 DEF n
<1>5. QED
  BY <1>1, <1>2, <1>4, SequenceIs DEF n

-----------------------------------------------------------------------------
(***************************************************************************)
(* Values and the heap.                                                    *)
(***************************************************************************)

\* What a reference of the value v stands for: the scalar fields of an object,
\* a backing array with room for the slice.
Denotes(v, h) ==
  /\ v.kind = "object" =>
       /\ v.ref \in DOMAIN h /\ IsFunction(h[v.ref])
       /\ \A f \in DOMAIN h[v.ref] : Scalar(h[v.ref][f])
  /\ v.kind = "array" =>
       /\ v.ref \in DOMAIN h /\ IsSequence(h[v.ref])
       /\ v.len \in Nat /\ v.len <= Len(h[v.ref])

\* No reference is that of an object and of a slice.
Sound(values, h) ==
  /\ \A v \in values : Denotes(v, h)
  /\ \A v, w \in values : v.kind = "object" /\ w.kind = "array" => v.ref # w.ref

ValuesOf(doc) == {doc[k] : k \in DOMAIN doc}

LEMMA Kinds ==
  ASSUME NEW r, NEW n
  PROVE  /\ Object(r).kind = "object" /\ Object(r).ref = r
         /\ Slice(r, n).kind = "array" /\ Slice(r, n).ref = r /\ Slice(r, n).len = n
         /\ Num(n).kind = "num" /\ Scalar(Num(n)) /\ Scalar(Null)
BY DEF Object, Slice, Num, Null, Scalar

\* A scalar, in any heap.
LEMMA ScalarSound ==
  ASSUME NEW values, NEW h, Sound(values, h), NEW x, Scalar(x)
  PROVE  Sound(values \cup {x}, h)
BY DEF Sound, Denotes, Scalar

\* A slice of an array that has room is written in place.
LEMMA WriteArray ==
  ASSUME NEW values, NEW h, Sound(values, h), NEW slice \in values, slice.kind = "array",
         slice.len < Len(h[slice.ref]), NEW x
  PROVE  Sound(values \cup {Slice(slice.ref, slice.len + 1)},
               [h EXCEPT ![slice.ref][slice.len + 1] = x])
<1> DEFINE r == slice.ref
           n == slice.len + 1
           a == [h[r] EXCEPT ![n] = x]
           g == [h EXCEPT ![r] = a]
<1>1. r \in DOMAIN h /\ IsSequence(h[r]) /\ slice.len \in Nat /\ n \in 1..Len(h[r])
  BY LengthIs DEF Sound, Denotes
<1>2. IsSequence(a) /\ Len(a) = Len(h[r])
  BY <1>1, WriteIs
<1>3. g = [h EXCEPT ![slice.ref][slice.len + 1] = x]
  OBVIOUS
<1> HIDE DEF a
<1>4. DOMAIN g = DOMAIN h /\ g[r] = a /\ \A s \in DOMAIN h : s # r => g[s] = h[s]
  BY <1>1
<1> HIDE DEF g, r
<1>5. \A v \in values : Denotes(v, g)
  BY <1>1, <1>2, <1>4 DEF Sound, Denotes, r
<1>6. Denotes(Slice(r, n), g)
  BY <1>1, <1>2, <1>4, Kinds DEF Denotes
<1>7. \A v \in values : v.kind = "object" => v.ref # r
  BY DEF Sound, r
<1>8. Sound(values \cup {Slice(r, n)}, g)
  BY <1>5, <1>6, <1>7, Kinds DEF Sound
<1>9. QED
  BY <1>3, <1>8 DEF r

\* A new array.
LEMMA NewArray ==
  ASSUME NEW values, NEW h, Sound(values, h), NEW r, r \notin DOMAIN h,
         NEW a, IsSequence(a), NEW n \in Nat, n <= Len(a)
  PROVE  Sound(values \cup {Slice(r, n)}, Put(h, r, a))
<1>1. /\ DOMAIN Put(h, r, a) = DOMAIN h \cup {r} /\ Put(h, r, a)[r] = a
      /\ \A s \in DOMAIN h : Put(h, r, a)[s] = h[s]
  BY DEF Put
<1>2. \A v \in values : Denotes(v, Put(h, r, a))
  BY <1>1 DEF Sound, Denotes
<1>3. Denotes(Slice(r, n), Put(h, r, a))
  BY <1>1, Kinds DEF Denotes
<1>4. \A v \in values : v.kind = "object" => v.ref # r
  BY DEF Sound, Denotes
<1>5. QED
  BY <1>2, <1>3, <1>4, Kinds DEF Sound

\* A new object.
LEMMA NewObject ==
  ASSUME NEW values, NEW h, Sound(values, h), NEW r, r \notin DOMAIN h,
         NEW fields, IsFunction(fields), \A f \in DOMAIN fields : Scalar(fields[f])
  PROVE  Sound(values \cup {Object(r)}, Put(h, r, fields))
<1>1. /\ DOMAIN Put(h, r, fields) = DOMAIN h \cup {r} /\ Put(h, r, fields)[r] = fields
      /\ \A s \in DOMAIN h : Put(h, r, fields)[s] = h[s]
  BY DEF Put
<1>2. \A v \in values : Denotes(v, Put(h, r, fields))
  BY <1>1 DEF Sound, Denotes
<1>3. Denotes(Object(r), Put(h, r, fields))
  BY <1>1, Kinds DEF Denotes
<1>4. \A v \in values : v.kind = "array" => v.ref # r
  BY DEF Sound, Denotes
<1>5. QED
  BY <1>2, <1>3, <1>4, Kinds DEF Sound

\* The entries of one object are stored in another.
LEMMA MergedSound ==
  ASSUME NEW values, NEW h, Sound(values, h), NEW v \in values,
         NEW old \in values, old.kind = "object", NEW r, r = old.ref
  PROVE  Sound(values \cup {Object(r)}, Merged(r, v, h).heap)
<1> DEFINE g == Merged(r, v, h).heap
<1>0. Denotes(Object(r), h)
  BY Kinds DEF Sound, Denotes
<1>1. CASE v.kind = "object"
  <2> DEFINE o == Over(h[v.ref], h[r])
  <2>1. IsFunction(o) /\ \A f \in DOMAIN o : Scalar(o[f])
    <3>1. IsFunction(o)
      BY DEF Over, IsFunction
    <3>2. \A f \in DOMAIN o : Scalar(o[f])
      BY <1>1 DEF Sound, Denotes, Over
    <3>3. QED
      BY <3>1, <3>2
  <2>2. r \in DOMAIN h /\ g = [h EXCEPT ![r] = o]
    BY <1>1 DEF Sound, Denotes, Merged
  <2> HIDE DEF o, g
  <2>3. DOMAIN g = DOMAIN h /\ g[r] = o /\ \A s \in DOMAIN h : s # r => g[s] = h[s]
    BY <2>2
  <2>4. \A w \in values : Denotes(w, g)
    BY <2>1, <2>2, <2>3 DEF Sound, Denotes
  <2>5. Denotes(Object(r), g)
    BY <2>1, <2>2, <2>3, Kinds DEF Denotes
  <2>6. QED
    BY <2>4, <2>5, Kinds DEF Sound, g
<1>2. CASE v.kind # "object"
  <2>1. g = h
    BY <1>2 DEF Merged
  <2>2. QED
    BY <1>0, <2>1, Kinds DEF Sound
<1>3. QED
  BY <1>1, <1>2

LEMMA MergedFresh ==
  ASSUME NEW values, NEW h, Sound(values, h), NEW v \in values,
         NEW r, Object(r) \in values
  PROVE  Sound(values \cup {Object(r)}, Merged(r, v, h).heap)
<1>1. Object(r).kind = "object" /\ r = Object(r).ref
  BY Kinds
<1>2. QED
  BY <1>1, MergedSound

LEMMA SoundSubset ==
  ASSUME NEW values, NEW h, Sound(values, h), NEW part, part \subseteq values
  PROVE  Sound(part, h)
BY DEF Sound

-----------------------------------------------------------------------------
(***************************************************************************)
(* What an operation does to a document and to the heap.                   *)
(***************************************************************************)

\* From the heap h to g: only the cell of the value old changed, and only the
\* cell fresh is new.
Touched(h, g, old, fresh) ==
  /\ DOMAIN h \subseteq DOMAIN g /\ DOMAIN g \subseteq DOMAIN h \cup {fresh}
  /\ \A r \in DOMAIN h : g[r] # h[r] => ~Scalar(old) /\ r = old.ref

\* Where the reference of y is from.
ComesFrom(y, old, x, fresh) ==
  \/ Scalar(y)
  \/ y = x
  \/ y.ref = fresh
  \/ ~Scalar(old) /\ y.ref = old.ref

LEMMA AppendedSound ==
  ASSUME NEW values, NEW h, Sound(values, h), NEW old \in values, old.kind = "array",
         NEW x, NEW fresh, fresh \notin DOMAIN h
  PROVE  LET n == Appended(old, x, h, fresh) IN
         /\ Sound(values \cup {n.value}, n.heap)
         /\ Touched(h, n.heap, old, fresh)
         /\ ComesFrom(n.value, old, x, fresh)
<1> DEFINE n == Appended(old, x, h, fresh)
<1>0. /\ ~Scalar(old) /\ old.ref \in DOMAIN h /\ IsSequence(h[old.ref])
      /\ old.len \in Nat /\ old.len <= Len(h[old.ref]) /\ Len(h[old.ref]) \in Nat
  BY LengthIs DEF Sound, Denotes, Scalar
<1>1. CASE old.len < Len(h[old.ref])
  <2>1. /\ n.value = Slice(old.ref, old.len + 1)
        /\ n.heap = [h EXCEPT ![old.ref][old.len + 1] = x]
    BY <1>1 DEF Appended
  <2>2. Sound(values \cup {n.value}, n.heap)
    <3>1. Sound(values \cup {Slice(old.ref, old.len + 1)},
                [h EXCEPT ![old.ref][old.len + 1] = x])
      BY <1>1, WriteArray
    <3>2. QED
      BY <2>1, <3>1
  <2>3. Touched(h, n.heap, old, fresh)
    BY <1>0, <2>1 DEF Touched
  <2>4. ComesFrom(n.value, old, x, fresh)
    BY <1>0, <2>1, Kinds DEF ComesFrom
  <2>5. QED
    BY <2>2, <2>3, <2>4
<1>2. CASE ~(old.len < Len(h[old.ref]))
  <2> DEFINE s == SubSeq(h[old.ref], 1, old.len)
             a == Pad(Append(s, x))
  <2>1. /\ n.value = Slice(fresh, old.len + 1)
        /\ n.heap = Put(h, fresh, a)
    BY <1>2 DEF Appended
  <2>2. IsSequence(s) /\ Len(s) = old.len
    BY <1>0, PrefixIs
  <2> HIDE DEF s
  <2>3. IsSequence(Append(s, x)) /\ Len(Append(s, x)) = old.len + 1
    BY <2>2, AppendIs
  <2>4. IsSequence(a) /\ old.len + 1 <= Len(a)
    BY <2>3, PadIs
  <2> HIDE DEF a
  <2>5. Sound(values \cup {n.value}, n.heap)
    BY <1>0, <2>1, <2>4, NewArray
  <2>6. Touched(h, n.heap, old, fresh)
    BY <2>1 DEF Touched, Put
  <2>7. ComesFrom(n.value, old, x, fresh)
    BY <2>1, Kinds DEF ComesFrom
  <2>8. QED
    BY <2>5, <2>6, <2>7
<1>3. QED
  BY <1>1, <1>2

LEMMA NewValueSound ==
  ASSUME NEW values, NEW h, Sound(values, h), NEW op, op.value \in values,
         NEW old \in values, NEW fresh, fresh \notin DOMAIN h
  PROVE  LET n == NewValue(op, old, h, fresh) IN
         /\ Sound(values \cup {n.value}, n.heap)
         /\ Touched(h, n.heap, old, fresh)
         /\ ComesFrom(n.value, old, op.value, fresh)
<1> DEFINE n == NewValue(op, old, h, fresh)
<1>1. CASE op.op = "increment"
  <2> DEFINE x == Num(UtilToFloat(old) + UtilToFloat(op.value))
  <2>1. n.value = x /\ n.heap = h
    BY <1>1 DEF NewValue
  <2>2. Scalar(x)
    BY Kinds
  <2> HIDE DEF x, n
  <2>3. Sound(values \cup {n.value}, n.heap)
    BY <2>1, <2>2, ScalarSound
  <2>4. QED
    BY <2>1, <2>2, <2>3 DEF Touched, ComesFrom, n
<1>2. CASE op.op = "append" /\ old.kind = "array"
  <2>1. n = Appended(old, op.value, h, fresh)
    BY <1>2 DEF NewValue
  <2>2. QED
    BY <1>2, <2>1, AppendedSound
<1>3. CASE op.op = "append" /\ old.kind # "array"
  <2> DEFINE a == Pad(<<op.value>>)
  <2>1. n.value = Slice(fresh, 1) /\ n.heap = Put(h, fresh, a)
    BY <1>3 DEF NewValue
  <2>2. <<op.value>> \in Seq(values) /\ Len(<<op.value>>) = 1
    OBVIOUS
  <2>3. IsSequence(a) /\ 1 <= Len(a)
    BY <2>2, SequenceIs, PadIs
  <2> HIDE DEF a, n
  <2>4. Sound(values \cup {n.value}, n.heap)
    BY <2>1, <2>3, NewArray
  <2>5. Touched(h, n.heap, old, fresh) /\ ComesFrom(n.value, old, op.value, fresh)
    BY <2>1, Kinds DEF Touched, Put, ComesFrom
  <2>6. QED
    BY <2>4, <2>5 DEF n
<1>4. CASE op.op = "merge" /\ old.kind = "object"
  <2>1. n = Merged(old.ref, op.value, h)
    BY <1>4 DEF NewValue
  <2>2. /\ n.value = Object(old.ref) /\ DOMAIN n.heap = DOMAIN h
        /\ \A r \in DOMAIN h : r # old.ref => n.heap[r] = h[r]
    BY <2>1 DEF Merged
  <2>3. ~Scalar(old)
    BY <1>4 DEF Scalar
  <2>4. Sound(values \cup {n.value}, n.heap)
    BY <1>4, <2>1, <2>2, MergedSound
  <2> HIDE DEF n
  <2>5. QED
    BY <2>2, <2>3, <2>4, Kinds DEF Touched, ComesFrom, n
<1>5. CASE op.op = "merge" /\ old.kind # "object"
  <2> DEFINE g == Put(h, fresh, <<>>)
             more == values \cup {Object(fresh)}
  <2>1. n = Merged(fresh, op.value, g)
    BY <1>5 DEF NewValue
  <2>2. Sound(more, g)
    <3>1. IsFunction(<<>>) /\ DOMAIN <<>> = {}
      BY DEF IsFunction
    <3>2. QED
      BY <3>1, NewObject
  <2>3. Object(fresh) \in more /\ op.value \in more
    OBVIOUS
  <2>4. DOMAIN g = DOMAIN h \cup {fresh} /\ \A r \in DOMAIN h : g[r] = h[r]
    BY DEF Put
  <2> HIDE DEF g, more
  <2>5. Sound(more \cup {Object(fresh)}, Merged(fresh, op.value, g).heap)
    BY <2>2, <2>3, MergedFresh
  <2>6. /\ n.value = Object(fresh) /\ DOMAIN n.heap = DOMAIN g
        /\ \A r \in DOMAIN g : r # fresh => n.heap[r] = g[r]
    BY <2>1 DEF Merged
  <2> HIDE DEF n
  <2>7. Sound(values \cup {n.value}, n.heap)
    BY <2>1, <2>5, <2>6, SoundSubset DEF more
  <2>8. Touched(h, n.heap, old, fresh) /\ ComesFrom(n.value, old, op.value, fresh)
    BY <2>4, <2>6, Kinds DEF Touched, ComesFrom
  <2>9. QED
    BY <2>7, <2>8 DEF n
<1>6. CASE op.op \notin {"increment", "append", "merge"}
  <2>1. n.value = op.value /\ n.heap = h
    BY <1>6 DEF NewValue
  <2> HIDE DEF n
  <2>2. Sound(values \cup {n.value}, n.heap)
    BY <2>1, SoundSubset
  <2>3. QED
    BY <2>1, <2>2 DEF Touched, ComesFrom, n
<1>7. QED
  BY <1>1, <1>2, <1>3, <1>4, <1>5, <1>6

\* An entry of a document, or nil.
LEMMA AtIs ==
  ASSUME NEW doc, NEW k
  PROVE  At(doc, k) \in ValuesOf(doc) \/ At(doc, k) = Null
BY DEF At, ValuesOf

IsOp(op) == op = [key |-> op.key, op |-> op.op, value |-> op.value]

LEMMA ApplySound ==
  ASSUME NEW values, NEW h, Sound(values, h), NEW op, IsOp(op), op.value \in values,
         NEW doc, ValuesOf(doc) \subseteq values, NEW fresh, fresh \notin DOMAIN h
  PROVE  LET result == ApplyOp(op, doc, h, fresh)
             old == At(doc, op.key) IN
         /\ Sound(values \cup ValuesOf(result.doc), result.heap)
         /\ Touched(h, result.heap, old, fresh)
         /\ \A k : k # op.key =>
              /\ k \in DOMAIN result.doc <=> k \in DOMAIN doc
              /\ k \in DOMAIN doc => result.doc[k] = doc[k]
         /\ op.key \in DOMAIN result.doc =>
              ComesFrom(result.doc[op.key], old, op.value, fresh)
<1> DEFINE result == ApplyOp(op, doc, h, fresh)
           old == At(doc, op.key)
           x == IF op.op \in {"max", "min"}
                THEN [op EXCEPT !.value = Num(UtilToFloat(@))] ELSE op
           more == (values \cup {Null}) \cup {x.value}
           n == NewValue(x, old, h, fresh)
<1>1. x.value = op.value \/ Scalar(x.value)
  BY Kinds DEF IsOp
<1>2. Sound(more, h)
  <2>1. Sound(values \cup {Null}, h)
    BY Kinds, ScalarSound
  <2>2. CASE x.value = op.value
    <3>1. more = values \cup {Null}
      BY <2>2
    <3>2. QED
      BY <2>1, <3>1
  <2>3. CASE Scalar(x.value)
    <3> HIDE DEF x
    <3>1. QED
      BY <2>1, <2>3, ScalarSound
  <2>4. QED
    BY <1>1, <2>2, <2>3
<1>3. old \in more
  BY AtIs
<1> HIDE DEF old
<1>4. CASE op.op = "remove"
  <2>1. result.doc = Without(doc, op.key) /\ result.heap = h
    BY <1>4 DEF ApplyOp, Keeps
  <2> HIDE DEF result
  <2>2. values \cup ValuesOf(result.doc) \subseteq values
    BY <2>1 DEF ValuesOf, Without
  <2>3. QED
    BY <2>1, <2>2, SoundSubset DEF Touched, Without, result, old
<1>5. CASE op.op # "remove" /\ Keeps(op, old)
  <2>1. result.doc = doc /\ result.heap = h
    BY <1>5 DEF ApplyOp, old
  <2> HIDE DEF result
  <2>2. values \cup ValuesOf(result.doc) \subseteq values
    BY <2>1
  <2>3. op.key \in DOMAIN doc => doc[op.key] = old
    BY DEF old, At
  <2>4. QED
    BY <2>1, <2>2, <2>3, SoundSubset DEF Touched, ComesFrom, result, old
<1>6. CASE op.op # "remove" /\ ~Keeps(op, old)
  <2>1. result.doc = Put(doc, op.key, n.value) /\ result.heap = n.heap
    BY <1>6 DEF ApplyOp, old
  <2> HIDE DEF result
  <2>2. x.value \in more
    OBVIOUS
  <2> HIDE DEF more, x
  <2>3. /\ Sound(more \cup {n.value}, n.heap)
        /\ Touched(h, n.heap, old, fresh)
        /\ ComesFrom(n.value, old, x.value, fresh)
    BY <1>2, <1>3, <2>2, NewValueSound
  <2> HIDE DEF n
  <2>4. ComesFrom(n.value, old, op.value, fresh)
    BY <1>1, <2>3 DEF ComesFrom
  <2>5. values \cup ValuesOf(result.doc) \subseteq more \cup {n.value}
    BY <2>1 DEF ValuesOf, Put, more
  <2>6. Sound(values \cup ValuesOf(result.doc), result.heap)
    BY <2>1, <2>3, <2>5, SoundSubset
  <2>7. QED
    BY <2>1, <2>3, <2>4, <2>6 DEF Put, result, old
<1>7. QED
  BY <1>4, <1>5, <1>6

-----------------------------------------------------------------------------
(***************************************************************************)
(* Decoding.                                                               *)
(***************************************************************************)

LEMMA DecodedValue ==
  ASSUME NEW j, IsJson(j), NEW r
  PROVE  /\ Scalar(j) => Value(j, r) = j
         /\ ~Scalar(j) => ~Scalar(Value(j, r)) /\ Value(j, r).ref = r
         /\ j.kind = "object" <=> Value(j, r).kind = "object"
         /\ j.kind = "array" <=> Value(j, r).kind = "array"
BY Kinds DEF Value, Scalar, Object, Slice

LEMMA DecodedDenotes ==
  ASSUME NEW j, IsJson(j), NEW r, NEW h, ~Scalar(j), r \in DOMAIN h, h[r] = Cell(j)
  PROVE  Denotes(Value(j, r), h)
<1>1. CASE j.kind = "object"
  <2>1. Value(j, r) = Object(r) /\ h[r] = j.fields
    BY <1>1 DEF Value, Cell
  <2>2. QED
    BY <1>1, <2>1, Kinds DEF Denotes, IsJson
<1>2. CASE j.kind = "array"
  <2>1. Value(j, r) = Slice(r, Len(j.elems)) /\ h[r] = Pad(j.elems)
    BY <1>2 DEF Value, Cell
  <2>2. IsSequence(Pad(j.elems)) /\ Len(j.elems) \in Nat /\ Len(j.elems) <= Len(Pad(j.elems))
    BY <1>2, PadIs DEF IsJson
  <2>3. QED
    BY <2>1, <2>2, Kinds DEF Denotes
<1>3. QED
  BY <1>1, <1>2 DEF Scalar

\* A JSON value decoded into a new cell.
LEMMA DecodedSound ==
  ASSUME NEW values, NEW h, Sound(values, h), NEW j, IsJson(j), ~Scalar(j),
         NEW r, r \notin DOMAIN h, NEW g, DOMAIN g = DOMAIN h \cup {r}, g[r] = Cell(j),
         \A s \in DOMAIN h : g[s] = h[s]
  PROVE  Sound(values \cup {Value(j, r)}, g)
<1>1. Denotes(Value(j, r), g)
  BY DecodedDenotes
<1>2. \A v \in values : Denotes(v, g)
  BY DEF Sound, Denotes
<1>3. \A v \in values : ~Scalar(v) => v.ref # r
  BY DEF Sound, Denotes, Scalar
<1>4. ~Scalar(Value(j, r)) => Value(j, r).ref = r
  BY DecodedValue
<1>5. QED
  BY <1>1, <1>2, <1>3, <1>4 DEF Sound, Scalar

-----------------------------------------------------------------------------
(***************************************************************************)
(* The invariant.                                                          *)
(***************************************************************************)

Values == ValuesOf(metaMap) \cup ValuesOf(meta) \cup {ops[i].value : i \in DOMAIN ops}

\* The references of an action or an operation that is to come are free.
Numbered ==
  \A r \in DOMAIN heap :
    /\ r[1] \in {"event", "new"} => r[2] \in 0..(Len(evaluated) - 1)
    /\ r[1] = "result" => r[2] \in 0..(applied - 1)

Control ==
  /\ rows \in Tables /\ found \subseteq rows
  /\ \A a \in left : IsAction(a)
  /\ phase \in {"find", "evaluate", "compute", "done"}
  /\ IsSequence(evaluated) /\ IsSequence(ops)
  /\ \A i \in DOMAIN ops : IsOp(ops[i])
  /\ applied \in 0..Len(ops) /\ Len(ops) <= Len(evaluated)

RInv == Control /\ Numbered /\ Sound(Values, heap)

LEMMA Free ==
  ASSUME Control, Numbered
  PROVE  /\ <<"event", Len(evaluated)>> \notin DOMAIN heap
         /\ <<"new", Len(evaluated)>> \notin DOMAIN heap
         /\ <<"result", applied>> \notin DOMAIN heap
         /\ Len(evaluated) \in Nat /\ Len(ops) \in Nat /\ applied \in Nat
<1>1. Len(evaluated) \in Nat /\ Len(ops) \in Nat /\ applied \in Nat
  BY LengthIs DEF Control
<1>2. QED
  BY <1>1 DEF Numbered

\* What was read is a document, whatever the column holds.
LEMMA ReadTyped ==
  ASSUME Init
  PROVE  IsFunction(stored) /\ \A k \in DOMAIN stored : IsJson(stored[k])
<1>1. PICK column \in Stored : stored = Unmarshalled(column)
  BY DEF Init
<1>2. CASE column.kind = "object"
  BY <1>1, <1>2, RulesTyped DEF Unmarshalled
<1>3. CASE column.kind # "object"
  <2>1. stored = <<>>
    BY <1>1, <1>3 DEF Unmarshalled
  <2>2. DOMAIN stored = {} /\ stored = [x \in DOMAIN stored |-> stored[x]]
    BY <2>1
  <2>3. QED
    BY <2>2 DEF IsFunction
<1>4. QED
  BY <1>2, <1>3

LEMMA InitSound ==
  ASSUME Init
  PROVE  RInv
<1> DEFINE Copies == {"metaMap", "meta"}
           Parts == {k \in DOMAIN stored : ~Scalar(stored[k])}
<1>1. \A k \in DOMAIN stored : IsJson(stored[k])
  BY ReadTyped
<1>2. DOMAIN heap = Copies \X Parts /\ \A r \in Copies \X Parts : heap[r] = Cell(stored[r[2]])
  BY DEF Init, DecodedCells
<1>3. ASSUME NEW v \in Values
      PROVE  \E c \in Copies, k \in DOMAIN stored : v = Value(stored[k], <<c, k>>)
  <2>1. v \in ValuesOf(metaMap) \/ v \in ValuesOf(meta)
    BY DEF Init, Values
  <2>2. \A c \in Copies : \A x \in ValuesOf(Decoded(stored, c)) :
          \E k \in DOMAIN stored : x = Value(stored[k], <<c, k>>)
    BY DEF ValuesOf, Decoded
  <2>3. QED
    BY <2>1, <2>2 DEF Init
<1>4. ASSUME NEW c \in Copies, NEW k \in DOMAIN stored
      PROVE  Denotes(Value(stored[k], <<c, k>>), heap)
  <2>1. CASE Scalar(stored[k])
    BY <1>1, <2>1, DecodedValue DEF Denotes, Scalar
  <2>2. CASE ~Scalar(stored[k])
    <3>1. <<c, k>> \in DOMAIN heap /\ heap[<<c, k>>] = Cell(stored[k])
      BY <1>2, <2>2
    <3>2. QED
      BY <1>1, <2>2, <3>1, DecodedDenotes
  <2>3. QED
    BY <2>1, <2>2
<1>5. ASSUME NEW v \in Values, NEW w \in Values, v.kind = "object", w.kind = "array"
      PROVE  v.ref # w.ref
  <2>1. PICK c \in Copies, k \in DOMAIN stored : v = Value(stored[k], <<c, k>>)
    BY <1>3
  <2>2. PICK d \in Copies, l \in DOMAIN stored : w = Value(stored[l], <<d, l>>)
    BY <1>3
  <2>3. stored[k].kind = "object" /\ v.ref = <<c, k>>
    BY <1>1, <1>5, <2>1, DecodedValue DEF Scalar
  <2>4. stored[l].kind = "array" /\ w.ref = <<d, l>>
    BY <1>1, <1>5, <2>2, DecodedValue DEF Scalar
  <2>5. QED
    BY <2>3, <2>4
<1>6. Sound(Values, heap)
  BY <1>3, <1>4, <1>5 DEF Sound
<1>7. Numbered
  BY <1>2 DEF Numbered
<1>8. Control
  <2>1. IsSequence(<<>>) /\ Len(<<>>) = 0 /\ DOMAIN <<>> = {}
    BY DEF IsSequence
  <2>2. QED
    BY <2>1 DEF Init, Control
<1>9. QED
  BY <1>6, <1>7, <1>8 DEF RInv

\* The value of an action, with what was decoded for it.
LEMMA ResolveSound ==
  ASSUME RInv, NEW a, IsAction(a)
  PROVE  /\ Sound(Values \cup {ResolveValue(a)}, ResolvedHeap(a))
         /\ DOMAIN heap \subseteq DOMAIN ResolvedHeap(a)
         /\ DOMAIN ResolvedHeap(a) \subseteq DOMAIN heap \cup {<<"event", Len(evaluated)>>}
         /\ \A r \in DOMAIN heap : ResolvedHeap(a)[r] = heap[r]
         /\ a.source = "event" /\ ~Scalar(ResolveValue(a))
              => ResolveValue(a).ref = <<"event", Len(evaluated)>>
<1> DEFINE r == <<"event", Len(evaluated)>>
<1>0. Sound(Values, heap) /\ r \notin DOMAIN heap
  BY Free DEF RInv
<1>1. CASE a.source = "static"
  <2>1. ResolveValue(a) = a.template /\ Scalar(a.template) /\ ResolvedHeap(a) = heap
    BY <1>1 DEF ResolveValue, IsAction, ResolvedHeap
  <2>2. QED
    BY <1>0, <1>1, <2>1, ScalarSound
<1>2. CASE a.source = "event"
  <2> DEFINE name == a.template[2]
             j == Event[name]
  <2>1. a.template[1] = "event" /\ name \in DOMAIN Event
    BY <1>2 DEF IsAction, IsPath
  <2>2. ResolveValue(a) = Value(j, r) /\ IsJson(j)
    BY <1>2, <2>1, RulesTyped DEF ResolveValue, Lookup, FromEvent, EventRef
  <2>3. CASE Scalar(j)
    <3>1. ResolvedHeap(a) = heap
      BY <2>3 DEF ResolvedHeap
    <3>2. ResolveValue(a) = j
      BY <2>2, <2>3, DecodedValue
    <3>3. QED
      BY <1>0, <2>3, <3>1, <3>2, ScalarSound
  <2>4. CASE ~Scalar(j)
    <3>1. /\ DOMAIN ResolvedHeap(a) = DOMAIN heap \cup {r} /\ ResolvedHeap(a)[r] = Cell(j)
          /\ \A s \in DOMAIN heap : ResolvedHeap(a)[s] = heap[s]
      BY <1>0, <1>2, <2>4 DEF ResolvedHeap, Over, EventRef
    <3>2. Value(j, r).ref = r
      BY <2>2, <2>4, DecodedValue
    <3> DEFINE g == ResolvedHeap(a)
    <3> HIDE DEF r, g, j
    <3>3. Sound(Values \cup {Value(j, r)}, g)
      BY <1>0, <2>2, <2>4, <3>1, DecodedSound DEF g
    <3>4. QED
      BY <2>2, <3>1, <3>2, <3>3 DEF r, g, j
  <2>5. QED
    BY <2>3, <2>4
<1>3. CASE a.source \notin {"static", "event"}
  <2> DEFINE path == Tail(a.template)
             v == At(metaMap, path[1])
             x == ResolveValue(a)
  <2>1. x = GetByPath(metaMap, path, heap) /\ ResolvedHeap(a) = heap
    BY <1>3 DEF ResolveValue, IsAction, Lookup, ResolvedHeap
  <2>2. v \in Values \/ v = Null
    BY AtIs DEF Values
  <2>3. \/ x = v
        \/ v.kind = "object" /\ x = At(heap[v.ref], path[2])
    BY <2>1 DEF GetByPath
  <2>4. ASSUME v.kind = "object" PROVE v \in Values /\ Scalar(At(heap[v.ref], path[2]))
    BY <1>0, <2>2, <2>4, Kinds DEF Scalar, Sound, Denotes, At
  <2>5. Scalar(Null)
    BY Kinds
  <2> HIDE DEF x, v
  <2>6. x \in Values \/ Scalar(x)
    BY <2>2, <2>3, <2>4, <2>5
  <2>7. Sound(Values \cup {x}, heap)
    BY <1>0, <2>6, ScalarSound, SoundSubset
  <2>8. QED
    BY <1>3, <2>1, <2>7 DEF x
<1>4. QED
  BY <1>1, <1>2, <1>3

\* Evaluate, as far as it makes an operation.
LEMMA EvaluateSound ==
  ASSUME RInv, NEW a, IsAction(a)
  PROVE  LET op == [key |-> a.key, op |-> a.op, value |-> ResolveValue(a)]
             result == AppliedToMap(op, ResolvedHeap(a), <<"new", Len(evaluated)>>) IN
         /\ Sound((Values \cup {op.value}) \cup ValuesOf(result.doc), result.heap)
         /\ Touched(ResolvedHeap(a), result.heap, At(metaMap, a.key), <<"new", Len(evaluated)>>)
         /\ \A k : k # a.key =>
              /\ k \in DOMAIN result.doc <=> k \in DOMAIN metaMap
              /\ k \in DOMAIN metaMap => result.doc[k] = metaMap[k]
         /\ a.key \in DOMAIN result.doc =>
              ComesFrom(result.doc[a.key], At(metaMap, a.key), op.value,
                        <<"new", Len(evaluated)>>)
<1> DEFINE op == [key |-> a.key, op |-> a.op, value |-> ResolveValue(a)]
           fresh == <<"new", Len(evaluated)>>
           h == ResolvedHeap(a)
           values == Values \cup {op.value}
<1>1. Sound(values, h)
  BY ResolveSound
<1>2. IsOp(op) /\ op.key = a.key /\ op.value \in values
  BY DEF IsOp
<1>3. ValuesOf(metaMap) \subseteq values
  BY DEF Values
<1>4. fresh \notin DOMAIN h
  <2>1. DOMAIN h \subseteq DOMAIN heap \cup {<<"event", Len(evaluated)>>}
    BY ResolveSound
  <2>2. fresh \notin DOMAIN heap
    BY Free DEF RInv
  <2>3. QED
    BY <2>1, <2>2
<1> HIDE DEF h, fresh, values, op
<1>5. LET result == ApplyOp(op, metaMap, h, fresh)
          old == At(metaMap, op.key) IN
      /\ Sound(values \cup ValuesOf(result.doc), result.heap)
      /\ Touched(h, result.heap, old, fresh)
      /\ \A k : k # op.key =>
           /\ k \in DOMAIN result.doc <=> k \in DOMAIN metaMap
           /\ k \in DOMAIN metaMap => result.doc[k] = metaMap[k]
      /\ op.key \in DOMAIN result.doc =>
           ComesFrom(result.doc[op.key], old, op.value, fresh)
  BY <1>1, <1>2, <1>3, <1>4, ApplySound
<1>6. QED
  BY <1>2, <1>5 DEF AppliedToMap, op, fresh, h, values

\* Compute.
LEMMA ComputeSound ==
  ASSUME RInv, Compute
  PROVE  LET op == ops[applied + 1]
             fresh == <<"result", applied>> IN
         /\ Sound(Values \cup ValuesOf(meta'), heap')
         /\ Touched(heap, heap', At(meta, op.key), fresh)
         /\ \A k : k # op.key =>
              /\ k \in DOMAIN meta' <=> k \in DOMAIN meta
              /\ k \in DOMAIN meta => meta'[k] = meta[k]
         /\ op.key \in DOMAIN meta' =>
              ComesFrom(meta'[op.key], At(meta, op.key), op.value, fresh)
<1> DEFINE op == ops[applied + 1]
           fresh == <<"result", applied>>
<1>1. applied + 1 \in DOMAIN ops /\ Sound(Values, heap) /\ fresh \notin DOMAIN heap
  <2>1. DOMAIN ops = 1..Len(ops)
    BY DEF RInv, Control, IsSequence
  <2>2. QED
    BY <2>1, Free DEF RInv, Compute
<1>2. IsOp(op) /\ op.value \in Values
  BY <1>1 DEF RInv, Control, Values
<1>3. ValuesOf(meta) \subseteq Values
  BY DEF Values
<1>4. /\ meta' = ApplyOp(op, meta, heap, fresh).doc
      /\ heap' = ApplyOp(op, meta, heap, fresh).heap
  BY DEF Compute
<1> HIDE DEF op, fresh
<1>5. LET result == ApplyOp(op, meta, heap, fresh)
          old == At(meta, op.key) IN
      /\ Sound(Values \cup ValuesOf(result.doc), result.heap)
      /\ Touched(heap, result.heap, old, fresh)
      /\ \A k : k # op.key =>
           /\ k \in DOMAIN result.doc <=> k \in DOMAIN meta
           /\ k \in DOMAIN meta => result.doc[k] = meta[k]
      /\ op.key \in DOMAIN result.doc =>
           ComesFrom(result.doc[op.key], old, op.value, fresh)
  BY <1>1, <1>2, <1>3, ApplySound
<1>6. QED
  BY <1>4, <1>5 DEF op, fresh

\* A step that makes no operation and applies none.
LEMMA ControlStep ==
  ASSUME Control, Next, UNCHANGED <<ops, applied, metaMap, meta, heap>>
  PROVE  Control' /\ Len(evaluated) <= Len(evaluated)'
<1>1. IsSequence(evaluated)' /\ Len(evaluated) \in Nat /\ Len(evaluated)' \in Nat
      /\ Len(evaluated) <= Len(evaluated)'
  <2>1. CASE UNCHANGED evaluated
    BY <2>1, LengthIs DEF Control
  <2>2. CASE \E a \in left : evaluated' = Append(evaluated, a)
    BY <2>2, AppendIs, LengthIs DEF Control
  <2>3. QED
    BY <2>1, <2>2 DEF Next, Find, BeginRule, Evaluate, Evaluated, Compute, Computed
<1>2. rows' = rows /\ found' \subseteq rows
  BY DEF Control, Next, Find, BeginRule, Evaluate, Evaluated, Compute, Computed, table
<1>3. \A a \in left' : IsAction(a)
  <2>1. ASSUME NEW r \in found, BeginRule(r)
        PROVE  \A a \in left' : IsAction(a)
    BY <2>1, RulesTyped DEF Control, BeginRule
  <2>2. QED
    BY <2>1 DEF Control, Next, Find, Evaluate, Evaluated, Compute, Computed, table
<1>4. phase' \in {"find", "evaluate", "compute", "done"}
  BY DEF Control, Next, Find, BeginRule, Evaluate, Evaluated, Compute, Computed
<1>5. QED
  BY <1>1, <1>2, <1>3, <1>4, LengthIs DEF Control

\* A step that makes an operation.
LEMMA MakeStep ==
  ASSUME RInv, NEW a \in left, Evaluate(a), ~UNCHANGED <<metaMap, ops, heap>>
  PROVE  RInv'
<1> DEFINE op == [key |-> a.key, op |-> a.op, value |-> ResolveValue(a)]
           n == Len(evaluated)
           result == AppliedToMap(op, ResolvedHeap(a), <<"new", n>>)
<1>0. IsAction(a) /\ n \in Nat /\ Len(ops) \in Nat
  BY Free DEF RInv, Control
<1>1. /\ ops' = Append(ops, op) /\ metaMap' = result.doc /\ heap' = result.heap
      /\ evaluated' = Append(evaluated, a) /\ left' = left \ {a}
      /\ UNCHANGED <<rows, event, found, stored, meta, applied, phase>>
  BY DEF Evaluate
<1>2. /\ Sound((Values \cup {op.value}) \cup ValuesOf(result.doc), result.heap)
      /\ Touched(ResolvedHeap(a), result.heap, At(metaMap, a.key), <<"new", n>>)
  BY <1>0, EvaluateSound
<1>3. DOMAIN ResolvedHeap(a) \subseteq DOMAIN heap \cup {<<"event", n>>}
  BY <1>0, ResolveSound
<1>4. IsOp(op)
  BY DEF IsOp
<1> HIDE DEF op, result
<1>5. /\ IsSequence(evaluated)' /\ Len(evaluated)' = n + 1
      /\ IsSequence(ops)' /\ Len(ops)' = Len(ops) + 1
  BY <1>1, AppendIs DEF RInv, Control
<1>6. DOMAIN ops' = 1..(Len(ops) + 1) /\ DOMAIN ops = 1..Len(ops)
      /\ ops'[Len(ops) + 1] = op /\ \A i \in 1..Len(ops) : ops'[i] = ops[i]
  BY <1>1, AppendElements DEF RInv, Control
<1>7. Control'
  <2>1. \A i \in DOMAIN ops' : IsOp(ops'[i])
    BY <1>0, <1>4, <1>6 DEF RInv, Control
  <2>2. QED
    BY <1>0, <1>1, <1>5, <2>1 DEF RInv, Control
<1>8. Numbered'
  <2>1. DOMAIN heap' \subseteq DOMAIN heap \cup {<<"event", n>>, <<"new", n>>}
    BY <1>1, <1>2, <1>3 DEF Touched
  <2>2. QED
    BY <1>0, <1>1, <1>5, <2>1 DEF RInv, Numbered
<1>9. Sound(Values, heap)'
  <2>0. ASSUME NEW i \in DOMAIN ops'
        PROVE  ops'[i].value \in Values \cup {op.value}
    <3>1. (i \in DOMAIN ops /\ ops'[i] = ops[i]) \/ ops'[i] = op
      BY <1>0, <1>6
    <3>2. QED
      BY <3>1 DEF Values
  <2>1. Values' \subseteq (Values \cup {op.value}) \cup ValuesOf(metaMap')
    <3>1. ValuesOf(meta)' = ValuesOf(meta) /\ ValuesOf(metaMap)' = ValuesOf(metaMap')
      BY <1>1 DEF ValuesOf
    <3>2. QED
      BY <2>0, <3>1 DEF Values
  <2>2. Sound((Values \cup {op.value}) \cup ValuesOf(metaMap'), heap')
    BY <1>1, <1>2
  <2>3. Sound(Values', heap')
    BY <2>1, <2>2, SoundSubset
  <2>4. QED
    BY <2>3 DEF Sound, Denotes
<1>10. QED
  BY <1>7, <1>8, <1>9 DEF RInv

LEMMA ApplyStep ==
  ASSUME RInv, Compute
  PROVE  RInv'
<1> DEFINE op == ops[applied + 1]
<1>1. /\ applied' = applied + 1 /\ applied < Len(ops) /\ applied \in Nat
      /\ UNCHANGED <<table, stored, evaluated, metaMap, ops, phase>>
  BY Free DEF Compute, RInv
<1>2. /\ Sound(Values \cup ValuesOf(meta'), heap')
      /\ Touched(heap, heap', At(meta, op.key), <<"result", applied>>)
  BY ComputeSound
<1> HIDE DEF op
<1>3. Control'
  <2>1. applied' \in 0..Len(ops)
    BY <1>1, Free DEF RInv, Control
  <2>2. QED
    BY <1>1, <2>1 DEF RInv, Control, table
<1>4. Numbered'
  <2>1. DOMAIN heap' \subseteq DOMAIN heap \cup {<<"result", applied>>}
    BY <1>2 DEF Touched
  <2>2. QED
    BY <1>1, <2>1 DEF RInv, Numbered
<1>5. Sound(Values, heap)'
  <2>1. Values' \subseteq Values \cup ValuesOf(meta')
    BY <1>1 DEF Values
  <2>2. Sound(Values', heap')
    BY <1>2, <2>1, SoundSubset
  <2>3. QED
    BY <2>2 DEF Sound, Denotes
<1>6. QED
  BY <1>3, <1>4, <1>5 DEF RInv

LEMMA RInvStep ==
  ASSUME RInv, [Next]_vars
  PROVE  RInv'
<1>1. CASE \E a \in left : Evaluate(a) /\ ~UNCHANGED <<metaMap, ops, heap>>
  BY <1>1, MakeStep
<1>2. CASE Compute
  BY <1>2, ApplyStep
<1>3. CASE Next /\ UNCHANGED <<ops, applied, metaMap, meta, heap>>
  <2>1. Control' /\ Len(evaluated) <= Len(evaluated)'
    BY <1>3, ControlStep DEF RInv
  <2>2. Len(evaluated) \in Nat /\ Len(evaluated)' \in Nat
    BY <2>1, LengthIs DEF RInv, Control
  <2>3. Numbered'
    BY <1>3, <2>1, <2>2 DEF RInv, Numbered
  <2>4. Sound(Values, heap)'
    BY <1>3 DEF RInv, Sound, Denotes, Values, ValuesOf
  <2>5. QED
    BY <2>1, <2>3, <2>4 DEF RInv
<1>4. CASE UNCHANGED vars
  BY <1>4 DEF RInv, Control, Numbered, Sound, Denotes, Values, ValuesOf, vars, table
<1>5. QED
  BY <1>1, <1>2, <1>3, <1>4
  DEF Next, Find, BeginRule, Evaluate, Evaluated, Computed

\* Nothing dangles: whatever the rules, the documents and the event are, a value
\* of a document or an operation has its cell, and a slice its elements.
THEOREM RulesTypeCorrect == Spec => []TypeOK
<1>1. Init => RInv
  BY InitSound
<1>2. RInv /\ [Next]_vars => RInv'
  BY RInvStep
<1>3. RInv => TypeOK
  BY DEF RInv, Control, Sound, Denotes, Values, ValuesOf, TypeOK, WellFormed
<1>4. QED
  BY <1>1, <1>2, <1>3, PTL DEF Spec

-----------------------------------------------------------------------------
(***************************************************************************)
(* An operation changes its own key only.                                  *)
(***************************************************************************)

Distinct(v, w) == ~Scalar(v) /\ ~Scalar(w) => v.ref # w.ref

\* No two keys of a document share a reference.
OneKeyEach(doc) == \A k, l \in DOMAIN doc : k # l => Distinct(doc[k], doc[l])

\* Nor do the operations with one another, and those to be applied with the
\* document they will be applied to.
Apart ==
  /\ OneKeyEach(metaMap)
  /\ OneKeyEach(meta)
  /\ \A i, j \in DOMAIN ops : i # j => Distinct(ops[i].value, ops[j].value)
  /\ \A i \in DOMAIN ops, k \in DOMAIN meta :
       i > applied => Distinct(ops[i].value, meta[k])

LEMMA InitApart ==
  ASSUME Init
  PROVE  Apart
<1>1. \A k \in DOMAIN stored : IsJson(stored[k])
  BY ReadTyped
<1>2. ASSUME NEW c
      PROVE  OneKeyEach(Decoded(stored, c))
  <2> SUFFICES ASSUME NEW k \in DOMAIN stored, NEW l \in DOMAIN stored, k # l
               PROVE  Distinct(Value(stored[k], <<c, k>>), Value(stored[l], <<c, l>>))
    BY DEF OneKeyEach, Decoded
  <2>1. /\ ~Scalar(Value(stored[k], <<c, k>>)) => Value(stored[k], <<c, k>>).ref = <<c, k>>
        /\ ~Scalar(Value(stored[l], <<c, l>>)) => Value(stored[l], <<c, l>>).ref = <<c, l>>
    BY <1>1, DecodedValue
  <2>2. QED
    BY <2>1 DEF Distinct
<1>3. QED
  BY <1>2 DEF Init, Apart

\* What a key's value came from is not what another key or operation has.
LEMMA ComesApart ==
  ASSUME NEW y, NEW old, NEW x, NEW fresh, ComesFrom(y, old, x, fresh),
         NEW v, Distinct(old, v), Distinct(x, v), ~Scalar(v) => v.ref # fresh
  PROVE  Distinct(y, v)
BY DEF ComesFrom, Distinct

\* The value of a key that an operation did not touch.
LEMMA JsonStays ==
  ASSUME NEW values, NEW h, Sound(values, h), NEW v \in values, NEW g,
         NEW old, NEW fresh, Touched(h, g, old, fresh), Distinct(old, v)
  PROVE  Json(v, g) = Json(v, h)
<1>1. CASE Scalar(v)
  BY <1>1 DEF Scalar, Json
<1>2. CASE ~Scalar(v)
  <2>1. v.ref \in DOMAIN h
    BY <1>2 DEF Scalar, Sound, Denotes
  <2>2. g[v.ref] = h[v.ref]
    BY <1>2, <2>1 DEF Touched, Distinct
  <2>3. QED
    BY <2>2 DEF Json
<1>3. QED
  BY <1>1, <1>2

LEMMA AtJson ==
  ASSUME NEW doc, NEW h, NEW k
  PROVE  At(JsonDoc(doc, h), k) = IF k \in DOMAIN doc THEN Json(doc[k], h) ELSE Null
BY DEF At, JsonDoc

\* The value of an action is a scalar or a new reference.
LEMMA ResolveApart ==
  ASSUME RInv, NoSharing, NEW a \in left
  PROVE  \A v \in Values : Distinct(ResolveValue(a), v)
<1>1. IsAction(a) /\ Sound(Values, heap) /\ <<"event", Len(evaluated)>> \notin DOMAIN heap
  BY Free DEF RInv, Control
<1>2. \A v \in Values : ~Scalar(v) => v.ref \in DOMAIN heap
  BY <1>1 DEF Sound, Denotes, Scalar
<1>3. Scalar(ResolveValue(a)) \/ ResolveValue(a).ref = <<"event", Len(evaluated)>>
  BY <1>1, ResolveSound DEF NoSharing, ResolveValue, IsAction
<1>4. QED
  BY <1>1, <1>2, <1>3 DEF Distinct

LEMMA OldApart ==
  ASSUME NEW doc, OneKeyEach(doc), NEW key, NEW k \in DOMAIN doc, k # key
  PROVE  Distinct(At(doc, key), doc[k])
BY Kinds DEF OneKeyEach, At, Distinct

LEMMA StaysApart ==
  ASSUME NEW doc, OneKeyEach(doc), NEW new, NEW key,
         \A x : x # key => (x \in DOMAIN new <=> x \in DOMAIN doc),
         \A x : x # key /\ x \in DOMAIN doc => new[x] = doc[x],
         key \in DOMAIN new =>
           \A x \in DOMAIN doc : x # key => Distinct(new[key], doc[x])
  PROVE  OneKeyEach(new)
<1> SUFFICES ASSUME NEW k \in DOMAIN new, NEW l \in DOMAIN new, k # l
             PROVE  Distinct(new[k], new[l])
  BY DEF OneKeyEach
<1>1. CASE k # key /\ l # key
  BY <1>1 DEF OneKeyEach
<1>2. ASSUME NEW m \in DOMAIN new, m # key, key \in DOMAIN new
      PROVE  Distinct(new[key], new[m])
  <2>1. m \in DOMAIN doc
    BY <1>2
  <2>2. new[m] = doc[m]
    BY <1>2, <2>1
  <2>3. Distinct(new[key], doc[m])
    BY <1>2, <2>1
  <2>4. QED
    BY <2>2, <2>3
<1>3. QED
  BY <1>1, <1>2 DEF Distinct

\* The values of a document and of the operations have their cells.
LEMMA InHeap ==
  ASSUME NEW values, NEW h, Sound(values, h), NEW v \in values, ~Scalar(v)
  PROVE  v.ref \in DOMAIN h
BY DEF Sound, Denotes, Scalar

\* A step that makes an operation keeps references apart and leaves the other
\* keys of metaMap alone.
LEMMA MakeApart ==
  ASSUME RInv, Apart, NoSharing, NEW a \in left, Evaluate(a),
         ~UNCHANGED <<metaMap, ops, heap>>
  PROVE  /\ Apart' /\ Last(ops').key = a.key /\ applied' = applied
         /\ \A k : k # a.key => At(JsonDoc(metaMap', heap'), k) = At(JsonDoc(metaMap, heap), k)
<1> DEFINE op == [key |-> a.key, op |-> a.op, value |-> ResolveValue(a)]
           n == Len(evaluated)
           h == ResolvedHeap(a)
           old == At(metaMap, a.key)
           x == ResolveValue(a)
           result == AppliedToMap(op, h, <<"new", n>>)
<1>0. IsAction(a) /\ n \in Nat /\ Len(ops) \in Nat /\ Sound(Values, heap)
  BY Free DEF RInv, Control
<1>1. /\ ops' = Append(ops, op) /\ metaMap' = result.doc /\ heap' = result.heap
      /\ meta' = meta /\ applied' = applied
  BY DEF Evaluate
<1>2. /\ Touched(h, result.heap, old, <<"new", n>>)
      /\ \A k : k # a.key =>
           /\ k \in DOMAIN result.doc <=> k \in DOMAIN metaMap
           /\ k \in DOMAIN metaMap => result.doc[k] = metaMap[k]
      /\ a.key \in DOMAIN result.doc => ComesFrom(result.doc[a.key], old, op.value, <<"new", n>>)
  BY <1>0, EvaluateSound
<1>3. /\ Sound(Values \cup {x}, h)
      /\ DOMAIN heap \subseteq DOMAIN h /\ \A r \in DOMAIN heap : h[r] = heap[r]
  BY <1>0, ResolveSound
<1>4. \A v \in Values : Distinct(x, v)
  BY ResolveApart
<1>5. op.value = x /\ op.key = a.key
  OBVIOUS
<1>6. \A v \in Values : ~Scalar(v) => v.ref # <<"new", n>>
  BY <1>0, InHeap, Free DEF RInv
<1> HIDE DEF op, n, h, old, x, result
<1>7. \A k \in DOMAIN metaMap : k # a.key => Distinct(old, metaMap[k]) /\ metaMap[k] \in Values
  BY OldApart DEF Apart, old, Values, ValuesOf
<1>8. OneKeyEach(metaMap')
  <2>1. ASSUME a.key \in DOMAIN result.doc, NEW k \in DOMAIN metaMap, k # a.key
        PROVE  Distinct(result.doc[a.key], metaMap[k])
    BY <1>2, <1>4, <1>5, <1>6, <1>7, <2>1, ComesApart
  <2>2. OneKeyEach(result.doc)
    BY <1>2, <2>1, StaysApart DEF Apart
  <2>3. QED
    BY <1>1, <2>2
<1>9. DOMAIN ops' = 1..(Len(ops) + 1) /\ DOMAIN ops = 1..Len(ops)
      /\ ops'[Len(ops) + 1] = op /\ \A i \in 1..Len(ops) : ops'[i] = ops[i]
      /\ Len(ops') = Len(ops) + 1
  BY <1>1, AppendElements, AppendIs DEF RInv, Control
<1>10. \A i \in 1..Len(ops) : ops[i].value \in Values
  BY <1>9 DEF Values
<1>11. ASSUME NEW i \in DOMAIN ops', NEW j \in DOMAIN ops', i # j
       PROVE  Distinct(ops'[i].value, ops'[j].value)
  <2>1. CASE i \in DOMAIN ops /\ j \in DOMAIN ops
    BY <1>9, <1>11, <2>1 DEF Apart
  <2>2. CASE i = Len(ops) + 1 /\ j \in DOMAIN ops
    BY <1>4, <1>5, <1>9, <1>10, <2>2
  <2>3. CASE j = Len(ops) + 1 /\ i \in DOMAIN ops
    BY <1>4, <1>5, <1>9, <1>10, <2>3 DEF Distinct
  <2>4. QED
    BY <1>0, <1>9, <1>11, <2>1, <2>2, <2>3
<1>12. ASSUME NEW i \in DOMAIN ops', NEW k \in DOMAIN meta, i > applied
       PROVE  Distinct(ops'[i].value, meta[k])
  <2>1. CASE i \in DOMAIN ops
    BY <1>9, <1>12, <2>1 DEF Apart
  <2>2. CASE i = Len(ops) + 1
    <3>1. meta[k] \in Values
      BY DEF Values, ValuesOf
    <3>2. QED
      BY <1>4, <1>5, <1>9, <2>2, <3>1
  <2>3. QED
    BY <1>0, <1>9, <2>1, <2>2
<1>13. Apart'
  BY <1>1, <1>8, <1>11, <1>12 DEF Apart, OneKeyEach
<1>14. ASSUME NEW k, k # a.key
       PROVE  At(JsonDoc(metaMap', heap'), k) = At(JsonDoc(metaMap, heap), k)
  <2>1. CASE k \in DOMAIN metaMap
    <3>1. metaMap[k] \in Values \cup {x} /\ Distinct(old, metaMap[k])
      BY <1>7, <1>14, <2>1
    <3>2. Json(metaMap[k], result.heap) = Json(metaMap[k], h)
      BY <1>2, <1>3, <3>1, JsonStays
    <3>3. Json(metaMap[k], h) = Json(metaMap[k], heap)
      <4>1. ~Scalar(metaMap[k]) => h[metaMap[k].ref] = heap[metaMap[k].ref]
        BY <1>0, <1>3, <1>7, <1>14, <2>1, InHeap
      <4>2. QED
        BY <4>1 DEF Json, Scalar
    <3>4. k \in DOMAIN metaMap' /\ metaMap'[k] = metaMap[k]
      BY <1>1, <1>2, <1>14, <2>1
    <3>5. QED
      BY <1>1, <2>1, <3>2, <3>3, <3>4, AtJson
  <2>2. CASE k \notin DOMAIN metaMap
    BY <1>1, <1>2, <1>14, <2>2, AtJson
  <2>3. QED
    BY <2>1, <2>2
<1>15. Last(ops') = op
  BY <1>9 DEF Last
<1>16. QED
  BY <1>1, <1>5, <1>13, <1>14, <1>15

\* So does a step that applies one, for meta.
LEMMA ApplyApart ==
  ASSUME RInv, Apart, Compute
  PROVE  /\ Apart' /\ UNCHANGED ops /\ applied' = applied + 1
         /\ \A k : k # ops[applied + 1].key =>
              At(JsonDoc(meta', heap'), k) = At(JsonDoc(meta, heap), k)
<1> DEFINE op == ops[applied + 1]
           old == At(meta, op.key)
           fresh == <<"result", applied>>
<1>0. Sound(Values, heap) /\ applied \in Nat /\ Len(ops) \in Nat /\ fresh \notin DOMAIN heap
  BY Free DEF RInv
<1>1. /\ applied' = applied + 1 /\ UNCHANGED <<ops, metaMap>>
      /\ applied + 1 \in DOMAIN ops
  <2>1. DOMAIN ops = 1..Len(ops)
    BY DEF RInv, Control, IsSequence
  <2>2. QED
    BY <1>0, <2>1 DEF Compute
<1>2. /\ Touched(heap, heap', old, fresh)
      /\ \A k : k # op.key =>
           /\ k \in DOMAIN meta' <=> k \in DOMAIN meta
           /\ k \in DOMAIN meta => meta'[k] = meta[k]
      /\ op.key \in DOMAIN meta' => ComesFrom(meta'[op.key], old, op.value, fresh)
  BY ComputeSound
<1>3. \A v \in Values : ~Scalar(v) => v.ref # fresh
  BY <1>0, InHeap
<1>4. \A k \in DOMAIN meta : meta[k] \in Values /\ Distinct(op.value, meta[k])
  BY <1>0, <1>1 DEF Values, ValuesOf, Apart
<1>5. \A i \in DOMAIN ops :
        i > applied + 1 => ops[i].value \in Values /\ Distinct(op.value, ops[i].value)
  BY <1>0, <1>1 DEF Values, Apart
<1>6. \A k \in DOMAIN meta : k # op.key => Distinct(old, meta[k])
  BY OldApart DEF Apart
<1>7. \A i \in DOMAIN ops : i > applied => Distinct(old, ops[i].value)
  BY Kinds DEF Apart, At, Distinct
<1> HIDE DEF op, old, fresh
<1>8. OneKeyEach(meta')
  <2>1. ASSUME op.key \in DOMAIN meta', NEW k \in DOMAIN meta, k # op.key
        PROVE  Distinct(meta'[op.key], meta[k])
    BY <1>2, <1>3, <1>4, <1>6, <2>1, ComesApart
  <2>2. QED
    BY <1>2, <2>1, StaysApart DEF Apart
<1>9. ASSUME NEW i \in DOMAIN ops, NEW k \in DOMAIN meta', i > applied + 1
      PROVE  Distinct(ops[i].value, meta'[k])
  <2>0. i > applied
    BY <1>0, <1>1, <1>9 DEF RInv, Control, IsSequence
  <2>1. CASE k = op.key
    <3>1. Distinct(meta'[k], ops[i].value)
      BY <1>2, <1>3, <1>5, <1>7, <1>9, <2>0, <2>1, ComesApart
    <3>2. QED
      BY <3>1 DEF Distinct
  <2>2. CASE k # op.key
    BY <1>2, <1>9, <2>0, <2>2 DEF Apart
  <2>3. QED
    BY <2>1, <2>2
<1>10. Apart'
  BY <1>1, <1>8, <1>9 DEF Apart, OneKeyEach
<1>11. ASSUME NEW k, k # op.key
       PROVE  At(JsonDoc(meta', heap'), k) = At(JsonDoc(meta, heap), k)
  <2>1. CASE k \in DOMAIN meta
    <3>1. Json(meta[k], heap') = Json(meta[k], heap)
      BY <1>0, <1>2, <1>4, <1>6, <1>11, <2>1, JsonStays
    <3>2. QED
      BY <1>2, <1>11, <2>1, <3>1, AtJson
  <2>2. CASE k \notin DOMAIN meta
    BY <1>2, <1>11, <2>2, AtJson
  <2>3. QED
    BY <2>1, <2>2
<1>12. QED
  BY <1>1, <1>10, <1>11 DEF op

LEMMA ApartStep ==
  ASSUME RInv, Apart, NoSharing, [Next]_vars
  PROVE  Apart' /\ [OtherKeysStay]_vars
<1>1. CASE \E a \in left : Evaluate(a) /\ ~UNCHANGED <<metaMap, ops, heap>>
  <2>1. PICK a \in left : Evaluate(a) /\ ~UNCHANGED <<metaMap, ops, heap>>
    BY <1>1
  <2>2. QED
    BY <2>1, MakeApart DEF OtherKeysStay
<1>2. CASE Compute
  <2>1. Len(ops') = Len(ops) /\ Len(ops) \in Nat
    BY <1>2, ApplyApart, Free DEF RInv
  <2>2. QED
    BY <1>2, <2>1, ApplyApart DEF OtherKeysStay
<1>3. CASE UNCHANGED <<ops, applied, metaMap, meta, heap>>
  <2>1. Apart'
    BY <1>3 DEF Apart, OneKeyEach
  <2>2. OtherKeysStay
    BY <1>3, Free DEF RInv, OtherKeysStay
  <2>3. QED
    BY <2>1, <2>2
<1>4. QED
  BY <1>1, <1>2, <1>3
  DEF Next, Find, BeginRule, Evaluate, Evaluated, Computed, vars, table

\* An operation changes its own key only, in the document the rules are evaluated
\* against and in the one that is stored, as long as no value is an object or a
\* list of the document: what an event holds may be shared by operations and
\* documents, and lists may be appended to in place.
THEOREM KeysApart == Spec /\ []NoSharing => KeyLevel
<1>1. Init => RInv /\ Apart
  BY InitSound, InitApart
<1>2. RInv /\ Apart /\ NoSharing /\ [Next]_vars => RInv' /\ Apart' /\ [OtherKeysStay]_vars
  BY RInvStep, ApartStep
<1>3. QED
  BY <1>1, <1>2, PTL DEF Spec, KeyLevel
=============================================================================
