------------------------------ MODULE Document ------------------------------
(***************************************************************************)
(* Documents as the rule engine and the metadata executor hold them: Go    *)
(* maps from keys to interface{} values.  An object or an array in such a  *)
(* map is a reference; copying the value copies the reference.  A heap     *)
(* holds what the references denote: the fields of an object, the backing  *)
(* array of a slice with its spare capacity.                               *)
(*                                                                         *)
(* Objects and arrays hold scalars, that is, documents are two levels deep.*)
(* Numbers are integers: every number of the code is a float64, exact for  *)
(* the ones used here.                                                     *)
(***************************************************************************)
EXTENDS Integers, Sequences, SequencesExt, TLC

Null == [kind |-> "null"]
Num(n) == [kind |-> "num", n |-> n]

\* A string, and what strconv.ParseFloat makes of it: 0 when it is no number.
Str(s, n) == [kind |-> "str", s |-> s, n |-> n]

\* JSON values.
JObject(fields) == [kind |-> "object", fields |-> fields]
JArray(elems) == [kind |-> "array", elems |-> elems]

\* Values of a document: scalars, and references.
Object(ref) == [kind |-> "object", ref |-> ref]
Slice(ref, len) == [kind |-> "array", ref |-> ref, len |-> len]

Scalar(v) == v.kind \notin {"object", "array"}

IsSequence(s) == s \in Seq({s[i] : i \in DOMAIN s})

IsFunction(f) == f = [x \in DOMAIN f |-> f[x]]

\* A JSON value two levels deep at most.
IsJson(j) ==
  \/ Scalar(j)
  \/ /\ j.kind = "object" /\ j = JObject(j.fields)
     /\ IsFunction(j.fields) /\ \A k \in DOMAIN j.fields : Scalar(j.fields[k])
  \/ j.kind = "array" /\ j = JArray(j.elems) /\ IsSequence(j.elems)

\* Operations on the entries of a Go map.
Put(f, k, v) == [x \in DOMAIN f \cup {k} |-> IF x = k THEN v ELSE f[x]]
Without(f, k) == [x \in DOMAIN f \ {k} |-> f[x]]
Over(f, g) == [x \in DOMAIN f \cup DOMAIN g |-> IF x \in DOMAIN f THEN f[x] ELSE g[x]]

\* The capacity append gives a slice that grows to n elements one by one: it
\* doubles up to 256.  A longer slice has no spare capacity here.
Capacity(n) ==
  IF n \in 1..256 THEN CHOOSE c \in {1, 2, 4, 8, 16, 32, 64, 128, 256} : n <= c /\ c < 2 * n
  ELSE n

Pad(elems) ==
  [i \in 1..Capacity(Len(elems)) |-> IF i <= Len(elems) THEN elems[i] ELSE Null]

\* json.Unmarshal of an object or array: the heap cell of the JSON value j, and
\* the value.
Cell(j) == IF j.kind = "object" THEN j.fields ELSE Pad(j.elems)

Value(j, ref) ==
  CASE j.kind = "object" -> Object(ref)
    [] j.kind = "array" -> Slice(ref, Len(j.elems))
    [] OTHER -> j

\* json.Marshal of a value, of a document.
Json(v, heap) ==
  CASE v.kind = "object" -> JObject(heap[v.ref])
    [] v.kind = "array" -> JArray(SubSeq(heap[v.ref], 1, v.len))
    [] OTHER -> v

JsonDoc(doc, heap) == [k \in DOMAIN doc |-> Json(doc[k], heap)]

\* m[k] of a Go map: nil when there is none.
At(m, k) == IF k \in DOMAIN m THEN m[k] ELSE Null

\* getByPath below "metadata": it stops at the first value that is no object,
\* although the path goes on.
GetByPath(doc, path, heap) ==
  LET v == At(doc, path[1]) IN
  IF Len(path) > 1 /\ v.kind = "object" THEN At(heap[v.ref], path[2]) ELSE v

\* toFloat of the rule engine reads strings, util.ToFloat does not.
ToFloat(v) == IF v.kind \in {"num", "str"} THEN v.n ELSE 0
UtilToFloat(v) == IF v.kind = "num" THEN v.n ELSE 0

\* compare of the rule engine; a condition condRegex does not match, here one
\* with another comparison sign, does not hold.  Its eq compares numbers, then strings; equal
\* strings are equal numbers, so the first comparison decides.
Eq(a, b) ==
  IF a = Null \/ b = Null THEN a = b ELSE ToFloat(a) = ToFloat(b)

Compare(a, cmp, b) ==
  \/ cmp = "==" /\ Eq(a, b)
  \/ cmp = "!=" /\ ~Eq(a, b)
  \/ cmp = ">"  /\ ToFloat(a) > ToFloat(b)
  \/ cmp = ">=" /\ ToFloat(a) >= ToFloat(b)
  \/ cmp = "<"  /\ ToFloat(a) < ToFloat(b)
  \/ cmp = "<=" /\ ToFloat(a) <= ToFloat(b)
=============================================================================
