------------------------- MODULE RuleMeaningProofs -------------------------
(***************************************************************************)
(* An action of a rule does to the document what RuleSemantics says of it; *)
(* and all orders by priority of a table mean the same, if the actions of  *)
(* one priority do not concern each other.                                 *)
(***************************************************************************)
EXTENDS RuleEngineProofs, FiniteSetTheorems

-----------------------------------------------------------------------------
(***************************************************************************)
(* What a sequence of actions means, one action at a time.                 *)
(***************************************************************************)

\* The smallest element of a set of numbers.
LEMMA Smallest ==
  ASSUME NEW T, T \subseteq Nat, T # {}
  PROVE  \E n \in T : \A m \in T : n <= m
<1> DEFINE R == OpToRel(<, Nat)
<1>1. IsWellFoundedOn(R, Nat)
  BY NatLessThanWellFounded
<1>2. \A n, m \in Nat : <<m, n>> \in R <=> m < n
  BY DEF OpToRel
<1> HIDE DEF R
<1>3. PICK n \in T : \A m \in T : ~(<<m, n>> \in R)
  BY <1>1, WFMin
<1>4. ASSUME NEW m \in T PROVE n <= m
  <2>1. n \in Nat /\ m \in Nat
    OBVIOUS
  <2>2. ~(m < n)
    BY <1>2, <1>3, <2>1
  <2>3. QED
    BY <2>1, <2>2
<1>5. QED
  BY <1>4

LEMMA Induction ==
  ASSUME NEW S, 0 \in S, \A n \in Nat : n \in S => n + 1 \in S
  PROVE  Nat \subseteq S
<1> DEFINE T == Nat \ S
<1> SUFFICES ASSUME T # {} PROVE FALSE
  OBVIOUS
<1>1. PICK n \in T : \A m \in T : n <= m
  BY Smallest
<1>2. n # 0 /\ n - 1 \in Nat
  OBVIOUS
<1>3. n - 1 \in S
  BY <1>1, <1>2
<1>4. QED
  BY <1>2, <1>3

Run(doc, actions, n, f) ==
  f = [m \in 0..n |-> IF m = 0 THEN doc ELSE Step(f[m - 1], actions[m])]

LEMMA MeaningIs ==
  ASSUME NEW doc, NEW s
  PROVE  Meaning(doc, s) = (CHOOSE f : Run(doc, s, Len(s), f))[Len(s)]
BY DEF Meaning, Run

LEMMA RunExists ==
  ASSUME NEW doc, NEW s, NEW n \in Nat
  PROVE  \E f : Run(doc, s, n, f)
<1> DEFINE S == {m \in Nat : \E f : Run(doc, s, m, f)}
<1>1. 0 \in S
  <2>1. Run(doc, s, 0, [m \in 0..0 |-> doc])
    BY DEF Run
  <2>2. QED
    BY <2>1
<1>2. ASSUME NEW m \in Nat, m \in S PROVE m + 1 \in S
  <2>1. PICK f : Run(doc, s, m, f)
    BY <1>2
  <2> DEFINE g == [i \in 0..(m + 1) |-> IF i = m + 1 THEN Step(f[m], s[m + 1]) ELSE f[i]]
  <2>2. \A i \in 0..m : f[i] = IF i = 0 THEN doc ELSE Step(f[i - 1], s[i])
    BY <2>1 DEF Run
  <2>3. \A i \in 0..(m + 1) : g[i] = IF i = 0 THEN doc ELSE Step(g[i - 1], s[i])
    BY <2>2
  <2>4. g = [i \in 0..(m + 1) |-> g[i]]
    OBVIOUS
  <2> HIDE DEF g
  <2>5. Run(doc, s, m + 1, g)
    BY <2>3, <2>4 DEF Run
  <2>6. QED
    BY <2>5
<1> HIDE DEF S
<1>3. Nat \subseteq S
  BY <1>1, <1>2, Induction
<1>4. QED
  BY <1>3 DEF S

LEMMA RunsAgree ==
  ASSUME NEW doc, NEW s, NEW n \in Nat, NEW f, Run(doc, s, n, f),
         NEW t, NEW k \in Nat, NEW g, Run(doc, t, k, g),
         n <= k, \A i \in 1..n : s[i] = t[i]
  PROVE  f[n] = g[n]
<1> DEFINE S == {m \in Nat : m <= n => f[m] = g[m]}
<1>1. \A m \in 0..n : f[m] = IF m = 0 THEN doc ELSE Step(f[m - 1], s[m])
  BY DEF Run
<1>2. \A m \in 0..k : g[m] = IF m = 0 THEN doc ELSE Step(g[m - 1], t[m])
  BY DEF Run
<1>3. 0 \in S
  BY <1>1, <1>2
<1>4. ASSUME NEW m \in Nat, m \in S PROVE m + 1 \in S
  <2> SUFFICES ASSUME m + 1 <= n PROVE f[m + 1] = g[m + 1]
    OBVIOUS
  <2>1. m + 1 \in 0..n /\ m + 1 \in 0..k /\ m + 1 \in 1..n /\ m + 1 # 0 /\ m + 1 - 1 = m /\ m <= n
    OBVIOUS
  <2>2. f[m] = g[m]
    BY <1>4, <2>1
  <2>3. f[m + 1] = Step(f[m], s[m + 1])
    BY <1>1, <2>1
  <2>4. g[m + 1] = Step(g[m], t[m + 1])
    BY <1>2, <2>1
  <2>5. QED
    BY <2>1, <2>2, <2>3, <2>4
<1> HIDE DEF S
<1>5. n \in S
  BY <1>3, <1>4, Induction
<1>6. QED
  BY <1>5 DEF S

LEMMA MeaningRuns ==
  ASSUME NEW doc, NEW s, Len(s) \in Nat
  PROVE  \E f : Run(doc, s, Len(s), f) /\ Meaning(doc, s) = f[Len(s)]
<1> DEFINE f == CHOOSE g : Run(doc, s, Len(s), g)
<1>1. \E g : Run(doc, s, Len(s), g)
  BY RunExists
<1>2. Run(doc, s, Len(s), f)
  BY <1>1
<1> HIDE DEF f
<1>3. QED
  BY <1>2, MeaningIs DEF f

\* No action leaves the document as it is; one more action is one more step.
LEMMA MeaningOfNone ==
  ASSUME NEW doc
  PROVE  Meaning(doc, <<>>) = doc
<1>1. Len(<<>>) = 0
  OBVIOUS
<1>2. PICK f : Run(doc, <<>>, 0, f) /\ Meaning(doc, <<>>) = f[0]
  BY <1>1, MeaningRuns
<1>3. QED
  BY <1>2 DEF Run

LEMMA MeaningOfAppend ==
  ASSUME NEW doc, NEW s, IsSequence(s), NEW a
  PROVE  Meaning(doc, Append(s, a)) = Step(Meaning(doc, s), a)
<1> DEFINE t == Append(s, a)
           n == Len(s)
<1>1. n \in Nat /\ Len(t) = n + 1 /\ t[n + 1] = a /\ \A i \in 1..n : s[i] = t[i]
  BY LengthIs, AppendIs, AppendElements
<1> HIDE DEF t, n
<1>2. PICK f : Run(doc, s, n, f) /\ Meaning(doc, s) = f[n]
  BY <1>1, MeaningRuns DEF n
<1>3. PICK g : Run(doc, t, n + 1, g) /\ Meaning(doc, t) = g[n + 1]
  <2>1. Len(t) \in Nat
    BY <1>1
  <2>2. QED
    BY <1>1, <2>1, MeaningRuns
<1>4. f[n] = g[n]
  <2>1. n + 1 \in Nat /\ n <= n + 1
    BY <1>1
  <2>2. QED
    BY <1>1, <1>2, <1>3, <2>1, RunsAgree
<1>5. g[n + 1] = Step(g[n], t[n + 1])
  <2> DEFINE k == n + 1
  <2>1. k \in 0..k /\ k # 0 /\ k - 1 = n
    BY <1>1
  <2>2. Run(doc, t, k, g)
    BY <1>3
  <2> HIDE DEF k
  <2>3. \A m \in 0..k : g[m] = IF m = 0 THEN doc ELSE Step(g[m - 1], t[m])
    BY <2>2 DEF Run
  <2>4. g[k] = Step(g[n], t[k])
    BY <2>1, <2>3
  <2>5. QED
    BY <2>4 DEF k
<1>6. QED
  BY <1>1, <1>2, <1>3, <1>4, <1>5 DEF t

-----------------------------------------------------------------------------
(***************************************************************************)
(* The order of the actions.  Those of one priority may come in any, if    *)
(* they do not concern each other.                                         *)
(***************************************************************************)

\* The documents d and e are alike in what the action a looks at.
LEMMA FoundAlike ==
  ASSUME NEW path, IsPath(path), NEW d, NEW e,
         path[1] = "metadata" => At(d, path[2]) = At(e, path[2])
  PROVE  Found(d, path) = Found(e, path)
BY DEF Found, IsPath

\* An action changes one key, to a value that depends on what it looks at.
LEMMA StepIsLocal ==
  ASSUME NEW a, IsAction(a), NEW d, NEW e,
         \A k \in Reads(a) \cup {a.key} : At(d, k) = At(e, k)
  PROVE  \/ Step(d, a) = d /\ Step(e, a) = e
         \/ Step(d, a) = Without(d, a.key) /\ Step(e, a) = Without(e, a.key)
         \/ \E v : Step(d, a) = Put(d, a.key, v) /\ Step(e, a) = Put(e, a.key, v)
<1>1. ASSUME NEW c \in a.cond
      PROVE  Meant(c, d) <=> Meant(c, e)
  <2>1. c.path[1] = "metadata" => c.path[2] \in Reads(a)
    BY DEF Reads
  <2>2. Found(d, c.path) = Found(e, c.path)
    BY <2>1, FoundAlike DEF IsAction
  <2>3. QED
    BY <2>2 DEF Meant
<1>2. Given(a, d) = Given(a, e)
  <2>1. CASE a.source = "static"
    BY <2>1 DEF Given
  <2>2. CASE a.source # "static"
    <3>1. IsPath(a.template) /\ (a.template[1] = "metadata" => a.template[2] \in Reads(a))
      BY <2>2 DEF IsAction, Reads
    <3>2. Found(d, a.template) = Found(e, a.template)
      BY <3>1, FoundAlike
    <3>3. QED
      BY <2>2, <3>2 DEF Given
  <2>3. QED
    BY <2>1, <2>2
<1>3. At(d, a.key) = At(e, a.key)
  OBVIOUS
<1> DEFINE j == Given(a, d)
<1>4. \/ Changed(d, a, j) = d /\ Changed(e, a, j) = e
      \/ Changed(d, a, j) = Without(d, a.key) /\ Changed(e, a, j) = Without(e, a.key)
      \/ \E v : Changed(d, a, j) = Put(d, a.key, v) /\ Changed(e, a, j) = Put(e, a.key, v)
  <2> HIDE DEF j
  <2>1. QED
    BY <1>3 DEF Changed
<1>5. QED
  BY <1>1, <1>2, <1>4 DEF Step

\* So it leaves the other keys as they are.
LEMMA StepLeaves ==
  ASSUME NEW a, IsAction(a), NEW d, NEW k, k # a.key
  PROVE  At(Step(d, a), k) = At(d, k)
<1>1. \/ Step(d, a) = d
      \/ Step(d, a) = Without(d, a.key)
      \/ \E v : Step(d, a) = Put(d, a.key, v)
  BY StepIsLocal
<1>2. QED
  BY <1>1 DEF At, Without, Put

\* Two actions that do not concern each other may come in either order.
LEMMA StepsCommute ==
  ASSUME NEW a, IsAction(a), NEW b, IsAction(b), NEW d,
         b.key \notin Reads(a) \cup {a.key}, a.key \notin Reads(b) \cup {b.key}
  PROVE  Step(Step(d, a), b) = Step(Step(d, b), a)
<1>1. \A k \in Reads(a) \cup {a.key} : At(d, k) = At(Step(d, b), k)
  BY StepLeaves
<1>2. \A k \in Reads(b) \cup {b.key} : At(d, k) = At(Step(d, a), k)
  BY StepLeaves
<1> DEFINE da == Step(d, a)
           db == Step(d, b)
           dab == Step(da, b)
           dba == Step(db, a)
<1>3. \/ da = d /\ dba = db
      \/ da = Without(d, a.key) /\ dba = Without(db, a.key)
      \/ \E v : da = Put(d, a.key, v) /\ dba = Put(db, a.key, v)
  BY <1>1, StepIsLocal
<1>4. \/ db = d /\ dab = da
      \/ db = Without(d, b.key) /\ dab = Without(da, b.key)
      \/ \E v : db = Put(d, b.key, v) /\ dab = Put(da, b.key, v)
  BY <1>2, StepIsLocal
<1> HIDE DEF da, db, dab, dba
<1>5. a.key # b.key
  OBVIOUS
<1>6. dab = dba
  BY <1>3, <1>4, <1>5 DEF Without, Put
<1>7. QED
  BY <1>6 DEF dab, dba, da, db

\* p has the n actions of A, each with its rule, by priority.
Ordered(p, n, A) ==
  /\ p \in [1..n -> A]
  /\ \A i, j \in 1..n : p[i] = p[j] => i = j
  /\ \A x \in A : \E i \in 1..n : p[i] = x
  /\ \A i, j \in 1..n : i < j => p[i].rule.priority >= p[j].rule.priority

Actions(p) == [i \in DOMAIN p |-> p[i].action]

\* Those of one priority do not concern each other.
Commuting(A) ==
  /\ \A x \in A : IsAction(x.action) /\ x.rule.priority \in Int
  /\ \A x, y \in A :
       x # y /\ x.rule.priority = y.rule.priority
         => y.action.key \notin Reads(x.action) \cup {x.action.key}

\* p without its k-th element.
Except(p, n, k) == [i \in 1..n |-> IF i < k THEN p[i] ELSE p[i + 1]]

LEMMA ExceptOrdered ==
  ASSUME NEW n \in Nat, NEW A, NEW p, Ordered(p, n + 1, A), NEW k \in 1..(n + 1)
  PROVE  Ordered(Except(p, n, k), n, A \ {p[k]})
<1> DEFINE r == Except(p, n, k)
           f(i) == IF i < k THEN i ELSE i + 1
<1>1. \A i \in 1..n : f(i) \in 1..(n + 1) /\ f(i) # k /\ r[i] = p[f(i)]
  BY DEF Except
<1>2. \A i, j \in 1..n : (f(i) = f(j) => i = j) /\ (i < j => f(i) < f(j))
  OBVIOUS
<1>3. r \in [1..n -> A \ {p[k]}]
  <2>1. \A i \in 1..n : p[f(i)] \in A /\ p[f(i)] # p[k]
    BY <1>1 DEF Ordered
  <2>2. r = [i \in 1..n |-> r[i]]
    BY DEF Except
  <2> HIDE DEF r, f
  <2>3. QED
    BY <1>1, <2>1, <2>2
<1>4. ASSUME NEW x \in A \ {p[k]}
      PROVE  \E i \in 1..n : r[i] = x
  <2>1. PICK j \in 1..(n + 1) : p[j] = x
    BY DEF Ordered
  <2>2. j # k
    BY <2>1
  <2>3. CASE j < k
    <3>1. j \in 1..n /\ f(j) = j
      BY <2>3
    <3>2. QED
      BY <1>1, <2>1, <3>1
  <2>4. CASE j > k
    <3>1. j - 1 \in 1..n /\ f(j - 1) = j
      BY <2>4
    <3>2. QED
      BY <1>1, <2>1, <3>1
  <2>5. QED
    BY <2>2, <2>3, <2>4
<1> HIDE DEF f
<1>5. \A i, j \in 1..n : r[i] = r[j] => i = j
  <2> HIDE DEF r
  <2>1. QED
    BY <1>1, <1>2 DEF Ordered
<1>6. \A i, j \in 1..n : i < j => r[i].rule.priority >= r[j].rule.priority
  <2> HIDE DEF r
  <2>1. QED
    BY <1>1, <1>2 DEF Ordered
<1>7. Ordered(r, n, A \ {p[k]})
  <2> HIDE DEF r
  <2>1. QED
    BY <1>3, <1>4, <1>5, <1>6 DEF Ordered
<1>8. QED
  BY <1>7

LEMMA ActionsOf ==
  ASSUME NEW n \in Nat, NEW A, NEW p \in [1..n -> A]
  PROVE  /\ Len(Actions(p)) = n /\ IsSequence(Actions(p))
         /\ DOMAIN Actions(p) = 1..n /\ \A i \in 1..n : Actions(p)[i] = p[i].action
<1> DEFINE s == Actions(p)
           S == {p[i].action : i \in 1..n}
<1>1. s = [i \in 1..n |-> p[i].action]
  BY DEF Actions
<1>2. s \in [1..n -> S]
  BY <1>1
<1> HIDE DEF s
<1>3. s \in Seq(S) /\ Len(s) = n
  <2> HIDE DEF S
  <2>1. QED
    BY <1>2
<1>4. IsSequence(s)
  BY <1>3, SequenceIs
<1>5. QED
  BY <1>1, <1>3, <1>4 DEF s

\* An action may be taken out and put last if no other of its priority, and none
\* of a lower one, concerns it.
LEMMA MovedLast ==
  ASSUME NEW n \in Nat, NEW A, NEW p, Ordered(p, n + 1, A), Commuting(A),
         NEW k \in 1..(n + 1), \A i \in k..(n + 1) : p[i].rule.priority = p[k].rule.priority,
         NEW doc
  PROVE  Meaning(doc, Actions(p)) = Step(Meaning(doc, Actions(Except(p, n, k))), p[k].action)
<1> DEFINE r == Except(p, n, k)
           a == p[k].action
           s == Actions(p)
           t == Actions(r)
<1>1. /\ p \in [1..(n + 1) -> A] /\ r \in [1..n -> A \ {p[k]}]
      /\ \A i \in 1..n : r[i] = IF i < k THEN p[i] ELSE p[i + 1]
  BY ExceptOrdered DEF Ordered, Except
<1>2. /\ Len(s) = n + 1 /\ \A i \in 1..(n + 1) : s[i] = p[i].action
      /\ Len(t) = n /\ \A i \in 1..n : t[i] = r[i].action
  <2> HIDE DEF r
  <2>1. n + 1 \in Nat
    OBVIOUS
  <2>2. Len(s) = n + 1 /\ DOMAIN s = 1..(n + 1) /\ \A i \in 1..(n + 1) : s[i] = p[i].action
    BY <1>1, <2>1, ActionsOf
  <2>3. Len(t) = n /\ \A i \in 1..n : t[i] = r[i].action
    BY <1>1, ActionsOf
  <2>4. QED
    BY <2>2, <2>3
<1> HIDE DEF s, t, r
<1>3. PICK f : Run(doc, s, n + 1, f) /\ Meaning(doc, s) = f[n + 1]
  BY <1>2, MeaningRuns
<1>4. PICK g : Run(doc, t, n, g) /\ Meaning(doc, t) = g[n]
  BY <1>2, MeaningRuns
<1>5. \A m \in 0..(n + 1) : f[m] = IF m = 0 THEN doc ELSE Step(f[m - 1], s[m])
  BY <1>3 DEF Run
<1>6. \A m \in 0..n : g[m] = IF m = 0 THEN doc ELSE Step(g[m - 1], t[m])
  BY <1>4 DEF Run
<1> DEFINE T == {m \in Nat : /\ m < k => f[m] = g[m]
                             /\ m \in k..(n + 1) => f[m] = Step(g[m - 1], a)}
<1>7. 0 \in T
  BY <1>5, <1>6
<1>8. ASSUME NEW m \in Nat, m \in T PROVE m + 1 \in T
  <2> SUFFICES ASSUME m + 1 <= n + 1
               PROVE  /\ m + 1 < k => f[m + 1] = g[m + 1]
                      /\ m + 1 >= k => f[m + 1] = Step(g[m], a)
    OBVIOUS
  <2>1. f[m + 1] = Step(f[m], s[m + 1])
    <3>1. m + 1 \in 0..(n + 1) /\ m + 1 # 0 /\ (m + 1) - 1 = m
      OBVIOUS
    <3>2. QED
      BY <1>5, <3>1
  <2>2. m + 1 \in 1..(n + 1) /\ s[m + 1] = p[m + 1].action
    BY <1>2
  <2>3. CASE m + 1 < k
    <3>1. m + 1 \in 0..n /\ m + 1 \in 1..n /\ m + 1 # 0 /\ (m + 1) - 1 = m
      BY <2>3
    <3>2. g[m + 1] = Step(g[m], t[m + 1])
      BY <1>6, <3>1
    <3>3. t[m + 1] = p[m + 1].action
      BY <1>1, <1>2, <2>3, <3>1
    <3>4. f[m] = g[m]
      BY <1>8, <2>3
    <3>5. QED
      BY <2>1, <2>2, <2>3, <3>2, <3>3, <3>4
  <2>4. CASE m + 1 = k
    <3>1. f[m] = g[m]
      BY <1>8, <2>4
    <3>2. QED
      BY <2>1, <2>2, <2>4, <3>1
  <2>5. CASE m + 1 > k
    <3> DEFINE b == p[m + 1].action
    <3>1. m \in k..(n + 1) /\ m \in 0..n /\ m \in 1..n /\ m # 0
      BY <2>5
    <3>2. f[m] = Step(g[m - 1], a)
      BY <1>8, <3>1
    <3>3. g[m] = Step(g[m - 1], t[m]) /\ t[m] = b
      BY <1>1, <1>2, <1>6, <2>5, <3>1
    <3>4. /\ IsAction(a) /\ IsAction(b)
          /\ b.key \notin Reads(a) \cup {a.key} /\ a.key \notin Reads(b) \cup {b.key}
      <4>1. p[k] \in A /\ p[m + 1] \in A /\ p[k] # p[m + 1]
        BY <1>1, <2>2, <2>5 DEF Ordered
      <4>2. p[m + 1].rule.priority = p[k].rule.priority
        BY <2>5
      <4>3. QED
        BY <4>1, <4>2 DEF Commuting
    <3> HIDE DEF a, b
    <3>5. Step(Step(g[m - 1], a), b) = Step(Step(g[m - 1], b), a)
      BY <3>4, StepsCommute
    <3>6. QED
      BY <2>1, <2>2, <2>5, <3>2, <3>3, <3>5 DEF b
  <2>6. QED
    BY <2>3, <2>4, <2>5
<1> HIDE DEF T
<1>9. n + 1 \in T
  BY <1>7, <1>8, Induction
<1>10. f[n + 1] = Step(g[n], a)
  BY <1>9 DEF T
<1>11. QED
  BY <1>3, <1>4, <1>10 DEF s, t, r

LEMMA EmptyFunctionsAgree ==
  ASSUME NEW B, NEW s \in [{} -> B], NEW t \in [{} -> B]
  PROVE  s = t
<1>1. s = [i \in {} |-> s[i]] /\ t = [i \in {} |-> t[i]]
  OBVIOUS
<1>2. [i \in {} |-> s[i]] = [i \in {} |-> t[i]]
  OBVIOUS
<1>3. QED
  BY <1>1, <1>2

\* All orders by priority mean the same.
LEMMA OrdersAgree ==
  ASSUME NEW doc, NEW A, Commuting(A),
         NEW n \in Nat, NEW p, Ordered(p, n, A), NEW q, Ordered(q, n, A)
  PROVE  Meaning(doc, Actions(p)) = Meaning(doc, Actions(q))
<1> DEFINE OneMeaning(m) ==
      \A B, s, t : Ordered(s, m, B) /\ Ordered(t, m, B) /\ Commuting(B)
        => Meaning(doc, Actions(s)) = Meaning(doc, Actions(t))
           S == {m \in Nat : OneMeaning(m)}
<1>1. 0 \in S
  <2> SUFFICES ASSUME NEW B, NEW s, NEW t, Ordered(s, 0, B), Ordered(t, 0, B)
               PROVE  s = t
    OBVIOUS
  <2>1. s \in [1..0 -> B] /\ t \in [1..0 -> B]
    BY DEF Ordered
  <2>2. 1..0 = {}
    OBVIOUS
  <2>3. QED
    BY <2>1, <2>2, EmptyFunctionsAgree
<1>2. ASSUME NEW m \in Nat, m \in S PROVE m + 1 \in S
  <2> SUFFICES ASSUME NEW B, NEW s, NEW t, Ordered(s, m + 1, B), Ordered(t, m + 1, B),
                      Commuting(B)
               PROVE  Meaning(doc, Actions(s)) = Meaning(doc, Actions(t))
    OBVIOUS
  <2> DEFINE l == m + 1
             x == s[l]
             s0 == Except(s, m, l)
  <2>1. l \in 1..l /\ x \in B
    BY DEF Ordered
  <2>2. PICK k \in 1..l : t[k] = x
    BY <2>1 DEF Ordered
  <2> DEFINE t0 == Except(t, m, k)
  <2>3. Ordered(s0, m, B \ {x}) /\ Ordered(t0, m, B \ {x}) /\ Commuting(B \ {x})
    <3>1. Ordered(s0, m, B \ {x})
      BY <2>1, ExceptOrdered
    <3>2. Ordered(t0, m, B \ {t[k]})
      BY ExceptOrdered
    <3>3. QED
      BY <2>2, <3>1, <3>2 DEF Commuting
  <2>4. Meaning(doc, Actions(s0)) = Meaning(doc, Actions(t0))
    <3> HIDE DEF s0, t0, x
    <3>1. QED
      BY <1>2, <2>3
  <2>5. Meaning(doc, Actions(s)) = Step(Meaning(doc, Actions(s0)), x.action)
    <3>1. \A i \in l..(m + 1) : s[i].rule.priority = s[l].rule.priority
      OBVIOUS
    <3> HIDE DEF l
    <3>2. l \in 1..(m + 1)
      BY <2>1 DEF l
    <3>3. QED
      BY <3>1, <3>2, MovedLast
  <2>6. Meaning(doc, Actions(t)) = Step(Meaning(doc, Actions(t0)), x.action)
    <3>1. ASSUME NEW i \in k..(m + 1)
          PROVE  t[i].rule.priority = t[k].rule.priority
      <4>1. i \in 1..l /\ t[i] \in B /\ t[k] \in B
        <5>1. t \in [1..l -> B]
          BY DEF Ordered
        <5>2. k \in 1..l /\ i \in 1..l
          OBVIOUS
        <5> HIDE DEF l, x, s0, t0
        <5>3. QED
          BY <5>1, <5>2
      <4>2. t[i].rule.priority \in Int /\ t[k].rule.priority \in Int
        BY <4>1 DEF Commuting
      <4>3. t[k].rule.priority >= t[i].rule.priority
        <5>1. CASE k < i
          BY <4>1, <5>1 DEF Ordered
        <5>2. CASE k = i
          BY <4>2, <5>2
        <5>3. QED
          BY <5>1, <5>2
      <4>4. PICK j \in 1..l : s[j] = t[i]
        BY <4>1 DEF Ordered
      <4>5. t[i].rule.priority >= t[k].rule.priority
        <5>1. j < l => s[j].rule.priority >= s[l].rule.priority
          BY <2>1 DEF Ordered
        <5>2. CASE j < l
          BY <2>2, <4>4, <5>1, <5>2
        <5>3. CASE j = l
          BY <2>2, <4>2, <4>4, <5>3
        <5>4. QED
          BY <5>2, <5>3
      <4>6. QED
        BY <4>2, <4>3, <4>5
    <3>2. Meaning(doc, Actions(t)) = Step(Meaning(doc, Actions(t0)), t[k].action)
      BY <3>1, MovedLast
    <3>3. QED
      BY <2>2, <3>2
  <2>7. QED
    BY <2>4, <2>5, <2>6
<1> HIDE DEF S
<1>3. n \in S
  BY <1>1, <1>2, Induction
<1>4. QED
  BY <1>3 DEF S

-----------------------------------------------------------------------------
(***************************************************************************)
(* Slices.                                                                 *)
(***************************************************************************)

LEMMA PrefixAt ==
  ASSUME NEW s, IsSequence(s), NEW n \in Nat, n <= Len(s)
  PROVE  SubSeq(s, 1, n) = [i \in 1..n |-> s[i]]
<1> DEFINE S == {s[j] : j \in DOMAIN s}
<1>1. s \in Seq(S)
  BY DEF IsSequence
<1> HIDE DEF S
<1>2. QED
  BY <1>1

LEMMA SequenceAt ==
  ASSUME NEW s, IsSequence(s)
  PROVE  s = [i \in 1..Len(s) |-> s[i]]
<1> DEFINE S == {s[i] : i \in DOMAIN s}
<1>1. s \in Seq(S)
  BY DEF IsSequence
<1> HIDE DEF S
<1>2. QED
  BY <1>1

LEMMA AppendAt ==
  ASSUME NEW s, IsSequence(s), NEW x
  PROVE  Append(s, x) = [i \in 1..(Len(s) + 1) |-> IF i <= Len(s) THEN s[i] ELSE x]
<1> DEFINE t == Append(s, x)
           n == Len(s) + 1
<1>1. IsSequence(t) /\ Len(t) = n /\ n \in Nat
  BY AppendIs, LengthIs
<1>2. \A i \in 1..n : t[i] = IF i <= Len(s) THEN s[i] ELSE x
  BY AppendElements, LengthIs
<1> HIDE DEF t
<1>3. t = [i \in 1..n |-> t[i]]
  BY <1>1, SequenceAt
<1>4. QED
  BY <1>2, <1>3 DEF t

\* What json.Unmarshal puts into a backing array is what the slice shows.
LEMMA PrefixOfPad ==
  ASSUME NEW s, IsSequence(s)
  PROVE  SubSeq(Pad(s), 1, Len(s)) = s
<1> DEFINE n == Len(s)
           p == Pad(s)
<1>1. IsSequence(p) /\ n \in Nat /\ n <= Len(p) /\ n <= Capacity(n)
  BY PadIs, CapacityHolds
<1>2. \A i \in 1..n : p[i] = s[i]
  <2>1. Capacity(n) \in Nat
    BY <1>1, CapacityHolds
  <2>2. QED
    BY <1>1, <2>1 DEF Pad
<1> HIDE DEF p, n
<1>3. SubSeq(p, 1, n) = [i \in 1..n |-> p[i]]
  BY <1>1, PrefixAt
<1>4. s = [i \in 1..n |-> s[i]]
  BY SequenceAt DEF n
<1>5. QED
  BY <1>2, <1>3, <1>4 DEF n, p

\* append in place.
LEMMA PrefixOfWrite ==
  ASSUME NEW s, IsSequence(s), NEW n \in Nat, n < Len(s), NEW x
  PROVE  SubSeq([s EXCEPT ![n + 1] = x], 1, n + 1) = Append(SubSeq(s, 1, n), x)
<1> DEFINE w == [s EXCEPT ![n + 1] = x]
           p == SubSeq(s, 1, n)
<1>0. Len(s) \in Nat /\ DOMAIN s = 1..Len(s)
  BY LengthIs, AppendElements
<1>1. IsSequence(w) /\ Len(w) = Len(s)
  <2>1. n + 1 \in 1..Len(s)
    BY <1>0
  <2>2. QED
    BY <2>1, WriteIs
<1>2. \A i \in 1..(n + 1) : w[i] = IF i <= n THEN s[i] ELSE x
  <2>1. \A i \in DOMAIN s : w[i] = IF i = n + 1 THEN x ELSE s[i]
    OBVIOUS
  <2> HIDE DEF w
  <2>2. QED
    BY <1>0, <2>1
<1>3. IsSequence(p) /\ Len(p) = n
  BY <1>0, PrefixIs
<1>4. p = [i \in 1..n |-> s[i]]
  BY <1>0, PrefixAt
<1> HIDE DEF w, p
<1>5. SubSeq(w, 1, n + 1) = [i \in 1..(n + 1) |-> w[i]]
  BY <1>0, <1>1, PrefixAt
<1>6. Append(p, x) = [i \in 1..(n + 1) |-> IF i <= n THEN p[i] ELSE x]
  BY <1>3, AppendAt
<1>7. \A i \in 1..(n + 1) : w[i] = IF i <= n THEN p[i] ELSE x
  BY <1>2, <1>4
<1>8. QED
  BY <1>5, <1>6, <1>7 DEF w, p

-----------------------------------------------------------------------------
(***************************************************************************)
(* The JSON of a value.                                                    *)
(***************************************************************************)

LEMMA JsonIs ==
  ASSUME NEW v, NEW h
  PROVE  /\ Scalar(v) => Json(v, h) = v
         /\ v.kind = "object" => Json(v, h) = JObject(h[v.ref])
         /\ v.kind = "array" => Json(v, h) = JArray(SubSeq(h[v.ref], 1, v.len))
         /\ Json(v, h).kind = v.kind
BY DEF Json, Scalar, JObject, JArray

LEMMA PartsOfJson ==
  ASSUME NEW v, NEW h
  PROVE  /\ Number(Json(v, h)) = UtilToFloat(v)
         /\ Fields(Json(v, h)) = IF v.kind = "object" THEN h[v.ref] ELSE <<>>
         /\ Elements(Json(v, h)) = IF v.kind = "array" THEN SubSeq(h[v.ref], 1, v.len) ELSE <<>>
<1>1. Number(Json(v, h)) = UtilToFloat(v)
  BY JsonIs DEF Number, UtilToFloat, Scalar
<1>2. Fields(Json(v, h)) = IF v.kind = "object" THEN h[v.ref] ELSE <<>>
  BY JsonIs DEF Fields, JObject
<1>3. Elements(Json(v, h)) = IF v.kind = "array" THEN SubSeq(h[v.ref], 1, v.len) ELSE <<>>
  <2> DEFINE s == SubSeq(h[v.ref], 1, v.len)
  <2>1. Json(v, h).kind = v.kind /\ (v.kind = "array" => Json(v, h) = JArray(s))
    BY JsonIs
  <2> HIDE DEF s
  <2>2. Elements(Json(v, h)) = IF v.kind = "array" THEN s ELSE <<>>
    BY <2>1 DEF Elements, JArray
  <2>3. QED
    BY <2>2 DEF s
<1>4. QED
  BY <1>1, <1>2, <1>3

\* An entry of a document, and of its JSON.
LEMMA EntryOfJson ==
  ASSUME NEW doc, NEW h, NEW k
  PROVE  At(JsonDoc(doc, h), k) = Json(At(doc, k), h)
<1>1. Json(Null, h) = Null
  BY Kinds, JsonIs
<1>2. QED
  BY <1>1, AtJson DEF At

-----------------------------------------------------------------------------
(***************************************************************************)
(* Operations.                                                             *)
(***************************************************************************)

LEMMA AppendMeaning ==
  ASSUME NEW values, NEW h, Sound(values, h), NEW op, op.op = "append", Scalar(op.value),
         NEW old \in values, NEW fresh, fresh \notin DOMAIN h
  PROVE  LET n == NewValue(op, old, h, fresh) IN
         Json(n.value, n.heap) = JArray(Append(Elements(Json(old, h)), Json(op.value, h)))
<1> DEFINE n == NewValue(op, old, h, fresh)
           x == op.value
<1>1. Json(x, h) = x
  BY JsonIs
<1>2. CASE old.kind = "array"
  <2> DEFINE a == h[old.ref]
             s == SubSeq(a, 1, old.len)
  <2>1. /\ old.ref \in DOMAIN h /\ IsSequence(a) /\ old.len \in Nat /\ old.len <= Len(a)
        /\ Len(a) \in Nat
    BY <1>2, LengthIs DEF Sound, Denotes
  <2>2. Elements(Json(old, h)) = s
    BY <1>2, PartsOfJson
  <2>3. IsSequence(s) /\ Len(s) = old.len
    BY <2>1, PrefixIs
  <2>4. n = Appended(old, x, h, fresh)
    BY <1>2 DEF NewValue
  <2>5. CASE old.len < Len(a)
    <3>1. /\ n.value = Slice(old.ref, old.len + 1)
          /\ n.heap = [h EXCEPT ![old.ref][old.len + 1] = x]
      BY <2>4, <2>5 DEF Appended
    <3>2. n.heap[old.ref] = [a EXCEPT ![old.len + 1] = x]
      BY <2>1, <3>1
    <3>3. Json(n.value, n.heap) = JArray(SubSeq(n.heap[n.value.ref], 1, n.value.len))
          /\ n.value.ref = old.ref /\ n.value.len = old.len + 1
      <4> HIDE DEF n
      <4>1. n.value.kind = "array" /\ n.value.ref = old.ref /\ n.value.len = old.len + 1
        BY <3>1, Kinds
      <4>2. QED
        BY <4>1, JsonIs
    <3>4. SubSeq([a EXCEPT ![old.len + 1] = x], 1, old.len + 1) = Append(s, x)
      BY <2>1, <2>5, PrefixOfWrite
    <3>5. QED
      BY <1>1, <2>2, <3>2, <3>3, <3>4
  <2>6. CASE ~(old.len < Len(a))
    <3> DEFINE t == Append(s, x)
    <3>1. n.value = Slice(fresh, old.len + 1) /\ n.heap = Put(h, fresh, Pad(t))
      BY <2>4, <2>6 DEF Appended
    <3>2. IsSequence(t) /\ Len(t) = old.len + 1
      BY <2>3, AppendIs
    <3> HIDE DEF t, n
    <3>3. n.heap[fresh] = Pad(t)
      BY <3>1 DEF Put
    <3>4. Json(n.value, n.heap) = JArray(SubSeq(Pad(t), 1, Len(t)))
      BY <3>1, <3>2, <3>3, Kinds, JsonIs
    <3>5. SubSeq(Pad(t), 1, Len(t)) = t
      BY <3>2, PrefixOfPad
    <3>6. QED
      BY <1>1, <2>2, <3>4, <3>5 DEF t, n
  <2>7. QED
    BY <2>5, <2>6
<1>3. CASE old.kind # "array"
  <2> DEFINE t == <<x>>
  <2>1. n.value = Slice(fresh, 1) /\ n.heap = Put(h, fresh, Pad(t))
    BY <1>3 DEF NewValue
  <2>2. Elements(Json(old, h)) = <<>>
    BY <1>3, PartsOfJson
  <2>3. t \in Seq({x}) /\ Len(t) = 1 /\ Append(<<>>, x) = t
    OBVIOUS
  <2> HIDE DEF t, n
  <2>4. SubSeq(Pad(t), 1, Len(t)) = t
    BY <2>3, SequenceIs, PrefixOfPad
  <2>5. n.heap[fresh] = Pad(t)
    BY <2>1 DEF Put
  <2>6. Json(n.value, n.heap) = JArray(SubSeq(Pad(t), 1, Len(t)))
    BY <2>1, <2>3, <2>5, Kinds, JsonIs
  <2>7. QED
    BY <1>1, <2>2, <2>3, <2>4, <2>6 DEF n, t
<1>4. QED
  BY <1>2, <1>3

LEMMA MergeMeaning ==
  ASSUME NEW values, NEW h, Sound(values, h), NEW op, op.op = "merge", op.value \in values,
         NEW old \in values, NEW fresh, fresh \notin DOMAIN h
  PROVE  LET n == NewValue(op, old, h, fresh) IN
         Json(n.value, n.heap) = JObject(Over(Fields(Json(op.value, h)), Fields(Json(old, h))))
<1> DEFINE n == NewValue(op, old, h, fresh)
           x == op.value
           f == Fields(Json(x, h))
           g == Fields(Json(old, h))
<1>0. DOMAIN <<>> = {}
  OBVIOUS
<1>1. f = IF x.kind = "object" THEN h[x.ref] ELSE <<>>
  BY PartsOfJson
<1>2. g = IF old.kind = "object" THEN h[old.ref] ELSE <<>>
  BY PartsOfJson
<1>3. x.kind = "object" => x.ref \in DOMAIN h
  BY DEF Sound, Denotes
<1>4. IsFunction(g)
  <2>1. IsFunction(<<>>)
    BY DEF IsFunction
  <2>2. QED
    BY <1>2, <2>1 DEF Sound, Denotes
<1>5. x.kind # "object" => Over(f, g) = g
  BY <1>0, <1>1, <1>4 DEF Over, IsFunction
<1>6. CASE old.kind = "object"
  <2>1. n = Merged(old.ref, x, h) /\ g = h[old.ref] /\ old.ref \in DOMAIN h
    BY <1>2, <1>6 DEF NewValue, Sound, Denotes
  <2> HIDE DEF f, g
  <2>2. n.value = Object(old.ref) /\ n.heap[old.ref] = Over(f, g)
    BY <1>1, <1>5, <2>1 DEF Merged
  <2> HIDE DEF n
  <2>3. QED
    BY <2>2, Kinds, JsonIs DEF n, f, g
<1>7. CASE old.kind # "object"
  <2> DEFINE e == Put(h, fresh, <<>>)
  <2>1. n = Merged(fresh, x, e) /\ g = <<>>
    BY <1>2, <1>7 DEF NewValue
  <2>2. /\ fresh \in DOMAIN e /\ e[fresh] = <<>>
        /\ x.kind = "object" => e[x.ref] = h[x.ref]
    BY <1>3 DEF Put
  <2> HIDE DEF e, f, g
  <2>3. n.value = Object(fresh) /\ n.heap[fresh] = Over(f, g)
    BY <1>1, <1>5, <2>1, <2>2 DEF Merged
  <2> HIDE DEF n
  <2>4. QED
    BY <2>3, Kinds, JsonIs DEF n, f, g
<1>8. QED
  BY <1>6, <1>7

\* Applying an operation means the same for the JSON of the document.
LEMMA ApplyMeaning ==
  ASSUME NEW values, NEW h, Sound(values, h), NEW op, IsOp(op), op.value \in values,
         op.op = "append" => Scalar(op.value),
         NEW doc, ValuesOf(doc) \subseteq values, OneKeyEach(doc),
         NEW fresh, fresh \notin DOMAIN h
  PROVE  LET result == ApplyOp(op, doc, h, fresh) IN
         JsonDoc(result.doc, result.heap) = Changed(JsonDoc(doc, h), op, Json(op.value, h))
<1> DEFINE result == ApplyOp(op, doc, h, fresh)
           key == op.key
           old == At(doc, key)
           oldJ == Json(old, h)
           j == Json(op.value, h)
           J == JsonDoc(doc, h)
           x == IF op.op \in {"max", "min"}
                THEN [op EXCEPT !.value = Num(UtilToFloat(@))] ELSE op
           more == values \cup {Null}
           n == NewValue(x, old, h, fresh)
           y == Json(n.value, n.heap)
<1>1. Touched(h, result.heap, old, fresh)
  BY ApplySound
<1>2. \A k \in DOMAIN doc : k # key => Json(doc[k], result.heap) = Json(doc[k], h)
  <2>1. \A k \in DOMAIN doc : k # key => doc[k] \in values /\ Distinct(old, doc[k])
    BY OldApart DEF ValuesOf
  <2> HIDE DEF old, result
  <2>2. QED
    BY <1>1, <2>1, JsonStays
<1>3. Sound(more, h) /\ old \in more /\ op.value \in more
  BY Kinds, ScalarSound, AtIs
<1>4. At(J, key) = oldJ
  BY EntryOfJson
<1>5. Number(oldJ) = UtilToFloat(old) /\ Number(j) = UtilToFloat(op.value)
  BY PartsOfJson
<1>6. CASE op.op = "remove"
  <2>1. result.doc = Without(doc, key) /\ result.heap = h
    BY <1>6 DEF ApplyOp, Keeps
  <2>2. Changed(J, op, j) = Without(J, key)
    BY <1>6 DEF Changed
  <2> HIDE DEF result
  <2>3. JsonDoc(result.doc, h) = Without(J, key)
    BY <2>1 DEF JsonDoc, Without
  <2>4. QED
    BY <2>1, <2>2, <2>3 DEF result
<1>7. CASE op.op # "remove" /\ Keeps(op, old)
  <2>1. result.doc = doc /\ result.heap = h
    BY <1>7 DEF ApplyOp
  <2>2. Changed(J, op, j) = J
    BY <1>4, <1>5, <1>7 DEF Changed, Keeps
  <2>3. QED
    BY <2>1, <2>2
<1>8. CASE op.op # "remove" /\ ~Keeps(op, old)
  <2>1. result.doc = Put(doc, key, n.value) /\ result.heap = n.heap
    BY <1>8 DEF ApplyOp
  <2>2. Changed(J, op, j) = Put(J, key, y)
    <3>1. CASE op.op = "increment"
      <4>1. n.value = Num(UtilToFloat(old) + UtilToFloat(op.value))
        BY <3>1 DEF NewValue
      <4>2. y = n.value
        BY <4>1, Kinds, JsonIs
      <4>3. QED
        BY <1>4, <1>5, <3>1, <4>1, <4>2 DEF Changed
    <3>2. CASE op.op = "append"
      <4>1. n = NewValue(op, old, h, fresh)
        BY <3>2
      <4>2. y = JArray(Append(Elements(oldJ), j))
        BY <1>3, <3>2, <4>1, AppendMeaning
      <4>3. QED
        BY <1>4, <3>2, <4>2 DEF Changed
    <3>3. CASE op.op = "merge"
      <4>1. n = NewValue(op, old, h, fresh)
        BY <3>3
      <4>2. y = JObject(Over(Fields(j), Fields(oldJ)))
        BY <1>3, <3>3, <4>1, MergeMeaning
      <4>3. QED
        BY <1>4, <3>3, <4>2 DEF Changed
    <3>4. CASE op.op \in {"max", "min"}
      <4>1. n.value = Num(UtilToFloat(op.value))
        BY <3>4 DEF NewValue, IsOp
      <4>2. y = n.value
        BY <4>1, Kinds, JsonIs
      <4>3. QED
        BY <1>4, <1>5, <1>8, <3>4, <4>1, <4>2 DEF Changed, Keeps
    <3>5. CASE op.op \notin {"increment", "append", "merge", "max", "min"}
      <4>1. n = [value |-> op.value, heap |-> h]
        BY <3>5 DEF NewValue
      <4>2. QED
        BY <1>8, <3>5, <4>1 DEF Changed
    <3>6. QED
      BY <3>1, <3>2, <3>3, <3>4, <3>5
  <2> HIDE DEF result, n, old, j, oldJ
  <2>3. JsonDoc(result.doc, result.heap) = Put(J, key, y)
    BY <1>2, <2>1 DEF JsonDoc, Put
  <2>4. QED
    BY <2>2, <2>3 DEF result, n, old, j, oldJ
<1>9. QED
  BY <1>6, <1>7, <1>8

-----------------------------------------------------------------------------
(***************************************************************************)
(* Conditions and values of an action.                                     *)
(***************************************************************************)

\* A value and a JSON value that no comparison tells apart.
Alike(v, j) == v.kind = j.kind /\ (Scalar(v) => j = v)

LEMMA AlikeCompare ==
  ASSUME NEW v, NEW j, Alike(v, j), NEW cmp, NEW w
  PROVE  Compare(v, cmp, w) <=> Compare(j, cmp, w)
<1>1. ToFloat(v) = ToFloat(j)
  BY DEF Alike, Scalar, ToFloat
<1>2. v = Null <=> j = Null
  BY Kinds DEF Alike, Scalar
<1>3. Eq(v, w) <=> Eq(j, w)
  BY <1>1, <1>2 DEF Eq
<1>4. QED
  BY <1>1, <1>3 DEF Compare

LEMMA LookupOfEvent ==
  ASSUME NEW p, p[1] = "event"
  PROVE  /\ Lookup(p) = Value(Event[p[2]], EventRef(p[2]))
         /\ \A doc : Found(doc, p) = Event[p[2]]
BY DEF Lookup, FromEvent, Found

\* A path into the document finds the JSON of what it finds in the Go map.
LEMMA LookupOfMetadata ==
  ASSUME RInv, NEW p, IsPath(p), p[1] # "event"
  PROVE  Json(Lookup(p), heap) = Found(JsonDoc(metaMap, heap), p)
<1> DEFINE q == Tail(p)
           v == At(metaMap, p[2])
           j == At(JsonDoc(metaMap, heap), p[2])
<1>1. q[1] = p[2] /\ (Len(q) > 1 <=> Len(p) > 2) /\ (Len(p) > 2 => q[2] = p[3])
  <2> DEFINE S == {p[i] : i \in DOMAIN p}
  <2>1. p \in Seq(S) /\ Len(p) >= 2
    BY DEF IsPath, IsSequence
  <2> HIDE DEF S
  <2>2. QED
    BY <2>1
<1>2. j = Json(v, heap)
  BY EntryOfJson
<1>3. Lookup(p) = IF Len(p) > 2 /\ v.kind = "object" THEN At(heap[v.ref], p[3]) ELSE v
  BY <1>1 DEF Lookup, GetByPath
<1>4. Found(JsonDoc(metaMap, heap), p) =
        IF Len(p) > 2 /\ j.kind = "object" THEN At(j.fields, p[3]) ELSE j
  BY DEF Found
<1>5. v \in Values \/ v = Null
  BY AtIs DEF Values
<1> HIDE DEF q, v, j
<1>6. CASE Len(p) > 2 /\ v.kind = "object"
  <2>1. j.kind = "object" /\ j.fields = heap[v.ref]
    BY <1>2, <1>6, JsonIs DEF JObject
  <2>2. Scalar(At(heap[v.ref], p[3]))
    BY <1>5, <1>6, Kinds DEF At, RInv, Sound, Denotes, Scalar
  <2>3. QED
    BY <1>3, <1>4, <1>6, <2>1, <2>2, JsonIs
<1>7. CASE ~(Len(p) > 2 /\ v.kind = "object")
  <2>1. j.kind = v.kind
    BY <1>2, JsonIs
  <2>2. QED
    BY <1>2, <1>3, <1>4, <1>7, <2>1
<1>8. QED
  BY <1>6, <1>7

LEMMA LookupAlike ==
  ASSUME RInv, NEW p, IsPath(p)
  PROVE  Alike(Lookup(p), Found(JsonDoc(metaMap, heap), p))
<1>1. CASE p[1] = "event"
  BY <1>1, LookupOfEvent, Kinds DEF Alike, Value, Scalar
<1>2. CASE p[1] # "event"
  BY <1>2, LookupOfMetadata, JsonIs DEF Alike
<1>3. QED
  BY <1>1, <1>2

\* A condition that compares no two strings means what EvaluateCondition does.
LEMMA ConditionMeaning ==
  ASSUME RInv, NEW c, IsPath(c.path), ~(Lookup(c.path).kind = "str" /\ c.rhs.kind = "str")
  PROVE  Compare(Lookup(c.path), c.cmp, c.rhs) <=> Meant(c, JsonDoc(metaMap, heap))
<1> DEFINE v == Lookup(c.path)
           j == Found(JsonDoc(metaMap, heap), c.path)
<1>1. Alike(v, j)
  BY LookupAlike
<1>2. Same(j, c.rhs) <=> Eq(j, c.rhs)
  BY <1>1 DEF Alike, Same
<1>3. Meant(c, JsonDoc(metaMap, heap)) <=> Compare(j, c.cmp, c.rhs)
  BY <1>2 DEF Meant, Compare
<1> HIDE DEF v, j
<1>4. QED
  BY <1>1, <1>3, AlikeCompare DEF v, j

\* Decoding a JSON value and encoding it again.
LEMMA DecodedMeaning ==
  ASSUME NEW j, IsJson(j), NEW r, NEW h, ~Scalar(j) => h[r] = Cell(j)
  PROVE  Json(Value(j, r), h) = j
<1>1. CASE Scalar(j)
  BY <1>1, JsonIs DEF Value, Scalar
<1>2. CASE j.kind = "object"
  <2>1. Value(j, r) = Object(r) /\ h[r] = j.fields /\ j = JObject(j.fields)
    BY <1>2 DEF Value, Cell, IsJson, Scalar
  <2>2. QED
    BY <2>1, Kinds, JsonIs
<1>3. CASE j.kind = "array"
  <2>1. /\ Value(j, r) = Slice(r, Len(j.elems)) /\ h[r] = Pad(j.elems)
        /\ j = JArray(j.elems) /\ IsSequence(j.elems)
    BY <1>3 DEF Value, Cell, IsJson, Scalar
  <2>2. Json(Value(j, r), h) = JArray(SubSeq(Pad(j.elems), 1, Len(j.elems)))
    BY <2>1, Kinds, JsonIs
  <2>3. SubSeq(Pad(j.elems), 1, Len(j.elems)) = j.elems
    BY <2>1, PrefixOfPad
  <2>4. QED
    BY <2>1, <2>2, <2>3
<1>4. QED
  BY <1>1, <1>2, <1>3 DEF Scalar

\* The value of an action, with what was decoded for it.
LEMMA ValueMeaning ==
  ASSUME RInv, NEW a, IsAction(a)
  PROVE  Json(ResolveValue(a), ResolvedHeap(a)) = Given(a, JsonDoc(metaMap, heap))
<1> DEFINE t == a.template
           h == ResolvedHeap(a)
<1>1. CASE a.source = "static"
  <2>1. ResolveValue(a) = t /\ Given(a, JsonDoc(metaMap, heap)) = t /\ Scalar(t)
    BY <1>1 DEF ResolveValue, Given, IsAction
  <2>2. QED
    BY <2>1, JsonIs
<1>2. CASE a.source = "event"
  <2> DEFINE j == Event[t[2]]
             r == EventRef(t[2])
  <2>1. t[1] = "event" /\ t[2] \in DOMAIN Event /\ IsJson(j)
    BY <1>2, RulesTyped DEF IsAction, IsPath
  <2>2. ResolveValue(a) = Value(j, r) /\ Given(a, JsonDoc(metaMap, heap)) = j
    BY <1>2, <2>1, LookupOfEvent DEF ResolveValue, Given
  <2>3. ~Scalar(j) => h[r] = Cell(j)
    <3>1. r \notin DOMAIN heap
      BY Free DEF RInv, EventRef
    <3>2. QED
      BY <1>2, <3>1 DEF ResolvedHeap, Over
  <2>4. QED
    BY <2>1, <2>2, <2>3, DecodedMeaning
<1>3. CASE a.source \notin {"static", "event"}
  <2>1. IsPath(t) /\ t[1] # "event"
    BY <1>3 DEF IsAction
  <2>2. /\ ResolveValue(a) = Lookup(t) /\ h = heap
        /\ Given(a, JsonDoc(metaMap, heap)) = Found(JsonDoc(metaMap, heap), t)
    BY <1>3 DEF ResolveValue, ResolvedHeap, Given
  <2>3. QED
    BY <2>1, <2>2, LookupOfMetadata
<1>4. QED
  BY <1>1, <1>2, <1>3

-----------------------------------------------------------------------------
(***************************************************************************)
(* A step of EvaluateRules.                                                *)
(***************************************************************************)

\* Decoding a value of the event leaves the document as it is.
LEMMA DocumentStays ==
  ASSUME RInv, NEW a, IsAction(a)
  PROVE  JsonDoc(metaMap, ResolvedHeap(a)) = JsonDoc(metaMap, heap)
<1> DEFINE h == ResolvedHeap(a)
<1>1. Sound(Values, heap) /\ \A r \in DOMAIN heap : h[r] = heap[r]
  BY ResolveSound DEF RInv
<1>2. \A k \in DOMAIN metaMap : metaMap[k] \in Values
  BY DEF Values, ValuesOf
<1> HIDE DEF h
<1>3. ASSUME NEW k \in DOMAIN metaMap
      PROVE  Json(metaMap[k], h) = Json(metaMap[k], heap)
  <2>1. ~Scalar(metaMap[k]) => h[metaMap[k].ref] = heap[metaMap[k].ref]
    BY <1>1, <1>2, InHeap
  <2>2. QED
    BY <2>1 DEF Json, Scalar
<1>4. QED
  BY <1>3 DEF JsonDoc, h

LEMMA EvaluateMeaning ==
  ASSUME RInv, Apart, Shallow, NoStrings, NEW a \in left, Evaluate(a)
  PROVE  JsonDoc(metaMap', heap') = Step(JsonDoc(metaMap, heap), a)
<1> DEFINE J == JsonDoc(metaMap, heap)
<1>0. IsAction(a)
  BY DEF RInv, Control
<1>1. EvaluateCondition(a) <=> \A c \in a.cond : Meant(c, J)
  <2>1. \A c \in a.cond : Compare(Lookup(c.path), c.cmp, c.rhs) <=> Meant(c, J)
    BY <1>0, ConditionMeaning DEF NoStrings, IsAction
  <2>2. QED
    BY <2>1 DEF EvaluateCondition
<1>2. CASE ~EvaluateCondition(a)
  <2>1. UNCHANGED <<metaMap, heap>>
    BY <1>2 DEF Evaluate
  <2>2. QED
    BY <1>1, <1>2, <2>1 DEF Step
<1>3. CASE EvaluateCondition(a)
  <2> DEFINE op == [key |-> a.key, op |-> a.op, value |-> ResolveValue(a)]
             h == ResolvedHeap(a)
             fresh == <<"new", Len(evaluated)>>
             values == Values \cup {op.value}
             result == ApplyOp(op, metaMap, h, fresh)
  <2>1. metaMap' = result.doc /\ heap' = result.heap
    BY <1>3 DEF Evaluate, AppliedToMap
  <2>2. Sound(values, h) /\ fresh \notin DOMAIN h
    <3>1. fresh \notin DOMAIN heap /\ fresh # <<"event", Len(evaluated)>>
      BY Free DEF RInv
    <3>2. Sound(values, h) /\ DOMAIN h \subseteq DOMAIN heap \cup {<<"event", Len(evaluated)>>}
      BY <1>0, ResolveSound
    <3> HIDE DEF h, fresh, values
    <3>3. QED
      BY <3>1, <3>2
  <2>3. IsOp(op) /\ op.value \in values /\ ValuesOf(metaMap) \subseteq values
    BY DEF IsOp, Values
  <2>4. op.op = "append" => Scalar(op.value)
    BY DEF Shallow
  <2>5. Json(op.value, h) = Given(a, J)
    BY <1>0, ValueMeaning
  <2>6. JsonDoc(metaMap, h) = J
    BY <1>0, DocumentStays
  <2>7. Changed(J, op, Given(a, J)) = Changed(J, a, Given(a, J))
    BY DEF Changed
  <2> HIDE DEF op, h, fresh, values, J
  <2>8. JsonDoc(result.doc, result.heap) = Changed(J, op, Given(a, J))
    BY <2>2, <2>3, <2>4, <2>5, <2>6, ApplyMeaning DEF Apart
  <2>9. Step(J, a) = Changed(J, a, Given(a, J))
    BY <1>1, <1>3 DEF Step
  <2>10. QED
    BY <2>1, <2>7, <2>8, <2>9 DEF J
<1>4. QED
  BY <1>2, <1>3

LEMMA MeaningStep ==
  ASSUME RInv, Apart, Shallow, NoStrings, [Next]_vars
  PROVE  [StepIsMeant]_vars
<1>1. CASE \E a \in left : Evaluate(a)
  <2>1. PICK a \in left : Evaluate(a)
    BY <1>1
  <2>2. IsSequence(evaluated) /\ evaluated' = Append(evaluated, a)
    BY <2>1 DEF RInv, Control, Evaluate
  <2>3. Last(evaluated') = a
    BY <2>2, AppendIs, AppendElements DEF Last
  <2>4. QED
    BY <2>1, <2>3, EvaluateMeaning DEF StepIsMeant
<1>2. CASE UNCHANGED evaluated
  BY <1>2 DEF StepIsMeant
<1>3. QED
  BY <1>1, <1>2 DEF Next, Find, BeginRule, Evaluated, Compute, Computed, vars

\* Each action evaluated does to the document what it means for it, whatever
\* the heap shares: it sees the effects of the actions before it, and leaves
\* nothing else behind.
THEOREM EvaluationMeant == Spec /\ []Shallow /\ []NoStrings => EvaluationIsMeaning
<1>1. Init => RInv /\ Apart
  BY InitSound, InitApart
<1>2. RInv /\ Apart /\ Shallow /\ NoStrings /\ [Next]_vars => RInv' /\ Apart' /\ [StepIsMeant]_vars
  BY RInvStep, ApartStep, MeaningStep DEF Shallow
<1>3. QED
  BY <1>1, <1>2, PTL DEF Spec, EvaluationIsMeaning
=============================================================================
