----------------------------- MODULE JsonProofs ------------------------------
(***************************************************************************)
(* Proofs about Json: what a lookup finds in a document after an edit, for *)
(* any document and any paths.                                             *)
(***************************************************************************)
EXTENDS Json, WellFoundedInduction, TLAPS

\* A set of numbers has a least one: the library's well-founded order, without
\* its induction theorem, which takes an operator.
LEMMA Least ==
    ASSUME NEW T, T \subseteq Nat, T # {}
    PROVE  \E n \in T : \A m \in T : n <= m
<1>1. PICK n \in T : \A m \in T : ~(<<m, n>> \in OpToRel(<, Nat))
  BY NatLessThanWellFounded, WFMin, Zenon
<1>2. \A m \in T : <<m, n>> \in OpToRel(<, Nat) <=> m < n
  BY DEF OpToRel
<1>3. n \in T /\ \A m \in T : ~(m < n)
  BY Zenon, <1>1, <1>2
<1> HIDE <1>1, <1>2
<1> QED
  BY <1>3

\* Induction from a to b, for a set in the place of a predicate.
LEMMA Induction ==
    ASSUME NEW a \in Nat, NEW b \in Nat, NEW S,
           a \in S, \A n \in a..(b - 1) : n \in S => n + 1 \in S
    PROVE  \A n \in a..b : n \in S
<1> DEFINE T == {n \in a..b : n \notin S}
<1> SUFFICES ASSUME T # {} PROVE FALSE
  OBVIOUS
<1>0. T \subseteq Nat
  OBVIOUS
<1>1. PICK n \in T : \A m \in T : n <= m
  <2> HIDE DEF T
  <2> QED
    BY Least, Zenon, <1>0
<1>2. n # a /\ n \in a..b /\ n - 1 \in a..(b - 1)
  BY <1>1
<1>3. n - 1 \in S
  BY <1>1, <1>2
<1> QED
  BY <1>1, <1>2, <1>3

-----------------------------------------------------------------------------
\* The functions of the calls satisfy their recursive equations: for each, a
\* function on a part of its domain can be extended by one call.
LEMMA ObjectsEquation ==
    ASSUME NEW o, NEW s, Len(s) \in Nat
    PROVE  Objects(o, s) = [i \in 0..Len(s) |->
               IF i = 0 THEN Ok(o)
               ELSE IF Objects(o, s)[i - 1].err THEN Fail
               ELSE getObjectIndex(Objects(o, s)[i - 1].val, s[i])]
<1> DEFINE Call(g, i) == IF i = 0 THEN Ok(o)
                         ELSE IF g[i - 1].err THEN Fail
                         ELSE getObjectIndex(g[i - 1].val, s[i])
           Upto(g, n) == g = [i \in 0..n |-> Call(g, i)]
           S == {n \in Nat : \E g : Upto(g, n)}
           P(g) == g = [i \in 0..Len(s) |->
                          IF i = 0 THEN Ok(o)
                          ELSE IF g[i - 1].err THEN Fail
                          ELSE getObjectIndex(g[i - 1].val, s[i])]
<1>1. \A g, h : \A i \in Nat : (i = 0 \/ g[i - 1] = h[i - 1]) => Call(g, i) = Call(h, i)
  BY Zenon
<1>2. \A g : P(g) <=> Upto(g, Len(s))
  OBVIOUS
<1>3. Objects(o, s) = CHOOSE g : P(g)
  BY Zenon DEF Objects
<1> HIDE DEF Call
<1>4. 0 \in S
  <2> DEFINE g == [i \in 0..0 |-> Call(<<>>, i)]
  <2>1. \A i \in 0..0 : Call(<<>>, i) = Call(g, i)
    BY <1>1
  <2>2. g = [i \in 0..0 |-> Call(g, i)]
    BY <2>1
  <2> QED
    BY <2>2
<1>5. ASSUME NEW n \in Nat, n \in S PROVE n + 1 \in S
  <2>1. PICK g : Upto(g, n)
    BY Zenon, <1>5
  <2> DEFINE h == [i \in 0..(n + 1) |-> Call(g, i)]
  <2>2. \A i \in 0..(n + 1) : i = 0 \/ (h[i - 1] = g[i - 1])
    BY <2>1
  <2>3. \A i \in 0..(n + 1) : Call(g, i) = Call(h, i)
    <3> HIDE DEF h
    <3> QED
      BY <1>1, <2>2
  <2>4. h = [i \in 0..(n + 1) |-> Call(h, i)]
    <3>1. h = [i \in 0..(n + 1) |-> Call(g, i)]
      OBVIOUS
    <3> HIDE DEF h
    <3> QED
      BY Zenon, <2>3, <3>1
  <2>5. \E f : Upto(f, n + 1)
    <3> HIDE DEF h
    <3> QED
      BY Zenon, <2>4
  <2> QED
    BY <2>5
<1>6. \E g : P(g)
  <2> HIDE DEF Upto, P
  <2>1. \A n \in 0..(Len(s) - 1) : n \in S => n + 1 \in S
    <3> HIDE DEF S
    <3> QED
      BY <1>5
  <2>2. \A n \in 0..Len(s) : n \in S
    <3> HIDE DEF S
    <3> QED
      BY Zenon, <1>4, <2>1, Induction
  <2> QED
    BY <1>2, <2>2
<1>7. P(Objects(o, s))
  <2> HIDE DEF P
  <2> QED
    BY Zenon, <1>3, <1>6
<1> QED
  BY Zenon, <1>7

LEMMA SetObjectsEquation ==
    ASSUME NEW o, NEW s, Len(s) \in Nat \ {0}
    PROVE  SetObjects(o, s) = [i \in 0..(Len(s) - 1) |->
               IF i = 0 THEN o
               ELSE LET child == Member(AsMap(SetObjects(o, s)[i - 1]), s[i])
                    IN  IF child = Null THEN EmptyMap ELSE child]
<1> DEFINE k == Len(s) - 1
           Call(g, i) == IF i = 0 THEN o
                         ELSE LET child == Member(AsMap(g[i - 1]), s[i])
                              IN  IF child = Null THEN EmptyMap ELSE child
           Upto(g, n) == g = [i \in 0..n |-> Call(g, i)]
           S == {n \in Nat : \E g : Upto(g, n)}
           P(g) == g = [i \in 0..(Len(s) - 1) |->
                          IF i = 0 THEN o
                          ELSE LET child == Member(AsMap(g[i - 1]), s[i])
                               IN  IF child = Null THEN EmptyMap ELSE child]
<1>0. k \in Nat
  OBVIOUS
<1>1. \A g, h : \A i \in Nat : (i = 0 \/ g[i - 1] = h[i - 1]) => Call(g, i) = Call(h, i)
  BY Zenon
<1>2. \A g : P(g) <=> Upto(g, k)
  OBVIOUS
<1>3. SetObjects(o, s) = CHOOSE g : P(g)
  BY Zenon DEF SetObjects
<1> HIDE DEF Call, k
<1>4. 0 \in S
  <2> DEFINE g == [i \in 0..0 |-> Call(<<>>, i)]
  <2>1. \A i \in 0..0 : Call(<<>>, i) = Call(g, i)
    BY <1>1
  <2>2. g = [i \in 0..0 |-> Call(g, i)]
    BY <2>1
  <2> QED
    BY <2>2
<1>5. ASSUME NEW n \in Nat, n \in S PROVE n + 1 \in S
  <2>1. PICK g : Upto(g, n)
    BY Zenon, <1>5
  <2> DEFINE h == [i \in 0..(n + 1) |-> Call(g, i)]
  <2>2. \A i \in 0..(n + 1) : i = 0 \/ (h[i - 1] = g[i - 1])
    BY <2>1
  <2>3. \A i \in 0..(n + 1) : Call(g, i) = Call(h, i)
    <3> HIDE DEF h
    <3> QED
      BY <1>1, <2>2
  <2>4. h = [i \in 0..(n + 1) |-> Call(h, i)]
    <3>1. h = [i \in 0..(n + 1) |-> Call(g, i)]
      OBVIOUS
    <3> HIDE DEF h
    <3> QED
      BY Zenon, <2>3, <3>1
  <2>5. \E f : Upto(f, n + 1)
    <3> HIDE DEF h
    <3> QED
      BY Zenon, <2>4
  <2> QED
    BY <2>5
<1>6. \E g : P(g)
  <2> HIDE DEF Upto, P
  <2>1. \A n \in 0..(k - 1) : n \in S => n + 1 \in S
    <3> HIDE DEF S
    <3> QED
      BY <1>0, <1>5
  <2>2. \A n \in 0..k : n \in S
    <3> HIDE DEF S
    <3> QED
      BY Zenon, <1>0, <1>4, <2>1, Induction
  <2> QED
    BY <1>0, <1>2, <2>2
<1>7. P(SetObjects(o, s))
  <2> HIDE DEF P
  <2> QED
    BY Zenon, <1>3, <1>6
<1> QED
  BY Zenon, <1>7

LEMMA ResultsEquation ==
    ASSUME NEW maps, NEW s, NEW last, Len(s) \in Nat \ {0}
    PROVE  Results(maps, s, last) = [i \in 0..(Len(s) - 1) |->
               IF i = Len(s) - 1 THEN last
               ELSE With(maps[i], s[i + 1], Results(maps, s, last)[i + 1])]
<1> DEFINE k == Len(s) - 1
           Call(g, i) == IF i = k THEN last ELSE With(maps[i], s[i + 1], g[i + 1])
           From(g, n) == g = [i \in (k - n)..k |-> Call(g, i)]
           S == {n \in Nat : \E g : From(g, n)}
           P(g) == g = [i \in 0..(Len(s) - 1) |->
                          IF i = Len(s) - 1 THEN last ELSE With(maps[i], s[i + 1], g[i + 1])]
<1>0. k \in Nat
  OBVIOUS
<1>1. \A g, h : \A i \in Int : (i = k \/ g[i + 1] = h[i + 1]) => Call(g, i) = Call(h, i)
  BY Zenon
<1>2. \A g : P(g) <=> From(g, k)
  OBVIOUS
<1>3. Results(maps, s, last) = CHOOSE g : P(g)
  BY Zenon DEF Results
<1> HIDE DEF Call, k
<1>4. 0 \in S
  <2> DEFINE g == [i \in (k - 0)..k |-> Call(<<>>, i)]
  <2>1. \A i \in (k - 0)..k : Call(<<>>, i) = Call(g, i)
    BY <1>0, <1>1
  <2>2. g = [i \in (k - 0)..k |-> Call(g, i)]
    BY <2>1
  <2> QED
    BY Zenon, <2>2
<1>5. ASSUME NEW n \in Nat, n \in S PROVE n + 1 \in S
  <2>1. PICK g : From(g, n)
    BY Zenon, <1>5
  <2> DEFINE h == [i \in (k - (n + 1))..k |-> Call(g, i)]
  <2>2. \A i \in (k - (n + 1))..k : i = k \/ (h[i + 1] = g[i + 1])
    BY <1>0, <2>1
  <2>3. \A i \in (k - (n + 1))..k : Call(g, i) = Call(h, i)
    <3> HIDE DEF h
    <3> QED
      BY <1>0, <1>1, <2>2
  <2>4. h = [i \in (k - (n + 1))..k |-> Call(h, i)]
    <3>1. h = [i \in (k - (n + 1))..k |-> Call(g, i)]
      OBVIOUS
    <3> HIDE DEF h
    <3> QED
      BY Zenon, <2>3, <3>1
  <2>5. \E f : From(f, n + 1)
    <3> HIDE DEF h
    <3> QED
      BY Zenon, <2>4
  <2> QED
    BY <2>5
<1>6. \E g : P(g)
  <2> HIDE DEF From, P
  <2>1. \A n \in 0..(k - 1) : n \in S => n + 1 \in S
    <3> HIDE DEF S
    <3> QED
      BY <1>0, <1>5
  <2>2. \A n \in 0..k : n \in S
    <3> HIDE DEF S
    <3> QED
      BY <1>0, <1>4, <2>1, Induction
  <2> QED
    BY <1>0, <1>2, <2>2
<1>7. P(Results(maps, s, last))
  <2> HIDE DEF P
  <2> QED
    BY Zenon, <1>3, <1>6
<1> QED
  BY Zenon, <1>7


\* One call at a time.
LEMMA ObjectsCalls ==
    ASSUME NEW o, NEW s, Len(s) \in Nat
    PROVE  /\ Objects(o, s)[0] = Ok(o)
           /\ \A i \in 1..Len(s) : Objects(o, s)[i] =
                 IF Objects(o, s)[i - 1].err THEN Fail
                 ELSE getObjectIndex(Objects(o, s)[i - 1].val, s[i])
<1> DEFINE at == Objects(o, s)
<1>1. at = [i \in 0..Len(s) |->
              IF i = 0 THEN Ok(o)
              ELSE IF at[i - 1].err THEN Fail ELSE getObjectIndex(at[i - 1].val, s[i])]
  BY ObjectsEquation, Zenon
<1> HIDE DEF at
<1>2. /\ at[0] = Ok(o)
      /\ \A i \in 1..Len(s) : at[i] = IF at[i - 1].err THEN Fail ELSE getObjectIndex(at[i - 1].val, s[i])
  BY <1>1
<1> QED
  BY Zenon, <1>2 DEF at

LEMMA SetObjectsCalls ==
    ASSUME NEW o, NEW s, Len(s) \in Nat \ {0}
    PROVE  /\ DOMAIN SetObjects(o, s) = 0..(Len(s) - 1)
           /\ SetObjects(o, s)[0] = o
           /\ \A i \in 1..(Len(s) - 1) :
                 LET child == Member(AsMap(SetObjects(o, s)[i - 1]), s[i])
                 IN  SetObjects(o, s)[i] = IF child = Null THEN EmptyMap ELSE child
<1> DEFINE at == SetObjects(o, s)
<1>1. at = [i \in 0..(Len(s) - 1) |->
              IF i = 0 THEN o
              ELSE LET child == Member(AsMap(at[i - 1]), s[i])
                   IN  IF child = Null THEN EmptyMap ELSE child]
  BY SetObjectsEquation
<1> HIDE DEF at
<1>2. /\ DOMAIN at = 0..(Len(s) - 1)
      /\ at[0] = o
      /\ \A i \in 1..(Len(s) - 1) :
            LET child == Member(AsMap(at[i - 1]), s[i])
            IN  at[i] = IF child = Null THEN EmptyMap ELSE child
  BY <1>1
<1> QED
  BY <1>2 DEF at

LEMMA ResultsCalls ==
    ASSUME NEW maps, NEW s, NEW last, Len(s) \in Nat \ {0}
    PROVE  /\ Results(maps, s, last)[Len(s) - 1] = last
           /\ \A i \in 0..(Len(s) - 2) :
                 Results(maps, s, last)[i] = With(maps[i], s[i + 1], Results(maps, s, last)[i + 1])
<1> DEFINE result == Results(maps, s, last)
<1>1. result = [i \in 0..(Len(s) - 1) |->
                  IF i = Len(s) - 1 THEN last ELSE With(maps[i], s[i + 1], result[i + 1])]
  BY ResultsEquation
<1> HIDE DEF result
<1>2. /\ result[Len(s) - 1] = last
      /\ \A i \in 0..(Len(s) - 2) : result[i] = With(maps[i], s[i + 1], result[i + 1])
  BY <1>1
<1> QED
  BY <1>2 DEF result

-----------------------------------------------------------------------------
\* What one index of a changed map or array gives.
LEMMA MapIndex ==
    ASSUME NEW o, NEW idx, NEW value
    PROVE  /\ getObjectIndex(With(o, idx, value), idx) = Ok(value)
           /\ getObjectIndex(Without(o, idx), idx) = Ok(Null)
           /\ \A other : other # idx =>
                 /\ getObjectIndex(With(o, idx, value), other) = Ok(Member(o, other))
                 /\ getObjectIndex(Without(o, idx), other) = Ok(Member(o, other))
  BY DEF getObjectIndex, With, Without, Member, Obj

LEMMA SetIndex ==
    ASSUME NEW o, NEW idx, NEW value, ~setObjectIndex(o, idx, value).err
    PROVE  getObjectIndex(setObjectIndex(o, idx, value).val, idx) = Ok(value)
<1>1. CASE o.t = "obj"
  <2>1. setObjectIndex(o, idx, value).val = With(o, idx, value)
    BY <1>1 DEF setObjectIndex, Ok
  <2> QED
    BY <2>1, MapIndex
<1>2. CASE o.t = "arr"
  <2>1. InRange(o, idx) /\ setObjectIndex(o, idx, value).val = Arr([o.e EXCEPT ![Atoi[idx]] = value])
    BY <1>2 DEF setObjectIndex, setArrayIndex, Ok, Fail
  <2> QED
    BY <2>1 DEF getObjectIndex, getArrayIndex, InRange, Arr
<1>3. CASE o.t # "obj" /\ o.t # "arr"
  BY <1>3 DEF setObjectIndex, Fail
<1> QED
  BY <1>1, <1>2, <1>3

LEMMA SetOtherElement ==
    ASSUME NEW o, NEW idx, NEW value, NEW other, o.t = "arr",
           ~setObjectIndex(o, idx, value).err,
           other \in DOMAIN Atoi => idx \in DOMAIN Atoi /\ Atoi[other] # Atoi[idx]
    PROVE  getObjectIndex(setObjectIndex(o, idx, value).val, other) = getObjectIndex(o, other)
<1>1. InRange(o, idx) /\ setObjectIndex(o, idx, value).val = Arr([o.e EXCEPT ![Atoi[idx]] = value])
  BY DEF setObjectIndex, setArrayIndex, Ok, Fail
<1> QED
  BY <1>1 DEF getObjectIndex, getArrayIndex, InRange, Arr

\* A call returns an object, or the error with no object.
LEMMA IndexResults ==
    ASSUME NEW o, NEW idx
    PROVE  getObjectIndex(o, idx) = Fail \/ \E x : getObjectIndex(o, idx) = Ok(x)
  BY DEF getObjectIndex, getArrayIndex


-----------------------------------------------------------------------------
\* A lookup that has failed stays failed, one that meets null fails at the next
\* key.
LEMMA LookupFails ==
    ASSUME NEW o, NEW s, Len(s) \in Nat, NEW n \in 0..(Len(s) - 1),
           Objects(o, s)[n].err \/ Objects(o, s)[n].val = Null
    PROVE  getSettingsFromJSON(o, s) = Fail
<1> DEFINE at == Objects(o, s)
           S == {i \in Nat : at[i] = Fail}
<1>1. \A i \in 1..Len(s) : at[i] = IF at[i - 1].err THEN Fail ELSE getObjectIndex(at[i - 1].val, s[i])
  BY ObjectsCalls, Zenon
<1>2. at[n].err \/ at[n].val = Null
  OBVIOUS
<1> HIDE DEF at
<1>3. at[n + 1] = Fail
  <2>1. getObjectIndex(Null, s[n + 1]) = Fail
    BY DEF getObjectIndex, Null
  <2>2. at[n + 1] = IF at[n].err THEN Fail ELSE getObjectIndex(at[n].val, s[n + 1])
    BY <1>1
  <2> QED
    BY <1>2, <2>1, <2>2
<1>4. ASSUME NEW i \in (n + 1)..(Len(s) - 1), i \in S PROVE i + 1 \in S
  <2>1. at[i].err /\ i + 1 \in Nat
    BY <1>4 DEF Fail
  <2>2. at[i + 1] = IF at[i].err THEN Fail ELSE getObjectIndex(at[i].val, s[i + 1])
    BY <1>1
  <2> QED
    BY <2>1, <2>2
<1>5. \A i \in (n + 1)..Len(s) : i \in S
  <2>1. n + 1 \in S /\ n + 1 \in Nat
    BY <1>3
  <2> HIDE DEF S
  <2> QED
    BY Zenon, <1>4, <2>1, Induction
<1>6. at[Len(s)] = Fail
  BY <1>5
<1> QED
  BY <1>6 DEF at, getSettingsFromJSON

\* Two lookups that meet the same object with the same keys left find the same.
LEMMA SameFrom ==
    ASSUME NEW o, NEW new, NEW s, Len(s) \in Nat, NEW n \in 0..Len(s),
           Objects(o, s)[n] = Objects(new, s)[n]
    PROVE  getSettingsFromJSON(o, s) = getSettingsFromJSON(new, s)
<1> DEFINE at == Objects(o, s)
           is == Objects(new, s)
           S == {i \in Nat : at[i] = is[i]}
<1>1. /\ \A i \in 1..Len(s) : at[i] = IF at[i - 1].err THEN Fail ELSE getObjectIndex(at[i - 1].val, s[i])
      /\ \A i \in 1..Len(s) : is[i] = IF is[i - 1].err THEN Fail ELSE getObjectIndex(is[i - 1].val, s[i])
  BY ObjectsCalls, Zenon
<1>2. at[n] = is[n]
  OBVIOUS
<1> HIDE DEF at, is
<1>3. \A i \in n..(Len(s) - 1) : i \in S => i + 1 \in S
  BY <1>1
<1>4. \A i \in n..Len(s) : i \in S
  <2>1. n \in S /\ n \in Nat
    BY <1>2
  <2> HIDE DEF S
  <2> QED
    BY Zenon, <1>3, <2>1, Induction
<1>5. at[Len(s)] = is[Len(s)]
  BY <1>4
<1> QED
  BY <1>5 DEF at, is, getSettingsFromJSON

\* Two paths meet the same objects as long as their keys are the same.
LEMMA SamePrefix ==
    ASSUME NEW o, NEW p, NEW q, Len(p) \in Nat, Len(q) \in Nat,
           NEW n \in Nat, n <= Len(p), n <= Len(q), \A i \in 1..n : p[i] = q[i]
    PROVE  \A i \in 0..n : Objects(o, p)[i] = Objects(o, q)[i]
<1> DEFINE at == Objects(o, p)
           is == Objects(o, q)
           S == {i \in Nat : at[i] = is[i]}
<1>1. /\ \A i \in 1..Len(p) : at[i] = IF at[i - 1].err THEN Fail ELSE getObjectIndex(at[i - 1].val, p[i])
      /\ \A i \in 1..Len(q) : is[i] = IF is[i - 1].err THEN Fail ELSE getObjectIndex(is[i - 1].val, q[i])
  BY ObjectsCalls, Zenon
<1>2. at[0] = is[0]
  BY ObjectsCalls
<1> HIDE DEF at, is
<1>3. \A i \in 0..(n - 1) : i \in S => i + 1 \in S
  BY <1>1
<1>4. \A i \in 0..n : i \in S
  <2>1. 0 \in S
    BY <1>2
  <2> HIDE DEF S
  <2> QED
    BY Zenon, <1>3, <2>1, Induction
<1>5. \A i \in 0..n : at[i] = is[i]
  BY <1>4
<1> QED
  BY <1>5 DEF at, is

\* A lookup in the document that the calls return meets their results.
LEMMA ResultsFound ==
    ASSUME NEW maps, NEW s, NEW last, Len(s) \in Nat \ {0}
    PROVE  \A i \in 0..(Len(s) - 1) :
              Objects(Results(maps, s, last)[0], s)[i] = Ok(Results(maps, s, last)[i])
<1> DEFINE result == Results(maps, s, last)
           at == Objects(result[0], s)
           S == {i \in Nat : at[i] = Ok(result[i])}
<1>1. \A i \in 0..(Len(s) - 2) : result[i] = With(maps[i], s[i + 1], result[i + 1])
  BY ResultsCalls
<1>2. /\ at[0] = Ok(result[0])
      /\ \A i \in 1..Len(s) : at[i] = IF at[i - 1].err THEN Fail ELSE getObjectIndex(at[i - 1].val, s[i])
  <2> HIDE DEF result
  <2> QED
    BY ObjectsCalls
<1> HIDE DEF at, result
<1>3. ASSUME NEW i \in 0..(Len(s) - 2), i \in S PROVE i + 1 \in S
  <2>1. at[i + 1] = getObjectIndex(result[i], s[i + 1])
    BY <1>2, <1>3 DEF Ok
  <2>2. getObjectIndex(With(maps[i], s[i + 1], result[i + 1]), s[i + 1]) = Ok(result[i + 1])
    BY MapIndex
  <2>3. at[i + 1] = Ok(result[i + 1])
    BY <1>1, <2>1, <2>2
  <2> QED
    BY <2>3
<1>4. \A i \in 0..(Len(s) - 1) : i \in S
  <2>1. 0 \in S
    BY <1>2
  <2>2. Len(s) - 1 \in Nat /\ \A i \in 0..((Len(s) - 1) - 1) : i \in S => i + 1 \in S
    <3> HIDE DEF S
    <3> QED
      BY <1>3
  <2> DEFINE k == Len(s) - 1
  <2> HIDE DEF S
  <2>3. \A i \in 0..k : i \in S
    <3>1. k \in Nat /\ \A i \in 0..(k - 1) : i \in S => i + 1 \in S
      BY <2>2
    <3> HIDE DEF k
    <3> QED
      BY Zenon, <2>1, <3>1, Induction
  <2> QED
    BY <2>3
<1>5. \A i \in 0..(Len(s) - 1) : at[i] = Ok(result[i])
  BY <1>4
<1> QED
  BY Zenon, <1>5 DEF at, result


\* setSettingsInJSON: the value is found at its path.
THEOREM SetFound ==
    ASSUME NEW d, NEW p, Len(p) \in Nat, p = <<>> <=> Len(p) = 0, NEW value,
           ~setSettingsInJSON(d, p, value).err
    PROVE  getSettingsFromJSON(setSettingsInJSON(d, p, value).val, p) = Ok(value)
<1>1. CASE p = <<>>
  <2>1. setSettingsInJSON(d, p, value).val = value
    BY <1>1 DEF setSettingsInJSON, Ok
  <2>2. Objects(value, p)[0] = Ok(value)
    BY ObjectsCalls
  <2> QED
    BY <1>1, <2>1, <2>2 DEF getSettingsFromJSON
<1>2. CASE p # <<>>
  <2> DEFINE at == SetObjects(d, p)
             last == setObjectIndex(at[Len(p) - 1], p[Len(p)], value)
             result == Results([i \in DOMAIN at |-> AsMap(at[i])], p, last.val)
  <2>0. Len(p) \in Nat \ {0}
    BY Zenon, <1>2
  <2>1. ~last.err /\ setSettingsInJSON(d, p, value).val = result[0]
    BY <1>2 DEF setSettingsInJSON, Ok, Fail
  <2>2. getObjectIndex(last.val, p[Len(p)]) = Ok(value)
    BY <2>1, SetIndex
  <2>3. Objects(result[0], p)[Len(p) - 1] = Ok(result[Len(p) - 1]) /\ result[Len(p) - 1] = last.val
    <3> DEFINE maps == [i \in DOMAIN at |-> AsMap(at[i])]
               v == last.val
    <3> HIDE DEF maps, v
    <3>1. /\ \A i \in 0..(Len(p) - 1) : Objects(Results(maps, p, v)[0], p)[i] = Ok(Results(maps, p, v)[i])
          /\ Results(maps, p, v)[Len(p) - 1] = v
      BY <2>0, ResultsFound, ResultsCalls
    <3>2. Objects(Results(maps, p, v)[0], p)[Len(p) - 1] = Ok(Results(maps, p, v)[Len(p) - 1])
      BY <2>0, <3>1
    <3> QED
      BY <3>1, <3>2 DEF maps, v
  <2> HIDE DEF result, last
  <2>4. Objects(result[0], p)[Len(p)] =
           IF Objects(result[0], p)[Len(p) - 1].err THEN Fail
           ELSE getObjectIndex(Objects(result[0], p)[Len(p) - 1].val, p[Len(p)])
    BY <2>0, ObjectsCalls
  <2>5. Objects(result[0], p)[Len(p)] = Ok(value)
    BY <2>2, <2>3, <2>4 DEF Ok
  <2> QED
    BY <2>1, <2>5 DEF getSettingsFromJSON
<1> QED
  BY <1>1, <1>2

\* TrimSettingsFile: nothing is found at the path.
THEOREM TrimFound ==
    ASSUME NEW d, NEW p, Len(p) \in Nat \ {0}, p # <<>>, ~TrimInJSON(d, p).err
    PROVE  LET found == getSettingsFromJSON(TrimInJSON(d, p).val, p) IN found.err \/ found.val = Null
<1> DEFINE at == Objects(d, p)
           maps == [i \in 0..(Len(p) - 1) |-> at[i].val]
           last == Without(maps[Len(p) - 1], p[Len(p)])
           result == Results(maps, p, last)
           MapsBelow(n) == \A i \in 1..(n - 1) : IsMap(at[i].val)
           Early == \E n \in 1..(Len(p) - 1) : MapsBelow(n) /\ at[n].val = Null
<1>0. TrimInJSON(d, p) = IF Early THEN Ok(d) ELSE IF ~MapsBelow(Len(p)) THEN Fail ELSE Ok(result[0])
  BY DEF TrimInJSON
<1>1. CASE Early
  <2>1. TrimInJSON(d, p).val = d
    <3> HIDE DEF Early, MapsBelow, result
    <3> QED
      BY <1>0, <1>1 DEF Ok
  <2>2. PICK n \in 1..(Len(p) - 1) : Objects(d, p)[n].val = Null
    BY <1>1
  <2>3. getSettingsFromJSON(d, p) = Fail
    BY <2>2, LookupFails
  <2> QED
    BY <2>1, <2>3 DEF Fail
<1>2. CASE ~Early
  <2>1. TrimInJSON(d, p).val = result[0]
    <3> HIDE DEF Early, MapsBelow, result
    <3> QED
      BY <1>0, <1>2 DEF Ok, Fail
  <2> HIDE DEF maps
  <2>2. getObjectIndex(last, p[Len(p)]) = Ok(Null)
    BY MapIndex, Zenon
  <2> HIDE DEF last
  <2>3. /\ \A i \in 0..(Len(p) - 1) : Objects(result[0], p)[i] = Ok(result[i])
        /\ result[Len(p) - 1] = last
    BY ResultsFound, ResultsCalls
  <2> HIDE DEF result
  <2>4. Objects(result[0], p)[Len(p) - 1] = Ok(last)
    BY <2>3
  <2>5. Objects(result[0], p)[Len(p)] =
           IF Objects(result[0], p)[Len(p) - 1].err THEN Fail
           ELSE getObjectIndex(Objects(result[0], p)[Len(p) - 1].val, p[Len(p)])
    BY ObjectsCalls
  <2>6. Objects(result[0], p)[Len(p)] = Ok(Null)
    BY <2>2, <2>4, <2>5 DEF Ok
  <2> QED
    BY <2>1, <2>6 DEF getSettingsFromJSON, Ok
<1> QED
  BY Zenon, <1>1, <1>2


\* A lookup meets an object, or has failed.
LEMMA FoundOrFail ==
    ASSUME NEW o, NEW s, Len(s) \in Nat, NEW i \in 0..Len(s)
    PROVE  Objects(o, s)[i] = IF Objects(o, s)[i].err THEN Fail ELSE Ok(Objects(o, s)[i].val)
<1> DEFINE at == Objects(o, s)
<1>1. at[0] = Ok(o) /\ \A j \in 1..Len(s) : at[j] = Fail \/ \E x : at[j] = Ok(x)
  <2>1. /\ at[0] = Ok(o)
        /\ \A j \in 1..Len(s) : at[j] = IF at[j - 1].err THEN Fail ELSE getObjectIndex(at[j - 1].val, s[j])
    BY ObjectsCalls
  <2> HIDE DEF at
  <2> QED
    BY <2>1, IndexResults
<1> HIDE DEF at
<1>2. at[i] = Fail \/ \E x : at[i] = Ok(x)
  BY <1>1
<1>3. at[i] = IF at[i].err THEN Fail ELSE Ok(at[i].val)
  <2>1. CASE at[i] = Fail
    BY <2>1 DEF Fail
  <2>2. CASE \E x : at[i] = Ok(x)
    <3>1. PICK x : at[i] = Ok(x)
      BY <2>2
    <3>2. ~at[i].err /\ at[i].val = x
      BY <3>1 DEF Ok
    <3> QED
      BY <3>1, <3>2
  <2> QED
    BY <1>2, <2>1, <2>2
<1> QED
  BY <1>3 DEF at

\* Below maps only, setSettingsInJSON meets the objects a lookup meets.
LEMMA SetObjectsMet ==
    ASSUME NEW d, NEW p, NEW n \in 1..Len(p), Len(p) \in Nat \ {0},
           \A i \in 1..(n - 1) : IsMap(Objects(d, p)[i - 1].val),
           Objects(d, p)[n - 1].val # Null
    PROVE  ~Objects(d, p)[n - 1].err /\ SetObjects(d, p)[n - 1] = Objects(d, p)[n - 1].val
<1> DEFINE at == Objects(d, p)
           is == SetObjects(d, p)
           k == n - 1
           S == {i \in Nat : ~at[i].err /\ is[i] = at[i].val}
<1>0. k \in Nat /\ k \in 0..(Len(p) - 1)
  OBVIOUS
<1>1. /\ \A i \in 0..(k - 1) : IsMap(at[i].val)
      /\ at[k].val # Null
  <2>1. ASSUME NEW i \in 0..(k - 1) PROVE IsMap(at[i].val)
    <3>1. i + 1 \in 1..(n - 1) /\ (i + 1) - 1 = i
      OBVIOUS
    <3> QED
      BY <3>1
  <2> QED
    BY <2>1
<1>2. /\ at[0] = Ok(d) /\ is[0] = d
      /\ \A i \in 1..Len(p) : at[i] = IF at[i - 1].err THEN Fail ELSE getObjectIndex(at[i - 1].val, p[i])
      /\ \A i \in 1..(Len(p) - 1) :
            LET child == Member(AsMap(is[i - 1]), p[i])
            IN  is[i] = IF child = Null THEN EmptyMap ELSE child
  BY ObjectsCalls, SetObjectsCalls
<1> HIDE DEF at, is, k
<1>3. ASSUME NEW i \in 0..(k - 1), i \in S PROVE i + 1 \in S
  <2>1. ~at[i].err /\ is[i] = at[i].val /\ IsMap(at[i].val) /\ i + 1 \in Nat
    BY <1>0, <1>1, <1>3
  <2>0. i + 1 \in 1..(Len(p) - 1) /\ i + 1 \in 1..Len(p) /\ (i + 1) - 1 = i
    BY <1>0
  <2>2. at[i + 1] = getObjectIndex(at[i].val, p[i + 1])
    BY <1>2, <2>0, <2>1
  <2>3. at[i + 1] = Ok(Member(at[i].val, p[i + 1]))
    BY <2>1, <2>2 DEF getObjectIndex, IsMap
  <2>4. at[i + 1].val # Null
    <3>1. CASE i + 1 = k
      BY Zenon, <1>1, <3>1
    <3>2. CASE i + 1 # k
      BY <1>0, <1>1, <3>2 DEF IsMap, Null
    <3> QED
      BY <3>1, <3>2
  <2>5. LET child == Member(at[i].val, p[i + 1])
        IN  is[i + 1] = IF child = Null THEN EmptyMap ELSE child
    BY Zenon, <1>2, <2>0, <2>1 DEF AsMap
  <2>6. ~at[i + 1].err /\ is[i + 1] = at[i + 1].val
    BY <2>3, <2>4, <2>5 DEF Ok
  <2> QED
    BY Zenon, <2>1, <2>6
<1>4. 0 \in S
  BY <1>2 DEF Ok
<1>5. \A i \in 0..k : i \in S
  <2> HIDE DEF S
  <2> QED
    BY Zenon, <1>0, <1>3, <1>4, Induction
<1>6. ~at[k].err /\ is[k] = at[k].val
  BY <1>0, <1>5
<1> QED
  BY <1>6 DEF at, is, k

\* A change that leaves the object o, in which the paths part, with the same
\* member for q leaves all of q's branch.
LEMMA SameBranch ==
    ASSUME NEW d, NEW new, NEW p, NEW q, Len(p) \in Nat, Len(q) \in Nat,
           NEW n \in 1..Len(p), n <= Len(q), \A i \in 1..(n - 1) : p[i] = q[i],
           NEW o, NEW x, Objects(d, p)[n - 1] = Ok(o), Objects(new, p)[n - 1] = Ok(x),
           getObjectIndex(x, q[n]) = getObjectIndex(o, q[n])
    PROVE  getSettingsFromJSON(new, q) = getSettingsFromJSON(d, q)
<1> DEFINE k == n - 1
<1>0. k \in Nat /\ k <= Len(p) /\ k <= Len(q) /\ k \in 0..k /\ \A i \in 1..k : p[i] = q[i]
  OBVIOUS
<1>1. Objects(d, q)[n - 1] = Ok(o) /\ Objects(new, q)[n - 1] = Ok(x)
  <2>1. Objects(d, p)[k] = Ok(o) /\ Objects(new, p)[k] = Ok(x)
    OBVIOUS
  <2> HIDE DEF k
  <2>2. Objects(d, q)[k] = Ok(o) /\ Objects(new, q)[k] = Ok(x)
    BY <1>0, <2>1, SamePrefix
  <2> QED
    BY Zenon, <2>2 DEF k
<1>2. \A e : Objects(e, q)[n] =
         IF Objects(e, q)[n - 1].err THEN Fail ELSE getObjectIndex(Objects(e, q)[n - 1].val, q[n])
  <2>1. n \in 1..Len(q)
    OBVIOUS
  <2> QED
    BY <2>1, ObjectsCalls
<1>3. Objects(d, q)[n] = getObjectIndex(o, q[n]) /\ Objects(new, q)[n] = getObjectIndex(x, q[n])
  BY <1>1, <1>2 DEF Ok
<1>4. n \in 0..Len(q) /\ Objects(new, q)[n] = Objects(d, q)[n]
  BY <1>3
<1> QED
  BY <1>4, SameFrom


\* setSettingsInJSON leaves what is found at a path apart from its own.
THEOREM SetElsewhere ==
    ASSUME NEW d, NEW p, NEW q, Len(p) \in Nat, Len(q) \in Nat, p = <<>> <=> Len(p) = 0, NEW value,
           ~setSettingsInJSON(d, p, value).err, Apart(d, p, q)
    PROVE  getSettingsFromJSON(setSettingsInJSON(d, p, value).val, q) = getSettingsFromJSON(d, q)
<1> DEFINE at == SetObjects(d, p)
           last == setObjectIndex(at[Len(p) - 1], p[Len(p)], value)
           maps == [i \in DOMAIN at |-> AsMap(at[i])]
           result == Results(maps, p, last.val)
           Parts(o, n) == \/ IsMap(o) /\ p[n] # q[n]
                          \/ /\ o.t = "arr" /\ n = Len(p)
                             /\ q[n] \in DOMAIN Atoi => p[n] \in DOMAIN Atoi /\ Atoi[q[n]] # Atoi[p[n]]
<1>1. PICK n \in 1..Len(p) :
         /\ n <= Len(q) /\ \A i \in 1..(n - 1) : p[i] = q[i] /\ IsMap(Objects(d, p)[i - 1].val)
         /\ Parts(Objects(d, p)[n - 1].val, n)
  BY Zenon DEF Apart
<1> DEFINE o == Objects(d, p)[n - 1].val
<1>2. Len(p) \in Nat \ {0} /\ p # <<>>
  OBVIOUS
<1>3. ~last.err /\ setSettingsInJSON(d, p, value).val = result[0]
  BY Zenon, <1>2 DEF setSettingsInJSON, Ok, Fail
<1>4. Parts(o, n) /\ o # Null
  BY <1>1 DEF IsMap, Null
<1>5. ~Objects(d, p)[n - 1].err /\ at[n - 1] = o
  <2>1. Objects(d, p)[n - 1].val # Null /\ \A i \in 1..(n - 1) : IsMap(Objects(d, p)[i - 1].val)
    BY Zenon, <1>1, <1>4
  <2> QED
    BY Zenon, <1>2, <2>1, SetObjectsMet
<1>6. Objects(d, p)[n - 1] = Ok(o)
  BY <1>2, <1>5, FoundOrFail
<1>7. n - 1 \in DOMAIN at /\ maps[n - 1] = AsMap(o)
  BY <1>2, <1>5, SetObjectsCalls
<1> HIDE DEF maps, at, Parts
<1>8. /\ Objects(result[0], p)[n - 1] = Ok(result[n - 1])
      /\ result[Len(p) - 1] = last.val
      /\ n # Len(p) => result[n - 1] = With(maps[n - 1], p[n], result[n])
  <2> DEFINE v == last.val
  <2> HIDE DEF v
  <2>1. /\ \A i \in 0..(Len(p) - 1) : Objects(Results(maps, p, v)[0], p)[i] = Ok(Results(maps, p, v)[i])
        /\ Results(maps, p, v)[Len(p) - 1] = v
        /\ \A i \in 0..(Len(p) - 2) : Results(maps, p, v)[i] = With(maps[i], p[i + 1], Results(maps, p, v)[i + 1])
    BY <1>2, ResultsFound, ResultsCalls
  <2>2. n - 1 \in 0..(Len(p) - 1) /\ (n - 1) + 1 = n /\ (n # Len(p) => n - 1 \in 0..(Len(p) - 2))
    OBVIOUS
  <2>3. /\ Objects(Results(maps, p, v)[0], p)[n - 1] = Ok(Results(maps, p, v)[n - 1])
        /\ n # Len(p) => Results(maps, p, v)[n - 1] = With(maps[n - 1], p[n], Results(maps, p, v)[n])
    BY Zenon, <2>1, <2>2
  <2> QED
    BY Zenon, <2>1, <2>3 DEF v
<1> HIDE DEF result, o
<1>9. n = Len(p) => result[n - 1] = last.val /\ last = setObjectIndex(o, p[n], value)
  BY Zenon, <1>5, <1>8
<1> HIDE DEF last
<1>10. getObjectIndex(result[n - 1], q[n]) = getObjectIndex(o, q[n])
  <2>1. CASE IsMap(o) /\ p[n] # q[n]
    <3>1. \E x : result[n - 1] = With(o, p[n], x)
      <4>1. CASE n = Len(p)
        BY <1>9, <2>1, <4>1 DEF setObjectIndex, IsMap, Ok
      <4>2. CASE n # Len(p)
        BY Zenon, <1>7, <1>8, <2>1, <4>2 DEF AsMap
      <4> QED
        BY <4>1, <4>2
    <3>2. getObjectIndex(result[n - 1], q[n]) = Ok(Member(o, q[n]))
      BY <2>1, <3>1, MapIndex
    <3> QED
      BY Zenon, <2>1, <3>2 DEF getObjectIndex, IsMap
  <2>2. CASE o.t = "arr" /\ n = Len(p)
             /\ (q[n] \in DOMAIN Atoi => p[n] \in DOMAIN Atoi /\ Atoi[q[n]] # Atoi[p[n]])
    BY <1>3, <1>9, <2>2, SetOtherElement
  <2> QED
    BY Zenon, <1>4, <2>1, <2>2 DEF Parts
<1> QED
  BY <1>1, <1>3, <1>6, <1>8, <1>10, SameBranch

\* TrimSettingsFile leaves what is found at a path apart from its own.
THEOREM TrimElsewhere ==
    ASSUME NEW d, NEW p, NEW q, Len(p) \in Nat \ {0}, Len(q) \in Nat, p # <<>>, IsMap(d),
           ~TrimInJSON(d, p).err, Apart(d, p, q)
    PROVE  getSettingsFromJSON(TrimInJSON(d, p).val, q) = getSettingsFromJSON(d, q)
<1> DEFINE at == Objects(d, p)
           maps == [i \in 0..(Len(p) - 1) |-> at[i].val]
           last == Without(maps[Len(p) - 1], p[Len(p)])
           result == Results(maps, p, last)
           MapsBelow(n) == \A i \in 1..(n - 1) : IsMap(at[i].val)
           Early == \E n \in 1..(Len(p) - 1) : MapsBelow(n) /\ at[n].val = Null
<1>0. TrimInJSON(d, p) = IF Early THEN Ok(d) ELSE IF ~MapsBelow(Len(p)) THEN Fail ELSE Ok(result[0])
  BY DEF TrimInJSON
<1>1. CASE Early
  <2>1. TrimInJSON(d, p).val = d
    <3> HIDE DEF Early, MapsBelow, result
    <3> QED
      BY <1>0, <1>1 DEF Ok
  <2> QED
    BY <2>1
<1>2. CASE ~Early
  <2>1. TrimInJSON(d, p).val = result[0] /\ MapsBelow(Len(p))
    <3> HIDE DEF Early, MapsBelow, result
    <3> QED
      BY <1>0, <1>2 DEF Ok, Fail
  <2>2. PICK n \in 1..Len(p) :
           /\ n <= Len(q) /\ \A i \in 1..(n - 1) : p[i] = q[i]
           /\ LET o == Objects(d, p)[n - 1].val
              IN  (IsMap(o) /\ p[n] # q[n]) \/ (o.t = "arr" /\ n = Len(p))
    BY Zenon DEF Apart
  <2> DEFINE o == Objects(d, p)[n - 1].val
  <2>3. IsMap(o) /\ p[n] # q[n]
    <3>1. n = Len(p) => IsMap(o)
      <4>1. CASE n = 1
        <5>1. Objects(d, p)[0] = Ok(d)
          BY Zenon, ObjectsCalls
        <5> QED
          BY <4>1, <5>1 DEF Ok
      <4>2. CASE n # 1
        BY <2>1, <4>2
      <4> QED
        BY Zenon, <4>1, <4>2
    <3> QED
      BY Zenon, <2>2, <3>1 DEF IsMap
  <2>4. Objects(d, p)[n - 1] = Ok(o)
    <3>1. ~Objects(d, p)[n - 1].err
      BY <2>3, FoundOrFail DEF IsMap, Null, Fail
    <3> QED
      BY <3>1, FoundOrFail
  <2>5. n - 1 \in 0..(Len(p) - 1) /\ maps[n - 1] = o
    OBVIOUS
  <2> HIDE DEF maps
  <2>6. /\ Objects(result[0], p)[n - 1] = Ok(result[n - 1])
        /\ result[Len(p) - 1] = last
        /\ n # Len(p) => result[n - 1] = With(maps[n - 1], p[n], result[n])
    <3> HIDE DEF last
    <3>1. /\ \A i \in 0..(Len(p) - 1) : Objects(result[0], p)[i] = Ok(result[i])
          /\ result[Len(p) - 1] = last
          /\ \A i \in 0..(Len(p) - 2) : result[i] = With(maps[i], p[i + 1], result[i + 1])
      BY ResultsFound, ResultsCalls
    <3> HIDE DEF result
    <3>2. (n - 1) + 1 = n /\ (n # Len(p) => n - 1 \in 0..(Len(p) - 2))
      OBVIOUS
    <3> QED
      BY Zenon, <2>5, <3>1, <3>2
  <2> HIDE DEF result, o
  <2>7. getObjectIndex(result[n - 1], q[n]) = getObjectIndex(o, q[n])
    <3>1. result[n - 1] = Without(o, p[n]) \/ result[n - 1] = With(o, p[n], result[n])
      BY Zenon, <2>5, <2>6
    <3>2. \A y : /\ getObjectIndex(With(o, p[n], y), q[n]) = Ok(Member(o, q[n]))
                 /\ getObjectIndex(Without(o, p[n]), q[n]) = Ok(Member(o, q[n]))
      BY <2>3, MapIndex
    <3>3. getObjectIndex(result[n - 1], q[n]) = Ok(Member(o, q[n]))
      BY <3>1, <3>2
    <3> QED
      BY Zenon, <2>3, <3>3 DEF getObjectIndex, IsMap
  <2> QED
    BY <2>1, <2>2, <2>4, <2>6, <2>7, SameBranch
<1> QED
  BY Zenon, <1>1, <1>2

=============================================================================
