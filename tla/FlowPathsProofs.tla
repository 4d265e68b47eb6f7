---------------------------- MODULE FlowPathsProofs ----------------------------
(***************************************************************************)
(* Lemmas about what flows are described with: sums (Total is a             *)
(* cardinality, so no induction is needed), sums over sequences, the ranks  *)
(* of a graph without cycles, and that its paths can be counted.            *)
(***************************************************************************)
EXTENDS WellFormedFlows, FiniteSetTheorems, WellFoundedInduction, TLAPS

-----------------------------------------------------------------------------
(* Sequences.                                                               *)

LEMMA SeqMonotone ==
    ASSUME NEW S, NEW T, S \subseteq T
    PROVE  Seq(S) \subseteq Seq(T)
OBVIOUS

LEMMA SeqOfFunction ==
    ASSUME NEW S, NEW T, NEW t \in Seq(T), NEW f,
           f = [i \in DOMAIN t |-> f[i]], \A i \in DOMAIN t : f[i] \in S
    PROVE  f \in Seq(S) /\ Len(f) = Len(t)
<1>1. Len(t) \in Nat /\ DOMAIN t = 1 .. Len(t)
  OBVIOUS
<1>2. f = [i \in 1 .. Len(t) |-> f[i]] /\ \A i \in 1 .. Len(t) : f[i] \in S
  BY <1>1
<1> QED
  BY <1>1, <1>2

LEMMA SeqTail ==
    ASSUME NEW S, NEW s \in Seq(S), s # <<>>
    PROVE  Tail(s) \in Seq(S) /\ Head(s) \in S
OBVIOUS

LEMMA SeqElement ==
    ASSUME NEW S, NEW s \in Seq(S), NEW i \in DOMAIN s
    PROVE  s[i] \in S
OBVIOUS

LEMMA SeqOfOne ==
    ASSUME NEW S, NEW e \in S
    PROVE  /\ <<e>> \in Seq(S) /\ Len(<<e>>) = 1 /\ <<e>>[1] = e
           /\ DOMAIN <<e>> = 1 .. 1
           /\ <<>> \in Seq(S) /\ DOMAIN <<>> = 1 .. 0
OBVIOUS

LEMMA SeqExcept ==
    ASSUME NEW S, NEW s \in Seq(S), NEW i \in 1 .. Len(s), NEW e \in S
    PROVE  [s EXCEPT ![i] = e] \in Seq(S) /\ Len([s EXCEPT ![i] = e]) = Len(s)
<1>1. DOMAIN s = 1 .. Len(s) /\ Len(s) \in Nat
  OBVIOUS
<1>2. [s EXCEPT ![i] = e] = [k \in 1 .. Len(s) |-> IF k = i THEN e ELSE s[k]]
  BY <1>1
<1>3. \A k \in 1 .. Len(s) : (IF k = i THEN e ELSE s[k]) \in S
  OBVIOUS
<1> QED
  BY <1>1, <1>2, <1>3

LEMMA SeqConcat ==
    ASSUME NEW S, NEW s \in Seq(S), NEW t \in Seq(S)
    PROVE  s \o t \in Seq(S)
OBVIOUS

LEMMA SeqAppend ==
    ASSUME NEW S, NEW s \in Seq(S), NEW e \in S
    PROVE  Append(s, e) \in Seq(S)
OBVIOUS

-----------------------------------------------------------------------------
(* Total, the sum that WellFormedFlows counts paths with.                     *)

Units(S, w) == UNION { {x} \X (1 .. w[x]) : x \in S }

LEMMA UnitsMember ==
    ASSUME NEW S, NEW w, NEW u
    PROVE  u \in Units(S, w) <=> \E x \in S : \E k \in 1 .. w[x] : u = <<x, k>>
BY DEF Units

LEMMA IntervalFinite ==
    ASSUME NEW n \in Nat
    PROVE  IsFiniteSet(1 .. n) /\ Cardinality(1 .. n) = n
<1>1. 1 \in Int /\ n \in Int
  OBVIOUS
<1>2. IsFiniteSet(1 .. n) /\ Cardinality(1 .. n) = IF 1 > n THEN 0 ELSE n - 1 + 1
  BY <1>1, FS_Interval
<1> QED
  BY <1>2

LEMMA UnitsFinite ==
    ASSUME NEW S, IsFiniteSet(S), NEW w, \A x \in S : w[x] \in Nat
    PROVE  /\ IsFiniteSet(Units(S, w))
           /\ Total(S, w) = Cardinality(Units(S, w))
           /\ Total(S, w) \in Nat
<1> DEFINE part == [x \in S |-> {x} \X (1 .. w[x])]
           parts == { {x} \X (1 .. w[x]) : x \in S }
<1>1. IsFiniteSet(parts)
  <2>1. part \in Surjection(S, parts)
    BY DEF Surjection
  <2> QED
    BY <2>1, FS_Surjection
<1>2. \A x \in S : IsFiniteSet({x} \X (1 .. w[x]))
  <2> TAKE x \in S
  <2>1. IsFiniteSet({x}) /\ IsFiniteSet(1 .. w[x])
    <3>1. IsFiniteSet({x})
      BY FS_Singleton
    <3>2. w[x] \in Nat
      OBVIOUS
    <3> QED
      BY <3>1, <3>2, IntervalFinite
  <2> QED
    BY <2>1, FS_Product
<1>3. \A T \in parts : IsFiniteSet(T)
  BY <1>2
<1> HIDE DEF parts
<1>4. IsFiniteSet(UNION parts)
  BY <1>1, <1>3, FS_UNION
<1>5. Units(S, w) = UNION parts /\ Total(S, w) = Cardinality(UNION parts)
  BY DEF Units, Total, parts
<1> QED
  BY <1>4, <1>5, FS_CardinalityType

LEMMA TotalSame ==
    ASSUME NEW S, NEW v, NEW w, \A x \in S : v[x] = w[x]
    PROVE  Total(S, v) = Total(S, w)
<1>1. Units(S, v) = Units(S, w)
  <2>1. ASSUME NEW u PROVE u \in Units(S, v) <=> u \in Units(S, w)
    BY UnitsMember
  <2> QED
    BY <2>1
<1> QED
  BY <1>1 DEF Total, Units

LEMMA TotalEmpty ==
    ASSUME NEW w
    PROVE  Total({}, w) = 0
<1>1. UNION { {x} \X (1 .. w[x]) : x \in {} } = {}
  OBVIOUS
<1> QED
  BY <1>1, FS_EmptySet DEF Total

\* the sum over two sets without a common element
LEMMA TotalSplit ==
    ASSUME NEW S, NEW T, IsFiniteSet(S), IsFiniteSet(T), S \cap T = {},
           NEW w, \A x \in S \cup T : w[x] \in Nat
    PROVE  Total(S \cup T, w) = Total(S, w) + Total(T, w)
<1>1. Units(S \cup T, w) = Units(S, w) \cup Units(T, w)
  BY UnitsMember
<1>2. Units(S, w) \cap Units(T, w) = {}
  BY UnitsMember
<1>3. /\ IsFiniteSet(Units(S, w)) /\ Total(S, w) = Cardinality(Units(S, w))
      /\ IsFiniteSet(Units(T, w)) /\ Total(T, w) = Cardinality(Units(T, w))
      /\ Total(S, w) \in Nat /\ Total(T, w) \in Nat
  BY UnitsFinite
<1>4. Total(S \cup T, w) = Cardinality(Units(S \cup T, w))
  BY DEF Total, Units
<1>5. Cardinality(Units(S, w) \cup Units(T, w)) =
        Cardinality(Units(S, w)) + Cardinality(Units(T, w)) - Cardinality({})
  BY <1>2, <1>3, FS_Union
<1>6. Cardinality({}) = 0
  BY FS_EmptySet
<1>7. Cardinality(Units(S, w)) \in Nat /\ Cardinality(Units(T, w)) \in Nat
  BY <1>3
<1>8. Cardinality(Units(S \cup T, w)) = Cardinality(Units(S, w)) + Cardinality(Units(T, w))
  <2> HIDE DEF Units
  <2>1. Cardinality(Units(S, w) \cup Units(T, w)) =
          Cardinality(Units(S, w)) + Cardinality(Units(T, w))
    BY <1>5, <1>6, <1>7
  <2> QED
    BY <1>1, <2>1
<1> QED
  BY <1>3, <1>4, <1>8

LEMMA TotalOne ==
    ASSUME NEW x, NEW w, w[x] \in Nat
    PROVE  Total({x}, w) = w[x]
<1> DEFINE k == w[x]
<1>1. UNION { {y} \X (1 .. w[y]) : y \in {x} } = {x} \X (1 .. k)
  OBVIOUS
<1>2. k \in Nat
  OBVIOUS
<1>3. Total({x}, w) = Cardinality({x} \X (1 .. k))
  BY <1>1 DEF Total
<1> HIDE DEF k
<1>4. IsFiniteSet({x}) /\ Cardinality({x}) = 1
  BY FS_Singleton
<1>5. IsFiniteSet(1 .. k) /\ Cardinality(1 .. k) = k
  BY <1>2, IntervalFinite
<1>6. Cardinality({x} \X (1 .. k)) = Cardinality({x}) * Cardinality(1 .. k)
  BY <1>4, <1>5, FS_Product
<1>7. Total({x}, w) = k
  BY <1>2, <1>3, <1>4, <1>5, <1>6
<1> QED
  BY <1>7 DEF k

LEMMA TotalAdd ==
    ASSUME NEW S, IsFiniteSet(S), NEW x, x \notin S,
           NEW w, \A y \in S \cup {x} : w[y] \in Nat
    PROVE  Total(S \cup {x}, w) = Total(S, w) + w[x]
<1>1. IsFiniteSet({x}) /\ S \cap {x} = {}
  BY FS_Singleton
<1>2. Total(S \cup {x}, w) = Total(S, w) + Total({x}, w)
  BY <1>1, TotalSplit
<1> QED
  BY <1>2, TotalOne

LEMMA TotalRemove ==
    ASSUME NEW S, IsFiniteSet(S), NEW x \in S, NEW w, \A y \in S : w[y] \in Nat
    PROVE  Total(S, w) = Total(S \ {x}, w) + w[x]
<1>1. IsFiniteSet(S \ {x}) /\ x \notin S \ {x} /\ S = (S \ {x}) \cup {x}
  BY FS_RemoveElement
<1>2. Total((S \ {x}) \cup {x}, w) = Total(S \ {x}, w) + w[x]
  BY <1>1, TotalAdd
<1> QED
  BY <1>1, <1>2

\* a sum is at least each of its terms, and positive when one of them is
LEMMA TotalTerm ==
    ASSUME NEW S, IsFiniteSet(S), NEW x \in S, NEW w, \A y \in S : w[y] \in Nat
    PROVE  Total(S, w) >= w[x]
<1>1. IsFiniteSet(S \ {x}) /\ \A y \in S \ {x} : w[y] \in Nat
  BY FS_RemoveElement
<1>2. Total(S \ {x}, w) \in Nat
  BY <1>1, UnitsFinite
<1> QED
  BY <1>2, TotalRemove

LEMMA TotalZero ==
    ASSUME NEW S, NEW w, \A x \in S : w[x] = 0
    PROVE  Total(S, w) = 0
<1>1. Units(S, w) = {}
  <2>1. \A x \in S : 1 .. w[x] = {}
    OBVIOUS
  <2> QED
    BY <2>1, UnitsMember
<1> QED
  BY <1>1, FS_EmptySet DEF Total, Units

LEMMA TotalPositive ==
    ASSUME NEW S, NEW w, \A x \in S : w[x] \in Nat, Total(S, w) # 0
    PROVE  \E x \in S : w[x] > 0
<1> SUFFICES ASSUME \A x \in S : ~ (w[x] > 0) PROVE FALSE
  OBVIOUS
<1>1. \A x \in S : w[x] = 0
  OBVIOUS
<1> QED
  BY <1>1, TotalZero

\* a sum of ones and zeros counts the ones
LEMMA TotalCounts ==
    ASSUME NEW S, IsFiniteSet(S), NEW A \in SUBSET S,
           NEW w, \A x \in S : w[x] = IF x \in A THEN 1 ELSE 0
    PROVE  Total(S, w) = Cardinality(A)
<1>1. IsFiniteSet(A) /\ IsFiniteSet(S \ A) /\ A \cap (S \ A) = {} /\ S = A \cup (S \ A)
  BY FS_Subset
<1>2. \A x \in A \cup (S \ A) : w[x] \in Nat
  OBVIOUS
<1>3. Total(A \cup (S \ A), w) = Total(A, w) + Total(S \ A, w)
  BY <1>1, <1>2, TotalSplit
<1>4. Total(S \ A, w) = 0
  BY TotalZero
<1>5. Total(A, w) \in Nat /\ Total(A, w) = Cardinality(Units(A, w))
  BY <1>1, <1>2, UnitsFinite
<1>6. Cardinality(Units(A, w)) = Cardinality(A)
  <2> DEFINE b == [x \in A |-> <<x, 1>>]
  <2>1. b \in [A -> Units(A, w)]
    <3>1. ASSUME NEW x \in A PROVE <<x, 1>> \in Units(A, w)
      <4>1. 1 \in 1 .. w[x]
        OBVIOUS
      <4> QED
        BY <4>1, UnitsMember
    <3> QED
      BY <3>1
  <2>2. \A x, y \in A : b[x] = b[y] => x = y
    OBVIOUS
  <2>3. ASSUME NEW u \in Units(A, w) PROVE \E x \in A : b[x] = u
    <3>1. PICK x \in A : \E k \in 1 .. w[x] : u = <<x, k>>
      BY UnitsMember
    <3>2. u = <<x, 1>>
      BY <3>1
    <3> QED
      BY <3>2
  <2> HIDE DEF b
  <2>4. b \in Bijection(A, Units(A, w))
    BY <2>1, <2>2, <2>3 DEF Bijection, Injection, Surjection, IsInjective
  <2> QED
    BY <1>1, <2>4, FS_Bijection DEF ExistsBijection
<1> QED
  BY <1>1, <1>3, <1>4, <1>5, <1>6

\* sums over sets of the same size with the same terms
LEMMA TotalBijection ==
    ASSUME NEW S, IsFiniteSet(S), NEW T, NEW v, NEW w, \A x \in S : v[x] \in Nat,
           NEW b \in Bijection(S, T), \A x \in S : w[b[x]] = v[x]
    PROVE  Total(S, v) = Total(T, w)
<1> DEFINE c == [u \in Units(S, v) |-> <<b[u[1]], u[2]>>]
<1>1. \A y \in T : \E x \in S : b[x] = y
  BY DEF Bijection, Surjection
<1>2. \A x, y \in S : b[x] = b[y] => x = y
  BY DEF Bijection, Injection, IsInjective
<1>3. \A x \in S : b[x] \in T
  BY DEF Bijection, Injection
<1>4. c \in [Units(S, v) -> Units(T, w)]
  <2>1. ASSUME NEW u \in Units(S, v) PROVE <<b[u[1]], u[2]>> \in Units(T, w)
    <3>1. PICK x \in S : \E k \in 1 .. v[x] : u = <<x, k>>
      BY <2>1, UnitsMember
    <3>2. PICK k \in 1 .. v[x] : u = <<x, k>>
      BY <3>1
    <3>3. k \in 1 .. w[b[x]] /\ b[x] \in T
      BY <1>3
    <3>4. <<b[x], k>> \in Units(T, w)
      BY <3>3, UnitsMember
    <3> QED
      BY <3>2, <3>4
  <2> QED
    BY <2>1
<1>5. ASSUME NEW u1 \in Units(S, v), NEW u2 \in Units(S, v), c[u1] = c[u2]
      PROVE  u1 = u2
  <2>1. PICK x1 \in S : \E k \in 1 .. v[x1] : u1 = <<x1, k>>
    BY UnitsMember
  <2>2. PICK x2 \in S : \E k \in 1 .. v[x2] : u2 = <<x2, k>>
    BY UnitsMember
  <2>3. <<b[x1], u1[2]>> = <<b[x2], u2[2]>>
    BY <1>5, <2>1, <2>2
  <2>4. x1 = x2 /\ u1[2] = u2[2]
    BY <1>2, <2>3
  <2> QED
    BY <2>1, <2>2, <2>4
<1>6. ASSUME NEW u \in Units(T, w) PROVE \E z \in Units(S, v) : c[z] = u
  <2>1. PICK y \in T : \E k \in 1 .. w[y] : u = <<y, k>>
    BY UnitsMember
  <2>2. PICK k \in 1 .. w[y] : u = <<y, k>>
    BY <2>1
  <2>3. PICK x \in S : b[x] = y
    BY <1>1
  <2>4. <<x, k>> \in Units(S, v)
    BY <2>2, <2>3, UnitsMember
  <2>5. c[<<x, k>>] = u
    BY <2>2, <2>3, <2>4
  <2> QED
    BY <2>4, <2>5
<1> HIDE DEF c
<1>7. c \in Bijection(Units(S, v), Units(T, w))
  BY <1>4, <1>5, <1>6 DEF Bijection, Injection, Surjection, IsInjective
<1>8. IsFiniteSet(Units(S, v)) /\ Total(S, v) = Cardinality(Units(S, v))
  BY UnitsFinite
<1>9. Cardinality(Units(T, w)) = Cardinality(Units(S, v))
  BY <1>7, <1>8, FS_Bijection DEF ExistsBijection
<1> QED
  BY <1>8, <1>9 DEF Total, Units

-----------------------------------------------------------------------------
(* Sums over a sequence of what each element is worth.                        *)

Worth(g, s) == Total(DOMAIN s, [i \in DOMAIN s |-> g[s[i]]])

HasWeights(g, S) == \A x \in S : g[x] \in Nat

LEMMA WorthType ==
    ASSUME NEW S, NEW s \in Seq(S), NEW g, HasWeights(g, S)
    PROVE  Worth(g, s) \in Nat
<1> DEFINE v == [i \in DOMAIN s |-> g[s[i]]]
<1>1. DOMAIN s = 1 .. Len(s) /\ Len(s) \in Nat /\ \A i \in DOMAIN s : s[i] \in S
  OBVIOUS
<1>2. \A i \in DOMAIN s : v[i] \in Nat
  BY <1>1 DEF HasWeights
<1>3. IsFiniteSet(DOMAIN s)
  BY <1>1, IntervalFinite
<1> HIDE DEF v
<1>4. Total(DOMAIN s, v) \in Nat
  BY <1>2, <1>3, UnitsFinite
<1> QED
  BY <1>4 DEF Worth, v
LEMMA WorthSame ==
    ASSUME NEW s, NEW g, NEW h, \A i \in DOMAIN s : g[s[i]] = h[s[i]]
    PROVE  Worth(g, s) = Worth(h, s)
<1> DEFINE v == [i \in DOMAIN s |-> g[s[i]]]
           w == [i \in DOMAIN s |-> h[s[i]]]
<1>1. \A i \in DOMAIN s : v[i] = w[i]
  OBVIOUS
<1> HIDE DEF v, w
<1>2. Total(DOMAIN s, v) = Total(DOMAIN s, w)
  BY <1>1, TotalSame
<1> QED
  BY <1>2 DEF Worth, v, w

LEMMA WorthConcat ==
    ASSUME NEW S, NEW s \in Seq(S), NEW t \in Seq(S), NEW g, HasWeights(g, S)
    PROVE  Worth(g, s \o t) = Worth(g, s) + Worth(g, t)
<1> DEFINE st == s \o t
           u == [i \in DOMAIN st |-> g[st[i]]]
           v == [i \in DOMAIN s |-> g[s[i]]]
           w == [i \in DOMAIN t |-> g[t[i]]]
<1>1. /\ DOMAIN s = 1 .. Len(s) /\ Len(s) \in Nat /\ \A i \in 1 .. Len(s) : s[i] \in S
      /\ DOMAIN t = 1 .. Len(t) /\ Len(t) \in Nat /\ \A i \in 1 .. Len(t) : t[i] \in S
  OBVIOUS
<1>2. /\ DOMAIN st = 1 .. Len(s) + Len(t)
      /\ \A i \in 1 .. Len(s) : st[i] = s[i]
      /\ \A i \in 1 .. Len(t) : st[Len(s) + i] = t[i]
  OBVIOUS
<1>3. \A i \in 1 .. Len(s) : i \in DOMAIN st
  BY <1>1, <1>2
<1>4. \A i \in 1 .. Len(t) : Len(s) + i \in DOMAIN st
  BY <1>1, <1>2
<1> HIDE DEF st
<1>5. \A i \in 1 .. Len(s) : u[i] = v[i] /\ v[i] \in Nat
  BY <1>1, <1>2, <1>3, Zenon DEF HasWeights
<1>6. \A i \in 1 .. Len(t) : u[Len(s) + i] = w[i] /\ w[i] \in Nat
  BY <1>1, <1>2, <1>4, Zenon DEF HasWeights
<1> HIDE DEF u, v, w
<1>7. Total(DOMAIN s, u) = Total(DOMAIN s, v)
  BY <1>1, <1>5, TotalSame
<1>8. IsFiniteSet(DOMAIN s) /\ IsFiniteSet(DOMAIN t)
  BY <1>1, IntervalFinite
<1> DEFINE last == Len(s) + 1 .. Len(s) + Len(t)
           b == [i \in 1 .. Len(t) |-> Len(s) + i]
<1>9. DOMAIN st = DOMAIN s \cup last /\ DOMAIN s \cap last = {}
  BY <1>1, <1>2
<1>10. b \in Bijection(DOMAIN t, last)
  <2>1. b \in [1 .. Len(t) -> last]
    BY <1>1
  <2>2. \A i, j \in 1 .. Len(t) : b[i] = b[j] => i = j
    BY <1>1
  <2>3. \A j \in last : \E i \in 1 .. Len(t) : b[i] = j
    <3> TAKE j \in last
    <3>1. j - Len(s) \in 1 .. Len(t) /\ b[j - Len(s)] = j
      BY <1>1
    <3> QED
      BY <3>1
  <2> HIDE DEF b, last
  <2> QED
    BY <1>1, <2>1, <2>2, <2>3 DEF Bijection, Injection, Surjection, IsInjective
<1>11. \A i \in DOMAIN t : u[b[i]] = w[i] /\ w[i] \in Nat
  BY <1>1, <1>6
<1>12. \A j \in last : \E i \in DOMAIN t : b[i] = j
  BY <1>10 DEF Bijection, Surjection
<1> HIDE DEF b, last
<1>13. IsFiniteSet(last)
  BY <1>8, <1>10, FS_Bijection DEF ExistsBijection
<1>14. \A i \in DOMAIN s \cup last : u[i] \in Nat
  BY <1>1, <1>5, <1>11, <1>12
<1>15. Total(DOMAIN s \cup last, u) = Total(DOMAIN s, u) + Total(last, u)
  BY <1>8, <1>9, <1>13, <1>14, TotalSplit
<1>16. Total(DOMAIN t, w) = Total(last, u)
  <2> DEFINE S1 == DOMAIN t
  <2>1. IsFiniteSet(S1) /\ b \in Bijection(S1, last)
    BY <1>8, <1>10
  <2>2. \A i \in S1 : w[i] \in Nat
    BY <1>11
  <2>3. \A i \in S1 : u[b[i]] = w[i]
    BY <1>11
  <2> HIDE DEF S1
  <2>4. Total(S1, w) = Total(last, u)
    BY <2>1, <2>2, <2>3, TotalBijection, SMT
  <2> QED
    BY <2>4 DEF S1
<1>17. Total(DOMAIN st, u) = Total(DOMAIN s, v) + Total(DOMAIN t, w)
  BY <1>7, <1>9, <1>15, <1>16
<1> QED
  BY <1>17, Zenon DEF Worth, st, u, v, w
LEMMA WorthEmpty == ASSUME NEW g PROVE Worth(g, <<>>) = 0
<1>1. DOMAIN << >> = {}
  OBVIOUS
<1> QED
  BY <1>1, TotalEmpty DEF Worth

LEMMA WorthOne ==
    ASSUME NEW e, NEW g, g[e] \in Nat
    PROVE  Worth(g, <<e>>) = g[e]
<1> DEFINE v == [i \in {1} |-> g[e]]
<1>1. DOMAIN <<e>> = {1} /\ [i \in DOMAIN <<e>> |-> g[<<e>>[i]]] = v
  OBVIOUS
<1>2. v[1] = g[e]
  OBVIOUS
<1> HIDE DEF v
<1>3. Total({1}, v) = v[1]
  BY <1>2, TotalOne
<1> QED
  BY <1>1, <1>2, <1>3 DEF Worth

LEMMA WorthTail ==
    ASSUME NEW S, NEW s \in Seq(S), s # <<>>, NEW g, HasWeights(g, S)
    PROVE  Worth(g, s) = g[Head(s)] + Worth(g, Tail(s))
<1> DEFINE e == Head(s)
<1>1. <<e>> \in Seq(S) /\ Tail(s) \in Seq(S) /\ s = <<e>> \o Tail(s) /\ e \in S
  OBVIOUS
<1> HIDE DEF e
<1>2. Worth(g, <<e>> \o Tail(s)) = Worth(g, <<e>>) + Worth(g, Tail(s))
  BY <1>1, WorthConcat
<1>3. Worth(g, <<e>>) = g[e]
  BY <1>1, WorthOne DEF HasWeights
<1> QED
  BY <1>1, <1>2, <1>3 DEF e

-----------------------------------------------------------------------------
(* Ranks, and paths.                                                          *)

LEMMA HasLeast ==
    ASSUME NEW T \in SUBSET Nat, T # {}
    PROVE  \E x \in T : \A y \in T : x <= y
<1> DEFINE R == OpToRel(<, Nat)
<1>1. IsWellFoundedOn(R, Nat)
  BY NatLessThanWellFounded
<1>2. \A x, y \in Nat : x < y => <<x, y>> \in R
  BY DEF OpToRel
<1> HIDE DEF R
<1>3. PICK x \in T : \A y \in T : ~ (<<y, x>> \in R)
  BY <1>1, WFMin
<1>4. \A y \in T : ~ (y < x)
  BY <1>2, <1>3, Zenon
<1> QED
  BY <1>4

LEMMA LowestRank ==
    ASSUME NEW N, NEW m \in Nat, NEW rank \in [N -> 1 .. m], NEW S \in SUBSET N, S # {}
    PROVE  \E n \in S : \A k \in S : rank[n] <= rank[k]
<1> DEFINE T == { rank[n] : n \in S }
<1>1. T \in SUBSET Nat /\ T # {}
  OBVIOUS
<1>2. PICK x \in T : \A y \in T : x <= y
  BY <1>1, HasLeast
<1> QED
  BY <1>2

LEMMA HighestRank ==
    ASSUME NEW N, NEW m \in Nat, NEW rank \in [N -> 1 .. m], NEW S \in SUBSET N, S # {}
    PROVE  \E n \in S : \A k \in S : rank[k] <= rank[n]
<1> DEFINE T == { m - rank[n] : n \in S }
<1>1. \A n \in S : rank[n] \in 1 .. m
  OBVIOUS
<1>2. T \in SUBSET Nat /\ T # {}
  BY <1>1
<1>3. PICK x \in T : \A y \in T : x <= y
  BY <1>2, HasLeast
<1>4. PICK n \in S : x = m - rank[n]
  BY <1>3
<1>5. \A k \in S : m - rank[n] <= m - rank[k]
  BY <1>3, <1>4
<1> QED
  BY <1>1, <1>5

\* a finite graph without cycles has ranks: take away last nodes, one at a time
LEMMA Ranked ==
    ASSUME NEW f, IsFiniteSet(f.nodes), Acyclic(f),
           \A n \in f.nodes : \A i \in DOMAIN f.children[n] : f.children[n][i].node \in f.nodes
    PROVE  \E rank \in [f.nodes -> 1 .. Cardinality(f.nodes)] :
              \A n \in f.nodes : \A i \in DOMAIN f.children[n] :
                  rank[n] < rank[f.children[n][i].node]
<1> DEFINE N == Cardinality(f.nodes)
           Final(S, depth) == \A n \in S : \A i \in DOMAIN f.children[n] :
                                /\ f.children[n][i].node \in S
                                /\ depth[f.children[n][i].node] < depth[n]
           Found(k) == \E S \in SUBSET f.nodes : \E depth \in [S -> 1 .. k] :
                          Cardinality(S) = k /\ Final(S, depth)
           Bad == { k \in 0 .. N : ~ Found(k) }
<1>1. N \in Nat
  BY FS_CardinalityType
<1>2. ASSUME Bad # {} PROVE FALSE
  <2>1. PICK k \in Bad : \A j \in Bad : k <= j
    <3>1. Bad \in SUBSET Nat
      OBVIOUS
    <3> HIDE DEF Bad
    <3> QED
      BY <1>2, <3>1, HasLeast
  <2>2. k \in 0 .. N /\ ~ Found(k)
    BY <2>1
  <2>3. k # 0
    <3>1. Found(0)
      <4>1. {} \in SUBSET f.nodes /\ Cardinality({}) = 0
        BY FS_EmptySet
      <4>2. [n \in {} |-> 1] \in [{} -> 1 .. 0] /\ Final({}, [n \in {} |-> 1])
        OBVIOUS
      <4> QED
        BY <4>1, <4>2
    <3> QED
      BY <2>2, <3>1
  <2>4. k - 1 \in 0 .. N /\ k - 1 \in Nat /\ k \in Nat
    BY <1>1, <2>2, <2>3
  <2>5. Found(k - 1)
    <3>1. k - 1 \notin Bad
      BY <2>1, <2>2, <2>4
    <3> QED
      BY <2>4, <3>1
  <2>6. PICK S \in SUBSET f.nodes : \E depth \in [S -> 1 .. k - 1] :
                          Cardinality(S) = k - 1 /\ Final(S, depth)
    BY <2>5
  <2>7. PICK depth \in [S -> 1 .. k - 1] : Cardinality(S) = k - 1 /\ Final(S, depth)
    BY <2>6
  <2>8. IsFiniteSet(S)
    BY FS_Subset
  <2>9. f.nodes \ S # {}
    <3>1. S # f.nodes
      BY <1>1, <2>2, <2>4, <2>7
    <3> QED
      BY <3>1
  <2>10. PICK n \in f.nodes \ S : \A i \in DOMAIN f.children[n] :
                                     f.children[n][i].node \notin f.nodes \ S
    BY <2>9 DEF Acyclic
  <2> DEFINE T == S \cup {n}
             deeper == [m \in T |-> IF m = n THEN k ELSE depth[m]]
  <2>11. T \in SUBSET f.nodes /\ Cardinality(T) = k
    <3>1. Cardinality(S \cup {n}) = Cardinality(S) + 1
      BY <2>8, <2>10, FS_AddElement
    <3> QED
      BY <2>4, <2>7, <3>1
  <2>12. deeper \in [T -> 1 .. k]
    BY <2>4
  <2>13. Final(T, deeper)
    <3> SUFFICES ASSUME NEW m \in T, NEW i \in DOMAIN f.children[m]
                 PROVE  /\ f.children[m][i].node \in T
                        /\ deeper[f.children[m][i].node] < deeper[m]
      OBVIOUS
    <3> DEFINE c == f.children[m][i].node
    <3>1. c \in S /\ c # n
      BY <2>7, <2>10
    <3>2. deeper[c] = depth[c] /\ depth[c] \in 1 .. k - 1
      BY <3>1
    <3>3. CASE m = n
      BY <2>4, <3>1, <3>2, <3>3
    <3>4. CASE m # n
      <4>1. depth[c] < depth[m]
        BY <2>7, <3>4
      <4> QED
        BY <3>1, <3>2, <3>4, <4>1
    <3> QED
      BY <3>3, <3>4
  <2> HIDE DEF T, deeper
  <2>14. Found(k)
    BY <2>11, <2>12, <2>13
  <2> QED
    BY <2>2, <2>14
<1>3. Found(N)
  <2>1. N \in 0 .. N
    BY <1>1
  <2> QED
    BY <1>2, <2>1
<1>4. PICK S \in SUBSET f.nodes : \E depth \in [S -> 1 .. N] : Cardinality(S) = N /\ Final(S, depth)
  BY <1>3
<1>5. S = f.nodes
  BY <1>4, FS_Subset
<1>6. PICK depth \in [f.nodes -> 1 .. N] : Final(f.nodes, depth)
  BY <1>4, <1>5
<1> DEFINE rank == [n \in f.nodes |-> N + 1 - depth[n]]
<1>7. rank \in [f.nodes -> 1 .. N]
  BY <1>1
<1>8. ASSUME NEW n \in f.nodes, NEW i \in DOMAIN f.children[n]
      PROVE  rank[n] < rank[f.children[n][i].node]
  <2> DEFINE c == f.children[n][i].node
  <2>1. c \in f.nodes /\ depth[c] < depth[n]
    BY <1>6
  <2>2. depth[c] \in 1 .. N /\ depth[n] \in 1 .. N
    BY <2>1
  <2>3. rank[n] = N + 1 - depth[n] /\ rank[c] = N + 1 - depth[c]
    BY <2>1
  <2> QED
    BY <1>1, <2>1, <2>2, <2>3
<1> QED
  BY <1>7, <1>8

\* the paths on from n, when w[m] is the number of those from m
PathsBehind(children, w, n) ==
    Total(DOMAIN children[n], [i \in DOMAIN children[n] |-> w[children[n][i].node]])

HasRanks(nodes, children) ==
    \E m \in Nat : \E rank \in [nodes -> 1 .. m] : \A n \in nodes :
        /\ IsFiniteSet(DOMAIN children[n])
        /\ \A i \in DOMAIN children[n] :
              children[n][i].node \in nodes /\ rank[n] < rank[children[n][i].node]

\* the recursive function that counts paths is one
LEMMA PathsToFacts ==
    ASSUME NEW nodes, NEW children, NEW joins, HasRanks(nodes, children), NEW t
    PROVE  /\ PathsTo(t, nodes, children, joins) \in [nodes -> Nat]
           /\ \A n \in nodes : PathsTo(t, nodes, children, joins)[n] =
                 IF n = t THEN 1 ELSE IF n \in joins THEN 0
                 ELSE PathsBehind(children, PathsTo(t, nodes, children, joins), n)
<1> DEFINE Sum(to, n) == Total(DOMAIN children[n],
                               [i \in DOMAIN children[n] |-> to[children[n][i].node]])
           Value(to, n) == IF n = t THEN 1 ELSE IF n \in joins THEN 0 ELSE Sum(to, n)
           p == PathsTo(t, nodes, children, joins)
<1>1. PICK m \in Nat : \E rank \in [nodes -> 1 .. m] : \A n \in nodes :
        /\ IsFiniteSet(DOMAIN children[n])
        /\ \A i \in DOMAIN children[n] :
              children[n][i].node \in nodes /\ rank[n] < rank[children[n][i].node]
  BY DEF HasRanks
<1>2. PICK rank \in [nodes -> 1 .. m] : \A n \in nodes :
        /\ IsFiniteSet(DOMAIN children[n])
        /\ \A i \in DOMAIN children[n] :
              children[n][i].node \in nodes /\ rank[n] < rank[children[n][i].node]
  BY <1>1
<1>3. ASSUME NEW n \in nodes, NEW to, \A i \in DOMAIN children[n] : to[children[n][i].node] \in Nat
      PROVE  Value(to, n) \in Nat
  <2> DEFINE w == [i \in DOMAIN children[n] |-> to[children[n][i].node]]
  <2>1. \A i \in DOMAIN children[n] : w[i] \in Nat
    BY <1>3
  <2> HIDE DEF w
  <2>2. Total(DOMAIN children[n], w) \in Nat
    BY <1>2, <2>1, UnitsFinite
  <2> QED
    BY <2>2 DEF w
<1>4. ASSUME NEW n \in nodes, NEW to, NEW as,
             \A i \in DOMAIN children[n] : to[children[n][i].node] = as[children[n][i].node]
      PROVE  Value(to, n) = Value(as, n)
  <2> DEFINE v == [i \in DOMAIN children[n] |-> to[children[n][i].node]]
             w == [i \in DOMAIN children[n] |-> as[children[n][i].node]]
  <2>1. \A i \in DOMAIN children[n] : v[i] = w[i]
    BY <1>4
  <2> HIDE DEF v, w
  <2>2. Total(DOMAIN children[n], v) = Total(DOMAIN children[n], w)
    BY <2>1, TotalSame
  <2> QED
    BY <2>2 DEF v, w
<1> HIDE DEF Value
<1> DEFINE From(k, to) == \A n \in nodes : rank[n] > m - k => to[n] = Value(to, n)
           Bad == { k \in 0 .. m : ~ \E to \in [nodes -> Nat] : From(k, to) }
<1>5. ASSUME Bad # {} PROVE FALSE
  <2>1. PICK k \in Bad : \A j \in Bad : k <= j
    <3>1. Bad \in SUBSET Nat
      OBVIOUS
    <3> HIDE DEF Bad
    <3> QED
      BY <1>5, <3>1, HasLeast
  <2>2. k \in 0 .. m /\ ~ \E to \in [nodes -> Nat] : From(k, to)
    BY <2>1
  <2>3. k # 0
    <3> DEFINE zero == [n \in nodes |-> 0]
    <3>1. zero \in [nodes -> Nat]
      OBVIOUS
    <3>2. From(0, zero)
      OBVIOUS
    <3> HIDE DEF zero, From
    <3> QED
      BY <2>2, <3>1, <3>2
  <2>4. k - 1 \in 0 .. m /\ k \in Nat
    BY <2>2, <2>3
  <2>5. PICK to \in [nodes -> Nat] : From(k - 1, to)
    <3>1. k - 1 \notin Bad
      <4> HIDE DEF Bad
      <4>1. ~ (k <= k - 1)
        BY <2>4
      <4> QED
        BY <2>1, <4>1
    <3> QED
      BY <2>4, <3>1
  <2> DEFINE next == [n \in nodes |-> IF rank[n] > m - (k - 1) THEN to[n] ELSE Value(to, n)]
  <2>6. \A n \in nodes : Value(to, n) \in Nat
    BY <1>2, <1>3
  <2>7. next \in [nodes -> Nat]
    BY <2>6
  <2>8. ASSUME NEW n \in nodes, rank[n] > m - k PROVE next[n] = Value(next, n)
    <3>1. ASSUME NEW i \in DOMAIN children[n]
          PROVE  next[children[n][i].node] = to[children[n][i].node]
      <4> DEFINE c == children[n][i].node
      <4>1. c \in nodes /\ rank[n] < rank[c]
        BY <1>2
      <4>2. rank[n] \in 1 .. m /\ rank[c] \in 1 .. m
        BY <4>1
      <4>3. rank[c] > m - (k - 1)
        BY <2>4, <2>8, <4>1, <4>2
      <4> QED
        BY <4>1, <4>3
    <3> HIDE DEF next
    <3>2. Value(next, n) = Value(to, n)
      BY <1>4, <3>1
    <3>3. rank[n] > m - (k - 1) => to[n] = Value(to, n)
      BY <2>5
    <3> QED
      BY <3>2, <3>3 DEF next
  <2>9. From(k, next)
    BY <2>8
  <2> HIDE DEF From, next
  <2> QED
    BY <2>2, <2>7, <2>9
<1>6. PICK to \in [nodes -> Nat] : From(m, to)
  <2>1. m \in 0 .. m
    OBVIOUS
  <2> HIDE DEF From
  <2> QED
    BY <1>5, <2>1
<1>7. to = [n \in nodes |-> Value(to, n)]
  <2>1. \A n \in nodes : to[n] = Value(to, n)
    <3>1. \A n \in nodes : rank[n] > m - m
      <4>1. \A n \in nodes : rank[n] \in 1 .. m
        OBVIOUS
      <4> QED
        BY <4>1
    <3> QED
      BY <1>6, <3>1
  <2> QED
    BY <2>1
<1>8. p = [n \in nodes |-> Value(p, n)]
  <2>1. p = CHOOSE a : a = [n \in nodes |-> Value(a, n)]
    BY DEF PathsTo, Value
  <2> HIDE DEF p
  <2> QED
    BY <1>7, <2>1
<1>9. \A n \in nodes : p[n] = Value(p, n)
  <2> HIDE DEF p
  <2>1. \A n \in nodes : [k \in nodes |-> Value(p, k)][n] = Value(p, n)
    OBVIOUS
  <2> QED
    BY <1>8, <2>1
<1>10. \A n \in nodes : p[n] \in Nat
  <2> DEFINE Odd == { n \in nodes : p[n] \notin Nat }
  <2>1. ASSUME Odd # {} PROVE FALSE
    <3>1. PICK n \in Odd : \A k \in Odd : rank[k] <= rank[n]
      <4>1. Odd \in SUBSET nodes
        OBVIOUS
      <4> HIDE DEF Odd
      <4> QED
        BY <2>1, <4>1, HighestRank
    <3>2. ASSUME NEW i \in DOMAIN children[n] PROVE p[children[n][i].node] \in Nat
      <4> DEFINE c == children[n][i].node
      <4>1. c \in nodes /\ rank[n] < rank[c] /\ n \in nodes
        BY <1>2, <3>1
      <4>2. rank[n] \in 1 .. m /\ rank[c] \in 1 .. m
        BY <4>1
      <4>3. ~ (rank[c] <= rank[n])
        BY <4>1, <4>2
      <4> HIDE DEF p
      <4> QED
        BY <3>1, <4>1, <4>3
    <3> HIDE DEF p
    <3>3. n \in nodes /\ Value(p, n) \in Nat
      BY <1>3, <3>1, <3>2
    <3> QED
      BY <1>9, <3>1, <3>3
  <2> QED
    BY <2>1
<1>11. p \in [nodes -> Nat]
  <2> HIDE DEF p
  <2> DEFINE q == [n \in nodes |-> Value(p, n)]
  <2>1. p = q /\ DOMAIN q = nodes
    BY <1>8
  <2>2. p = [n \in nodes |-> p[n]]
    BY <1>8, <1>9, <2>1
  <2> QED
    BY <1>10, <2>2
<1> QED
  BY <1>9, <1>11 DEF Value, PathsBehind
=============================================================================
