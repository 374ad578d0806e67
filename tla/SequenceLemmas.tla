---------------------------- MODULE SequenceLemmas ----------------------------
(***************************************************************************)
(* Facts about numbers and sequences that several proofs need.             *)
(*                                                                         *)
(* Induction is stated with a set in the place of a predicate: the provers *)
(* instantiate a set by the conditions it was defined with, an operator    *)
(* they cannot.  A recursive function f[i \in 0..n] is to them the CHOOSE  *)
(* of its equation; that the equation has a solution is RecursionExists.   *)
(***************************************************************************)
EXTENDS Naturals, Sequences, FiniteSets, Functions, SequencesExt,
        FiniteSetTheorems, SequenceTheorems, WellFoundedInduction, TLAPS

\* Every set of numbers that is not empty has a least one.
LEMMA LeastNumber ==
  ASSUME NEW S \in SUBSET Nat, S # {}
  PROVE  \E n \in S : \A m \in S : n <= m
<1>1. PICK n \in S : \A m \in S : ~(<<m, n>> \in OpToRel(<, Nat))
  BY NatLessThanWellFounded, WFMin
<1>2. \A m \in S : ~(m < n)
  BY <1>1 DEF OpToRel
<1> QED
  BY <1>2

\* Induction up to n.
LEMMA Induction ==
  ASSUME NEW n \in Nat, NEW T, 0 \in T,
         \A i \in 1..n : i - 1 \in T => i \in T
  PROVE  0..n \subseteq T
<1> DEFINE S == (0..n) \ T
<1> SUFFICES ASSUME S # {} PROVE FALSE
  OBVIOUS
<1>1. PICK i \in S : \A m \in S : i <= m
  <2>1. S \in SUBSET Nat
    OBVIOUS
  <2> HIDE DEF S
  <2> QED
    BY <2>1, LeastNumber
<1>2. i \in 1..n /\ i - 1 \in 0..n /\ ~(i <= i - 1)
  OBVIOUS
<1> QED
  BY <1>1, <1>2

Starts(f, k, base, step) == f[0] = base /\ \A i \in 1..k : f[i] = step[<<f[i - 1], i>>]

\* Going on from one value to the next with a function, n times, is possible.
LEMMA RecursionExists ==
  ASSUME NEW n \in Nat, NEW S, NEW base \in S, NEW step \in [S \X (1..n) -> S]
  PROVE  \E f \in [0..n -> S] : Starts(f, n, base, step)
<1> DEFINE T == {k \in 0..n : \E f \in [0..k -> S] : Starts(f, k, base, step)}
<1>1. 0 \in T
  <2> DEFINE f == [i \in 0..0 |-> base]
  <2>1. f \in [0..0 -> S] /\ f[0] = base /\ 1..0 = {} /\ 0 \in 0..n
    OBVIOUS
  <2> HIDE DEF f
  <2> QED
    BY <2>1 DEF Starts
<1>2. ASSUME NEW k \in 1..n, k - 1 \in T PROVE k \in T
  <2>1. PICK f \in [0..(k - 1) -> S] : Starts(f, k - 1, base, step)
    BY <1>2
  <2> DEFINE g == [i \in 0..k |-> IF i = k THEN step[<<f[k - 1], k>>] ELSE f[i]]
  <2>2. f[k - 1] \in S /\ \A i \in 0..k : i # k => i \in 0..(k - 1)
    OBVIOUS
  <2>3. g \in [0..k -> S]
    BY <2>2
  <2>4. g[0] = base
    BY <2>1 DEF Starts
  <2>5. ASSUME NEW i \in 1..k PROVE g[i] = step[<<g[i - 1], i>>]
    <3>1. i \in 0..k /\ i - 1 \in 0..k /\ i - 1 # k
      OBVIOUS
    <3>2. g[i - 1] = f[i - 1]
      BY <3>1
    <3>3. CASE i = k
      BY <3>1, <3>2, <3>3
    <3>4. CASE i # k
      <4>1. i \in 1..(k - 1)
        BY <3>4
      <4> QED
        BY <2>1, <3>1, <3>2, <3>4, <4>1 DEF Starts
    <3> QED
      BY <3>3, <3>4
  <2> HIDE DEF g
  <2> QED
    BY <2>3, <2>4, <2>5 DEF Starts
<1>3. 0..n \subseteq T
  <2> HIDE DEF T
  <2> QED
    BY <1>1, <1>2, Induction
<1>4. n \in T
  BY <1>3
<1> QED
  BY <1>4

-----------------------------------------------------------------------------
(* Counting                                                                  *)

\* The numbers of a set up to i can be counted.
LEMMA CountedFinite ==
  ASSUME NEW P, NEW i \in Nat
  PROVE  IsFiniteSet(P \cap (1..i)) /\ Cardinality(P \cap (1..i)) \in Nat
<1>1. IsFiniteSet(1..i)
  BY FS_Interval
<1>2. IsFiniteSet(P \cap (1..i))
  BY <1>1, FS_Subset
<1> QED
  BY <1>2, FS_CardinalityType

\* One number further there is one more, or as many.
LEMMA CountNext ==
  ASSUME NEW P, NEW i \in Nat \ {0}
  PROVE  /\ i \in P => Cardinality(P \cap (1..i)) = Cardinality(P \cap (1..(i - 1))) + 1
         /\ i \notin P => Cardinality(P \cap (1..i)) = Cardinality(P \cap (1..(i - 1)))
<1>1. IsFiniteSet(P \cap (1..(i - 1))) /\ i \notin P \cap (1..(i - 1))
  BY CountedFinite
<1>2. i \in P => P \cap (1..i) = (P \cap (1..(i - 1))) \cup {i}
  OBVIOUS
<1>3. i \notin P => P \cap (1..i) = P \cap (1..(i - 1))
  OBVIOUS
<1> QED
  BY <1>1, <1>2, <1>3, FS_AddElement

\* The first n members of a sequence without repetition are n.
LEMMA CountFirst ==
  ASSUME NEW S, NEW q \in Seq(S), NEW n \in 0..Len(q),
         \A i, j \in 1..Len(q) : q[i] = q[j] => i = j
  PROVE  /\ IsFiniteSet({q[i] : i \in 1..n})
         /\ Cardinality({q[i] : i \in 1..n}) = n
<1> DEFINE T == {q[i] : i \in 1..n}
<1> DEFINE f == [i \in 1..n |-> q[i]]
<1>0. n \in Nat /\ Len(q) \in Nat /\ n <= Len(q)
  OBVIOUS
<1>1. f \in Bijection(1..n, T)
  <2>1. f \in [1..n -> T]
    OBVIOUS
  <2>2. \A i, j \in 1..n : f[i] = f[j] => i = j
    BY <1>0
  <2>3. \A x \in T : \E i \in 1..n : f[i] = x
    OBVIOUS
  <2> QED
    BY <2>1, <2>2, <2>3, Zenon DEF Bijection, Injection, Surjection, IsInjective
<1>2. ExistsBijection(1..n, T)
  BY <1>1 DEF ExistsBijection
<1>3. IsFiniteSet(T)
  BY <1>0, <1>2, FS_NatBijection
<1>4. Cardinality(T) = n
  BY <1>0, <1>2, FS_CountingElements
<1> QED
  BY <1>3, <1>4

\* A set that f numbers from 1 to n has n elements.
LEMMA CountNumbered ==
  ASSUME NEW S, NEW n \in Nat, NEW f \in [S -> 1..n],
         \A x, y \in S : f[x] = f[y] => x = y,
         \A k \in 1..n : \E x \in S : f[x] = k
  PROVE  Cardinality(S) = n
<1> DEFINE g == [k \in 1..n |-> CHOOSE x \in S : f[x] = k]
<1>1. \A k \in 1..n : g[k] \in S /\ f[g[k]] = k
  OBVIOUS
<1>2. \A x \in S : g[f[x]] = x
  BY <1>1
<1>3. g \in Bijection(1..n, S)
  <2>1. g \in [1..n -> S]
    BY <1>1
  <2>2. \A k, l \in 1..n : g[k] = g[l] => k = l
    BY <1>1
  <2>3. \A x \in S : \E k \in 1..n : g[k] = x
    BY <1>2
  <2> HIDE DEF g
  <2> QED
    BY <2>1, <2>2, <2>3 DEF Bijection, Injection, Surjection, IsInjective
<1>4. ExistsBijection(1..n, S)
  BY <1>3 DEF ExistsBijection
<1> QED
  BY <1>4, FS_CountingElements

-----------------------------------------------------------------------------
(* Sequences                                                                 *)

\* What it is to begin with c.
LEMMA PrefixOfOne ==
  ASSUME NEW S, NEW s \in Seq(S), NEW c
  PROVE  IsPrefix(<<c>>, s) <=> Len(s) > 0 /\ s[1] = c
<1>1. Len(<<c>>) = 1 /\ <<c>>[1] = c
  OBVIOUS
<1>2. SubSeq(<<c>>, 1, 1) = <<c>>
  <2>1. <<c>> \in Seq({c})
    OBVIOUS
  <2> QED
    BY <1>1, <2>1, SubSeqFull
<1>3. Len(s) \in Nat /\ (1 <= Len(s) <=> Len(s) > 0)
  OBVIOUS
<1>4. ASSUME Len(s) > 0 PROVE SubSeq(s, 1, 1) = <<s[1]>>
  <2>1. \A k \in 1..1 : s[k] \in S /\ k = 1 /\ 1 + k - 1 = k
    BY <1>4
  <2>2. 1 \in Int /\ (IF 1 <= 1 THEN 1 - 1 + 1 ELSE 0) = 1
    OBVIOUS
  <2>3. /\ SubSeq(s, 1, 1) \in Seq(S) /\ Len(SubSeq(s, 1, 1)) = 1
        /\ SubSeq(s, 1, 1)[1] = s[1]
    BY <1>3, <1>4, <2>1, <2>2, SubSeqProperties
  <2>4. <<s[1]>> \in Seq(S) /\ Len(<<s[1]>>) = 1 /\ <<s[1]>>[1] = s[1]
    BY <2>1
  <2>5. \A k \in 1..1 : k = 1
    OBVIOUS
  <2> QED
    BY <2>3, <2>4, <2>5, SeqEqual, Zenon
<1>5. <<c>> = <<s[1]>> <=> s[1] = c
  OBVIOUS
<1> QED
  BY <1>1, <1>2, <1>3, <1>4, <1>5, Zenon DEF IsPrefix

\* Dropping one element leaves a sequence of the rest.
LEMMA RemoveAtType ==
  ASSUME NEW S, NEW q \in Seq(S), NEW i \in 1..Len(q)
  PROVE  RemoveAt(q, i) \in Seq(S)
  BY SubSeqProperties, ConcatProperties, LenProperties DEF RemoveAt

\* Popping a stack yields an element and a stack.
LEMMA PopType ==
  ASSUME NEW S, NEW q \in Seq(S), q # <<>>
  PROVE  Last(q) \in S /\ Front(q) \in Seq(S)
  BY SubSeqProperties, LenProperties, ElementOfSeq DEF Last, Front

\* Of elements that are all different popping removes exactly the last.
LEMMA PopSet ==
  ASSUME NEW S, NEW q \in Seq(S), q # <<>>, IsInjective(q)
  PROVE  /\ IsInjective(Front(q))
         /\ Last(q) \in ToSet(q)
         /\ ToSet(Front(q)) = ToSet(q) \ {Last(q)}
<1> DEFINE n == Len(q)
<1>1. n \in Nat \ {0} /\ DOMAIN q = 1..n
  BY LenProperties, EmptySeq
<1>2. \A i \in 1..(n - 1) : q[i] \in S
  BY <1>1, ElementOfSeq
<1>3. /\ Front(q) \in Seq(S) /\ Len(Front(q)) = n - 1
      /\ \A i \in 1..(n - 1) : Front(q)[i] = q[i]
  BY <1>1, <1>2, SubSeqProperties DEF Front
<1>4. DOMAIN Front(q) = 1..(n - 1)
  BY <1>3, LenProperties
<1> QED
  BY <1>1, <1>3, <1>4 DEF IsInjective, ToSet, Last

\* Pushing an element that is not there yet adds exactly that element.
LEMMA PushSet ==
  ASSUME NEW S, NEW q \in Seq(S), NEW e \in S
  PROVE  /\ ToSet(Append(q, e)) = ToSet(q) \cup {e}
         /\ IsInjective(q) /\ e \notin ToSet(q) => IsInjective(Append(q, e))
<1>1. /\ Len(q) \in Nat /\ DOMAIN q = 1..Len(q)
      /\ DOMAIN Append(q, e) = 1..(Len(q) + 1)
      /\ \A i \in 1..Len(q) : Append(q, e)[i] = q[i]
      /\ Append(q, e)[Len(q) + 1] = e
  BY AppendProperties, LenProperties
<1> QED
  BY <1>1 DEF IsInjective, ToSet

\* Of elements that are all different the one removed is gone, and the others are left.
LEMMA RemoveOne ==
  ASSUME NEW S, NEW q \in Seq(S), NEW k \in 1..Len(q),
         \A i, j \in 1..Len(q) : q[i] = q[j] => i = j
  PROVE  /\ RemoveAt(q, k) \in Seq(S)
         /\ \A i \in 1..Len(RemoveAt(q, k)) :
              RemoveAt(q, k)[i] # q[k] /\ \E m \in 1..Len(q) : RemoveAt(q, k)[i] = q[m]
         /\ \A i, j \in 1..Len(RemoveAt(q, k)) :
              RemoveAt(q, k)[i] = RemoveAt(q, k)[j] => i = j
         /\ \A m \in 1..Len(q) :
              q[m] # q[k] => \E i \in 1..Len(RemoveAt(q, k)) : RemoveAt(q, k)[i] = q[m]
<1> DEFINE t == RemoveAt(q, k)
<1> DEFINE at(i) == IF i < k THEN i ELSE i + 1
<1>1. Len(q) \in Nat /\ k \in Nat /\ 1 <= k /\ k <= Len(q)
  OBVIOUS
<1>2. /\ SubSeq(q, 1, k - 1) \in Seq(S)
      /\ Len(SubSeq(q, 1, k - 1)) = k - 1
      /\ \A i \in 1..(k - 1) : SubSeq(q, 1, k - 1)[i] = q[i]
  BY <1>1
<1>3. /\ SubSeq(q, k + 1, Len(q)) \in Seq(S)
      /\ Len(SubSeq(q, k + 1, Len(q))) = Len(q) - k
      /\ \A i \in 1..(Len(q) - k) : SubSeq(q, k + 1, Len(q))[i] = q[k + i]
  BY <1>1
<1>4. /\ t \in Seq(S)
      /\ Len(t) = Len(q) - 1
      /\ \A i \in 1..(Len(q) - 1) : t[i] = q[at(i)]
  <2> DEFINE a == SubSeq(q, 1, k - 1)
             b == SubSeq(q, k + 1, Len(q))
  <2>1. t = a \o b
    BY DEF RemoveAt
  <2> HIDE DEF t, a, b
  <2>2. a \in Seq(S) /\ Len(a) = k - 1 /\ \A i \in 1..(k - 1) : a[i] = q[i]
    BY <1>2 DEF a
  <2>3. b \in Seq(S) /\ Len(b) = Len(q) - k /\ \A i \in 1..(Len(q) - k) : b[i] = q[k + i]
    BY <1>3 DEF b
  <2>4. /\ t \in Seq(S)
        /\ Len(t) = Len(a) + Len(b)
        /\ \A i \in 1..(Len(a) + Len(b)) :
             t[i] = IF i <= Len(a) THEN a[i] ELSE b[i - Len(a)]
    <3>1. a \in Seq(S) /\ b \in Seq(S)
      BY <2>2, <2>3
    <3>2. /\ a \o b \in Seq(S)
          /\ Len(a \o b) = Len(a) + Len(b)
          /\ \A i \in 1..(Len(a) + Len(b)) :
               (a \o b)[i] = IF i <= Len(a) THEN a[i] ELSE b[i - Len(a)]
      BY <3>1
    <3> QED
      BY <2>1, <3>2
  <2>5. Len(t) = Len(q) - 1
    BY <1>1, <2>2, <2>3, <2>4
  <2>6. ASSUME NEW i \in 1..(Len(q) - 1)
        PROVE  t[i] = q[at(i)]
    <3>1. i \in Nat /\ 1 <= i /\ i \in 1..(Len(a) + Len(b))
      BY <1>1, <2>2, <2>3
    <3>2. CASE i < k
      <4>1. t[i] = a[i]
        BY <1>1, <2>2, <2>4, <3>1, <3>2
      <4> QED
        BY <1>1, <2>2, <3>1, <3>2, <4>1
    <3>3. CASE ~(i < k)
      <4>1. t[i] = b[i - (k - 1)]
        BY <1>1, <2>2, <2>4, <3>1, <3>3
      <4>2. i - (k - 1) \in 1..(Len(q) - k) /\ k + (i - (k - 1)) = i + 1
        BY <1>1, <2>6, <3>1, <3>3
      <4>3. b[i - (k - 1)] = q[k + (i - (k - 1))]
        BY <2>3, <4>2
      <4> QED
        BY <3>3, <4>1, <4>2, <4>3
    <3> QED
      BY <3>2, <3>3
  <2> QED
    BY <2>4, <2>5, <2>6
<1>5. /\ \A i \in 1..(Len(q) - 1) : at(i) \in 1..Len(q) /\ at(i) # k
      /\ \A i, j \in 1..(Len(q) - 1) : at(i) = at(j) => i = j
      /\ \A m \in 1..Len(q) : m < k => m \in 1..(Len(q) - 1) /\ at(m) = m
      /\ \A m \in 1..Len(q) : k < m => m - 1 \in 1..(Len(q) - 1) /\ at(m - 1) = m
      /\ \A m \in 1..Len(q) : m # k => m < k \/ k < m
  BY <1>1
<1> HIDE DEF t, at
<1>6. \A i \in 1..Len(t) : t[i] # q[k] /\ \E m \in 1..Len(q) : t[i] = q[m]
  BY <1>1, <1>4, <1>5
<1>7. \A i, j \in 1..Len(t) : t[i] = t[j] => i = j
  BY <1>1, <1>4, <1>5
<1>8. ASSUME NEW m \in 1..Len(q), q[m] # q[k]
      PROVE  \E i \in 1..Len(t) : t[i] = q[m]
  <2>1. m < k \/ k < m
    BY <1>5, <1>8
  <2>2. CASE m < k
    BY <1>4, <1>5, <2>2
  <2>3. CASE k < m
    BY <1>4, <1>5, <2>3
  <2> QED
    BY <2>1, <2>2, <2>3
<1> QED
  BY <1>4, <1>6, <1>7, <1>8 DEF t

\* Removing an element from among others that are all different.
LEMMA RemoveSet ==
  ASSUME NEW S, NEW q \in Seq(S), NEW k \in 1..Len(q), IsInjective(q)
  PROVE  /\ RemoveAt(q, k) \in Seq(S) /\ IsInjective(RemoveAt(q, k))
         /\ ToSet(RemoveAt(q, k)) = ToSet(q) \ {q[k]}
<1> DEFINE t == RemoveAt(q, k)
<1>1. Len(q) \in Nat /\ DOMAIN q = 1..Len(q)
  OBVIOUS
<1>2. \A i, j \in 1..Len(q) : q[i] = q[j] => i = j
  BY <1>1 DEF IsInjective
<1>3. /\ t \in Seq(S)
      /\ \A i \in 1..Len(t) : t[i] # q[k] /\ \E m \in 1..Len(q) : t[i] = q[m]
      /\ \A i, j \in 1..Len(t) : t[i] = t[j] => i = j
      /\ \A m \in 1..Len(q) : q[m] # q[k] => \E i \in 1..Len(t) : t[i] = q[m]
  BY <1>2, RemoveOne
<1> HIDE DEF t
<1>4. DOMAIN t = 1..Len(t)
  BY <1>3
<1>5. IsInjective(t)
  BY <1>3, <1>4 DEF IsInjective
<1>6. ToSet(t) = ToSet(q) \ {q[k]}
  <2>1. \A x : x \in ToSet(q) <=> \E m \in 1..Len(q) : x = q[m]
    BY <1>1 DEF ToSet
  <2>2. \A x : x \in ToSet(t) <=> \E i \in 1..Len(t) : x = t[i]
    BY <1>4 DEF ToSet
  <2>3. \A x : x \in ToSet(t) => x \in ToSet(q) /\ x # q[k]
    BY <1>3, <2>1, <2>2
  <2>4. \A x : x \in ToSet(q) /\ x # q[k] => x \in ToSet(t)
    BY <1>3, <2>1, <2>2
  <2> QED
    BY <2>3, <2>4
<1> QED
  BY <1>3, <1>5, <1>6 DEF t

\* The same of the first.
LEMMA TailSet ==
  ASSUME NEW S, NEW q \in Seq(S), q # <<>>, IsInjective(q)
  PROVE  /\ Tail(q) \in Seq(S) /\ IsInjective(Tail(q))
         /\ ToSet(Tail(q)) = ToSet(q) \ {Head(q)}
<1>1. /\ Len(q) \in Nat /\ Len(q) >= 1 /\ DOMAIN q = 1..Len(q) /\ Head(q) = q[1]
      /\ Tail(q) \in Seq(S) /\ Len(Tail(q)) = Len(q) - 1
      /\ DOMAIN Tail(q) = 1..(Len(q) - 1)
      /\ \A i \in 1..(Len(q) - 1) : Tail(q)[i] = q[i + 1]
  BY HeadTailProperties
<1>2. \A i \in 1..(Len(q) - 1) : i + 1 \in 1..Len(q) /\ i + 1 # 1
  BY <1>1
<1>3. \A m \in 1..Len(q) : m # 1 => m - 1 \in 1..(Len(q) - 1) /\ (m - 1) + 1 = m
  BY <1>1
<1>4. \A i, j \in 1..Len(q) : q[i] = q[j] => i = j
  BY <1>1 DEF IsInjective
<1>5. \A i, j \in 1..(Len(q) - 1) : Tail(q)[i] = Tail(q)[j] => i = j
  BY <1>1, <1>2, <1>4
<1>6. \A m \in 1..Len(q) : m # 1 => \E i \in 1..(Len(q) - 1) : Tail(q)[i] = q[m]
  BY <1>1, <1>3
<1>7. \A i \in 1..(Len(q) - 1) : Tail(q)[i] # q[1] /\ \E m \in 1..Len(q) : Tail(q)[i] = q[m]
  <2> TAKE i \in 1..(Len(q) - 1)
  <2>1. Tail(q)[i] = q[i + 1] /\ i + 1 \in 1..Len(q) /\ 1 \in 1..Len(q)
    BY <1>1, <1>2
  <2> QED
    BY <1>2, <1>4, <2>1
<1>8. IsInjective(Tail(q))
  BY <1>1, <1>5 DEF IsInjective
<1>9. ToSet(Tail(q)) = ToSet(q) \ {Head(q)}
  <2>1. \A x : x \in ToSet(q) <=> \E m \in 1..Len(q) : x = q[m]
    BY <1>1 DEF ToSet
  <2>2. \A x : x \in ToSet(Tail(q)) <=> \E i \in 1..(Len(q) - 1) : x = Tail(q)[i]
    BY <1>1 DEF ToSet
  <2> QED
    BY <1>1, <1>6, <1>7, <2>1, <2>2
<1> QED
  BY <1>1, <1>8, <1>9

\* done[i] is what of the first i elements of s is in T, in their order.
Picks(done, s, T) ==
  /\ done[0] = <<>>
  /\ \A i \in 1..Len(s) :
       done[i] = IF s[i] \in T THEN Append(done[i - 1], s[i]) ELSE done[i - 1]

\* Each element of p is in T, among the first i of s, and all those are in p, in the order of s.
PickedFrom(p, s, T, i) ==
  /\ \A k \in 1..Len(p) : \E m \in 1..i : p[k] = s[m] /\ s[m] \in T
  /\ \A m \in 1..i : s[m] \in T => \E k \in 1..Len(p) : p[k] = s[m]
  /\ \A k, l \in 1..Len(p) : k < l =>
       \E m \in 1..i : \E j \in 1..i : m < j /\ p[k] = s[m] /\ p[l] = s[j]

\* One element more.
LEMMA PickNext ==
  ASSUME NEW S, NEW s \in Seq(S), NEW T, NEW i \in 1..Len(s), NEW p \in Seq(S),
         PickedFrom(p, s, T, i - 1)
  PROVE  PickedFrom(IF s[i] \in T THEN Append(p, s[i]) ELSE p, s, T, i)
<1>0. /\ Len(p) \in Nat /\ i \in Nat /\ i \in 1..i
      /\ \A m \in 1..(i - 1) : m \in 1..i /\ m < i
      /\ \A m \in 1..i : m \in 1..(i - 1) \/ m = i
  OBVIOUS
<1>p. /\ \A k \in 1..Len(p) : \E m \in 1..(i - 1) : p[k] = s[m] /\ s[m] \in T
      /\ \A m \in 1..(i - 1) : s[m] \in T => \E k \in 1..Len(p) : p[k] = s[m]
  BY Zenon DEF PickedFrom
<1>1. CASE s[i] \notin T
  <2>1. \A k \in 1..Len(p) : \E m \in 1..i : p[k] = s[m] /\ s[m] \in T
    BY <1>0, <1>p, Zenon
  <2>2. \A m \in 1..i : s[m] \in T => \E k \in 1..Len(p) : p[k] = s[m]
    BY <1>0, <1>p, <1>1, Zenon
  <2>3. \A k, l \in 1..Len(p) : k < l =>
          \E m \in 1..i : \E j \in 1..i : m < j /\ p[k] = s[m] /\ p[l] = s[j]
    <3> SUFFICES ASSUME NEW k \in 1..Len(p), NEW l \in 1..Len(p), k < l
                 PROVE  \E m \in 1..i : \E j \in 1..i : m < j /\ p[k] = s[m] /\ p[l] = s[j]
      OBVIOUS
    <3>1. PICK m \in 1..(i - 1) : \E j \in 1..(i - 1) : m < j /\ p[k] = s[m] /\ p[l] = s[j]
      BY Zenon DEF PickedFrom
    <3> QED
      BY <1>0, <3>1, Zenon
  <2>4. PickedFrom(p, s, T, i)
    BY <2>1, <2>2, <2>3, Zenon DEF PickedFrom
  <2> QED
    BY <1>1, <2>4
<1>2. CASE s[i] \in T
  <2> DEFINE q == Append(p, s[i])
  <2>1. Len(q) = Len(p) + 1 /\ q[Len(p) + 1] = s[i] /\ \A k \in 1..Len(p) : q[k] = p[k]
    BY AppendProperties
  <2> HIDE DEF q
  <2>2. /\ \A k \in 1..Len(q) : k \in 1..Len(p) \/ k = Len(p) + 1
        /\ \A k \in 1..Len(p) : k \in 1..Len(q)
        /\ Len(p) + 1 \in 1..Len(q)
        /\ \A k, l \in 1..Len(q) : k < l => k \in 1..Len(p)
    BY <1>0, <2>1
  <2>3. \A k \in 1..Len(q) : \E m \in 1..i : q[k] = s[m] /\ s[m] \in T
    <3> TAKE k \in 1..Len(q)
    <3>1. CASE k \in 1..Len(p)
      <4>1. PICK m \in 1..(i - 1) : p[k] = s[m] /\ s[m] \in T
        BY <1>p, <3>1, Zenon
      <4>2. m \in 1..i /\ q[k] = s[m]
        BY <1>0, <2>1, <3>1, <4>1, Zenon
      <4> QED
        BY <4>1, <4>2, Zenon
    <3>2. CASE k = Len(p) + 1
      BY <1>0, <1>2, <2>1, <3>2, Zenon
    <3> QED
      BY <2>2, <3>1, <3>2, Zenon
  <2>4. \A m \in 1..i : s[m] \in T => \E k \in 1..Len(q) : q[k] = s[m]
    <3> TAKE m \in 1..i
    <3>1. CASE m \in 1..(i - 1)
      BY <1>p, <2>1, <2>2, <3>1, Zenon
    <3>2. CASE m = i
      BY <2>1, <2>2, <3>2, Zenon
    <3> QED
      BY <1>0, <3>1, <3>2, Zenon
  <2>5. ASSUME NEW k \in 1..Len(q), NEW l \in 1..Len(q), k < l
        PROVE  \E m \in 1..i : \E j \in 1..i : m < j /\ q[k] = s[m] /\ q[l] = s[j]
    <3>1. k \in 1..Len(p) /\ q[k] = p[k]
      BY <2>1, <2>2, <2>5
    <3>2. CASE l \in 1..Len(p)
      <4>1. PICK m \in 1..(i - 1) : \E j \in 1..(i - 1) : m < j /\ p[k] = s[m] /\ p[l] = s[j]
        BY <2>5, <3>1, <3>2, Zenon DEF PickedFrom
      <4> QED
        BY <1>0, <2>1, <3>1, <3>2, <4>1, Zenon
    <3>3. CASE l = Len(p) + 1
      <4>1. PICK m \in 1..(i - 1) : p[k] = s[m]
        BY <3>1, Zenon DEF PickedFrom
      <4> QED
        BY <1>0, <2>1, <3>1, <3>3, <4>1, Zenon
    <3> QED
      BY <2>2, <3>2, <3>3
  <2>6. PickedFrom(q, s, T, i)
    BY <2>3, <2>4, <2>5, Zenon DEF PickedFrom
  <2> QED
    BY <1>2, <2>6 DEF q
<1> QED
  BY <1>1, <1>2

\* What has been picked from a sequence without repetitions has none either.
LEMMA PickedOnce ==
  ASSUME NEW S, NEW s \in Seq(S), IsInjective(s), NEW T, NEW done, Picks(done, s, T)
  PROVE  LET p == done[Len(s)]
         IN  /\ p \in Seq(S) /\ IsInjective(p) /\ ToSet(p) = ToSet(s) \cap T
             /\ PickedFrom(p, s, T, Len(s))
<1> DEFINE n == Len(s)
<1> DEFINE R == {i \in 0..n : done[i] \in Seq(S) /\ PickedFrom(done[i], s, T, i)}
<1>0. n \in Nat /\ \A i \in 1..n : s[i] \in S
  OBVIOUS
<1>1. 0 \in R
  <2>1. 0 \in 0..n /\ 1..0 = {} /\ <<>> \in Seq(S) /\ 1..Len(<<>>) = {}
    BY <1>0
  <2>2. PickedFrom(<<>>, s, T, 0)
    BY <2>1, Zenon DEF PickedFrom
  <2>3. done[0] = <<>>
    BY DEF Picks
  <2> QED
    BY <2>1, <2>2, <2>3, Zenon
<1>2. ASSUME NEW i \in 1..n, i - 1 \in R PROVE i \in R
  <2> DEFINE q == IF s[i] \in T THEN Append(done[i - 1], s[i]) ELSE done[i - 1]
  <2>1. i \in 0..n /\ done[i - 1] \in Seq(S) /\ s[i] \in S /\ PickedFrom(done[i - 1], s, T, i - 1)
    BY <1>0, <1>2
  <2>2. q \in Seq(S)
    BY <2>1, AppendProperties
  <2>3. PickedFrom(q, s, T, i)
    BY <2>1, PickNext, Zenon
  <2>4. done[i] = q
    BY Zenon DEF Picks
  <2> HIDE DEF q
  <2> QED
    BY <2>1, <2>2, <2>3, <2>4, Zenon
<1> HIDE DEF R
<1>3. 0..n \subseteq R
  BY <1>0, <1>1, <1>2, Induction
<1> DEFINE p == done[n]
<1>4. p \in Seq(S) /\ PickedFrom(p, s, T, n)
  <2>1. n \in 0..n
    BY <1>0
  <2> QED
    BY <1>3, <2>1 DEF R
<1> HIDE DEF p
<1>5. Len(p) \in Nat /\ DOMAIN p = 1..Len(p) /\ DOMAIN s = 1..n
  BY <1>4
<1>6. \A m, j \in 1..n : m < j => s[m] # s[j]
  <2>1. \A m, j \in 1..n : m < j => m # j
    BY <1>0
  <2> QED
    BY <1>5, <2>1, Zenon DEF IsInjective
<1>7. IsInjective(p)
  <2>1. \A k, l \in 1..Len(p) : k < l => p[k] # p[l]
    <3> SUFFICES ASSUME NEW k \in 1..Len(p), NEW l \in 1..Len(p), k < l PROVE p[k] # p[l]
      OBVIOUS
    <3>1. PICK m \in 1..n : \E j \in 1..n : m < j /\ p[k] = s[m] /\ p[l] = s[j]
      BY <1>4, Zenon DEF PickedFrom
    <3> QED
      BY <1>6, <3>1, Zenon
  <2>2. \A k, l \in 1..Len(p) : k = l \/ k < l \/ l < k
    BY <1>5
  <2> QED
    BY <1>5, <2>1, <2>2, Zenon DEF IsInjective
<1>8. ToSet(p) = ToSet(s) \cap T
  <2>1. \A c : c \in ToSet(p) <=> \E k \in 1..Len(p) : c = p[k]
    BY <1>5 DEF ToSet
  <2>2. \A c : c \in ToSet(s) <=> \E m \in 1..n : c = s[m]
    BY <1>5 DEF ToSet
  <2>p. /\ \A k \in 1..Len(p) : \E m \in 1..n : p[k] = s[m] /\ s[m] \in T
        /\ \A m \in 1..n : s[m] \in T => \E k \in 1..Len(p) : p[k] = s[m]
    BY <1>4, Zenon DEF PickedFrom
  <2>3. \A c : c \in ToSet(p) => c \in ToSet(s) /\ c \in T
    BY <2>p, <2>1, <2>2
  <2>4. \A c : c \in ToSet(s) /\ c \in T => c \in ToSet(p)
    BY <2>p, <2>1, <2>2
  <2> QED
    BY <2>3, <2>4
<1> QED
  BY <1>4, <1>7, <1>8 DEF p
===============================================================================
