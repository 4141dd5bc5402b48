------------------------------ MODULE Induction ------------------------------
(***************************************************************************)
(* Induction over the natural numbers, stated with sets in place of        *)
(* predicates so that it can be cited, and what follows from it for the    *)
(* functions that a model defines by recursion along a sequence:           *)
(*                                                                         *)
(*     F[n \in 0..N] == IF n = 0 THEN x0 ELSE ... F[n - 1] ...             *)
(*                                                                         *)
(* is CHOOSE F : F = [n \in 0..N |-> ...], and says nothing until some     *)
(* such function is shown to exist.  At the end, the sums over finite sets *)
(* of the community modules, which are defined by recursion along a choice *)
(* of their elements.                                                      *)
(***************************************************************************)
EXTENDS Naturals, Sequences, FiniteSets, FiniteSetsExt, TLAPS, FiniteSetTheorems,
        SequenceTheorems, WellFoundedInduction

\* A set of natural numbers that is not empty has a least element.
LEMMA Least ==
  ASSUME NEW T \in SUBSET Nat, T # {}
  PROVE  \E n \in T : \A m \in T : n <= m
<1> DEFINE R == {ss \in Nat \X Nat : ss[1] < ss[2]}
<1>1. IsWellFoundedOn(R, Nat)
  BY NatLessThanWellFounded DEF OpToRel
<1>2. \A m, n \in Nat : ~(<<m, n>> \in R) => n <= m
  <2> SUFFICES ASSUME NEW m \in Nat, NEW n \in Nat, ~(n <= m) PROVE <<m, n>> \in R
    OBVIOUS
  <2>1. <<m, n>> \in Nat \X Nat /\ <<m, n>>[1] = m /\ <<m, n>>[2] = n /\ m < n
    OBVIOUS
  <2> QED
    BY <2>1
<1> HIDE DEF R
<1>3. PICK n \in T : \A m \in T : ~(<<m, n>> \in R)
  BY <1>1, WFMin
<1> QED
  BY <1>2, <1>3

\* A set of numbers with 0 and the successor of each of its members has them all.
LEMMA SetInduction ==
  ASSUME NEW S, 0 \in S, \A n \in Nat : n \in S => n + 1 \in S
  PROVE  Nat \subseteq S
<1> SUFFICES ASSUME Nat \ S # {} PROVE FALSE
  OBVIOUS
<1>1. PICK n \in Nat \ S : \A m \in Nat \ S : n <= m
  BY Least
<1>2. n # 0 /\ n - 1 \in Nat
  BY <1>1
<1>3. n - 1 \in S
  BY <1>1, <1>2
<1> QED
  BY <1>1, <1>2, <1>3

\* The same up to a bound.
LEMMA BoundedInduction ==
  ASSUME NEW N \in Nat, NEW S, 0 \in S, \A n \in 1..N : n - 1 \in S => n \in S
  PROVE  0..N \subseteq S
<1> DEFINE T == {n \in Nat : n <= N => n \in S}
<1>1. 0 \in T
  OBVIOUS
<1>2. ASSUME NEW n \in Nat, n \in T PROVE n + 1 \in T
  BY <1>2
<1> HIDE DEF T
<1>3. Nat \subseteq T
  BY <1>1, <1>2, SetInduction
<1> QED
  BY <1>3 DEF T

\* f starts from x0 and takes the step n times to get to f[n].
Iterates(f, N, X, x0, step) ==
  f \in [0..N -> X] /\ f[0] = x0 /\ \A n \in 1..N : f[n] = step[<<n, f[n - 1]>>]

\* A step that is a function can be iterated along 1..N.
LEMMA IterationExists ==
  ASSUME NEW X, NEW x0 \in X, NEW N \in Nat, NEW step \in [(1..N) \X X -> X]
  PROVE  \E f : Iterates(f, N, X, x0, step)
<1> DEFINE Good(k, f) == f \in [0..k -> X] /\ f[0] = x0
                         /\ \A n \in 1..k : f[n] = step[<<n, f[n - 1]>>]
           S == {k \in Nat : k <= N => \E f : Good(k, f)}
<1>1. 0 \in S
  <2> DEFINE f == [n \in 0..0 |-> x0]
  <2>1. Good(0, f)
    OBVIOUS
  <2> QED
    BY <2>1
<1>2. ASSUME NEW k \in Nat, k \in S PROVE k + 1 \in S
  <2> SUFFICES ASSUME k + 1 <= N PROVE \E f : Good(k + 1, f)
    OBVIOUS
  <2>1. PICK f : Good(k, f)
    BY <1>2
  <2> DEFINE g == [n \in 0..(k + 1) |-> IF n = k + 1 THEN step[<<k + 1, f[k]>>] ELSE f[n]]
  <2>2. f[k] \in X /\ k + 1 \in 1..N
    BY <2>1
  <2>3. step[<<k + 1, f[k]>>] \in X
    <3>1. <<k + 1, f[k]>> \in (1..N) \X X
      BY <2>2
    <3> QED
      BY <3>1
  <2>4. /\ \A n \in 0..k : g[n] = f[n]
        /\ g[k + 1] = step[<<k + 1, f[k]>>]
        /\ g \in [0..(k + 1) -> X]
    BY <2>1, <2>3
  <2> HIDE DEF g
  <2>5. Good(k + 1, g)
    <3>1. g[0] = x0
      BY <2>1, <2>4
    <3>2. ASSUME NEW n \in 1..(k + 1) PROVE g[n] = step[<<n, g[n - 1]>>]
      <4>1. n - 1 \in 0..k /\ (n \in 1..k \/ n = k + 1) /\ (n = k + 1 => n - 1 = k)
        OBVIOUS
      <4>2. g[n - 1] = f[n - 1]
        BY <2>4, <4>1
      <4>3. CASE n \in 1..k
        BY <2>1, <2>4, <4>2, <4>3
      <4>4. CASE n = k + 1
        BY <2>4, <4>1, <4>2, <4>4
      <4> QED
        BY <4>1, <4>3, <4>4
    <3> QED
      BY <2>4, <3>1, <3>2
  <2> QED
    BY <2>5
<1> HIDE DEF S
<1>3. Nat \subseteq S
  BY <1>1, <1>2, SetInduction
<1> QED
  BY <1>3 DEF S, Iterates

\* A set of numbers up to N that is not empty has a least element.
LEMMA LeastUpTo ==
  ASSUME NEW N \in Nat, NEW T \in SUBSET (0..N), T # {}
  PROVE  \E n \in T : \A m \in T : n <= m
<1>1. T \in SUBSET Nat
  OBVIOUS
<1> QED
  BY <1>1, Least

\* A set of sequences with the empty one that is closed under Append has them all.
LEMMA AppendInduction ==
  ASSUME NEW A, NEW S, << >> \in S, \A s \in Seq(A), a \in A : s \in S => Append(s, a) \in S
  PROVE  Seq(A) \subseteq S
<1> DEFINE T == {n \in Nat : \A s \in Seq(A) : Len(s) = n => s \in S}
<1>1. 0 \in T
  BY EmptySeq
<1>2. ASSUME NEW n \in Nat, n \in T PROVE n + 1 \in T
  <2> SUFFICES ASSUME NEW s \in Seq(A), Len(s) = n + 1 PROVE s \in S
    OBVIOUS
  <2> DEFINE front == SubSeq(s, 1, n)
  <2>1. front \in Seq(A) /\ Len(front) = n /\ s[n + 1] \in A
    BY SubSeqProperties, ElementOfSeq
  <2>2. s = Append(front, s[n + 1])
    <3>1. \A i \in 1..n : front[i] = s[i]
      BY SubSeqProperties
    <3>2. Append(front, s[n + 1]) \in Seq(A) /\ Len(Append(front, s[n + 1])) = n + 1
      BY <2>1, AppendProperties
    <3>3. \A i \in 1..(n + 1) : Append(front, s[n + 1])[i] = s[i]
      BY <2>1, <3>1, AppendProperties
    <3> QED
      BY <3>2, <3>3, SeqEqual
  <2>3. front \in S
    BY <1>2, <2>1
  <2> QED
    BY <2>1, <2>2, <2>3
<1> HIDE DEF T
<1>3. Nat \subseteq T
  BY <1>1, <1>2, SetInduction
<1> QED
  BY <1>3 DEF T

\* Append after concatenation.
LEMMA ConcatAppend ==
  ASSUME NEW A, NEW s \in Seq(A), NEW t \in Seq(A), NEW a \in A
  PROVE  s \o Append(t, a) = Append(s \o t, a)
<1>1. /\ Append(t, a) \in Seq(A) /\ s \o t \in Seq(A)
      /\ Len(Append(t, a)) = Len(t) + 1 /\ Len(s \o t) = Len(s) + Len(t)
      /\ Len(s) \in Nat /\ Len(t) \in Nat
  BY AppendProperties, ConcatProperties
<1> DEFINE u == s \o Append(t, a)
           v == Append(s \o t, a)
<1>2. /\ u \in Seq(A) /\ Len(u) = Len(s) + Len(t) + 1
      /\ v \in Seq(A) /\ Len(v) = Len(s) + Len(t) + 1
  BY <1>1, AppendProperties, ConcatProperties
<1>3. ASSUME NEW i \in 1..(Len(s) + Len(t) + 1) PROVE u[i] = v[i]
  <2>1. CASE i <= Len(s)
    BY <1>1, <2>1, AppendProperties, ConcatProperties
  <2>2. CASE i > Len(s) /\ i <= Len(s) + Len(t)
    BY <1>1, <2>2, AppendProperties, ConcatProperties
  <2>3. CASE i = Len(s) + Len(t) + 1
    BY <1>1, <2>3, AppendProperties, ConcatProperties
  <2> QED
    BY <1>1, <2>1, <2>2, <2>3
<1> HIDE DEF u, v
<1>4. u = v
  BY <1>1, <1>2, <1>3, SeqEqual
<1> QED
  BY <1>4 DEF u, v

\* s is the end of w.
EndOf(A, s, w) == \E u \in Seq(A) : w = u \o s

\* The end of the end of a sequence is its end.
LEMMA EndOfEnd ==
  ASSUME NEW A, NEW s \in Seq(A), NEW r \in Seq(A), NEW w, EndOf(A, s, w), EndOf(A, r, s)
  PROVE  EndOf(A, r, w)
<1>1. PICK u \in Seq(A) : w = u \o s
  BY DEF EndOf
<1>2. PICK v \in Seq(A) : s = v \o r
  BY DEF EndOf
<1>3. u \o v \in Seq(A)
  BY ConcatProperties
<1>4. (u \o v) \o r = u \o (v \o r)
  BY ConcatAssociative
<1>5. w = (u \o v) \o r
  BY <1>1, <1>2, <1>4
<1> QED
  BY <1>3, <1>5 DEF EndOf

\* One more element at the end of both.
LEMMA EndOfAppend ==
  ASSUME NEW A, NEW s \in Seq(A), NEW w, EndOf(A, s, w), NEW a \in A
  PROVE  EndOf(A, Append(s, a), Append(w, a))
<1>1. PICK u \in Seq(A) : w = u \o s
  BY DEF EndOf
<1>2. u \o Append(s, a) = Append(u \o s, a)
  BY ConcatAppend
<1>3. Append(w, a) = u \o Append(s, a)
  BY <1>1, <1>2
<1> QED
  BY <1>3 DEF EndOf

-----------------------------------------------------------------------------
(* Sums over finite sets *)

\* A collection with the empty set that is closed under one more element has all
\* subsets of a finite set.
LEMMA FiniteInduction ==
  ASSUME NEW S, IsFiniteSet(S), NEW P, {} \in P,
         \A T \in SUBSET S, x \in S : T \in P /\ x \notin T => T \cup {x} \in P
  PROVE  SUBSET S \subseteq P
<1> DEFINE N == {n \in Nat : \A T \in SUBSET S : Cardinality(T) = n => T \in P}
<1>1. \A T \in SUBSET S : IsFiniteSet(T) /\ Cardinality(T) \in Nat
  BY FS_Subset, FS_CardinalityType
<1>2. 0 \in N
  BY <1>1, FS_EmptySet
<1>3. ASSUME NEW n \in Nat, n \in N PROVE n + 1 \in N
  <2> SUFFICES ASSUME NEW T \in SUBSET S, Cardinality(T) = n + 1 PROVE T \in P
    OBVIOUS
  <2>1. T # {}
    BY <1>1, FS_EmptySet
  <2>2. PICK x \in T : TRUE
    BY <2>1
  <2>3. Cardinality(T \ {x}) = n /\ T \ {x} \in SUBSET S
    <3>1. IsFiniteSet(T)
      BY <1>1
    <3>2. Cardinality(T \ {x}) = Cardinality(T) - 1
      BY <2>2, <3>1, FS_RemoveElement
    <3> QED
      BY <3>2
  <2>4. T \ {x} \in P /\ x \in S /\ x \notin T \ {x} /\ T = (T \ {x}) \cup {x}
    BY <1>3, <2>2, <2>3
  <2> QED
    BY <2>3, <2>4
<1> HIDE DEF N
<1>4. Nat \subseteq N
  BY <1>2, <1>3, SetInduction
<1> QED
  BY <1>1, <1>4 DEF N

\* The sum of f over a set.
SumOf(f, S) == MapThenSumSet(LAMBDA x : f[x], S)

\* g[T] is the sum of f over T, for every subset T of S, whatever the order.
Measure(g, f, S) ==
  /\ g \in [SUBSET S -> Nat] /\ g[{}] = 0
  /\ \A T \in SUBSET S : \A x \in T : g[T] = f[x] + g[T \ {x}]

\* One more element can be measured too.
LEMMA MeasureAdd ==
  ASSUME NEW S, NEW f, NEW x, x \notin S, \A y \in S \cup {x} : f[y] \in Nat,
         NEW g, Measure(g, f, S)
  PROVE  \E h : Measure(h, f, S \cup {x})
<1> DEFINE U == S \cup {x}
           h == [T \in SUBSET U |-> IF x \in T THEN f[x] + g[T \ {x}] ELSE g[T]]
<1>1. \A T \in SUBSET S : g[T] \in Nat
  BY DEF Measure
<1>2. \A T \in SUBSET U : T \ {x} \in SUBSET S /\ (x \notin T => T \in SUBSET S)
  OBVIOUS
<1>3. /\ \A T \in SUBSET U : x \in T => h[T] = f[x] + g[T \ {x}]
      /\ \A T \in SUBSET U : x \notin T => h[T] = g[T]
  OBVIOUS
<1>4. h \in [SUBSET U -> Nat]
  BY <1>1, <1>2
<1> HIDE DEF h
<1>5. h[{}] = 0
  BY <1>3 DEF Measure
<1>6. ASSUME NEW T \in SUBSET U, NEW y \in T PROVE h[T] = f[y] + h[T \ {y}]
  <2>1. T \ {y} \in SUBSET U
    OBVIOUS
  <2>2. CASE y = x
    <3>1. x \in T /\ x \notin T \ {y} /\ T \ {y} = T \ {x}
      BY <2>2
    <3> QED
      BY <1>3, <2>1, <2>2, <3>1
  <2>3. CASE y # x /\ x \in T
    <3> DEFINE R == T \ {x}
    <3>1. /\ R \in SUBSET S /\ y \in R /\ R \ {y} \in SUBSET S
          /\ x \in T \ {y} /\ (T \ {y}) \ {x} = R \ {y}
      BY <2>3
    <3>2. g[R] = f[y] + g[R \ {y}]
      BY <3>1 DEF Measure
    <3>3. h[T] = f[x] + g[R] /\ h[T \ {y}] = f[x] + g[R \ {y}]
      BY <1>3, <2>1, <2>3, <3>1
    <3>4. g[R] \in Nat /\ g[R \ {y}] \in Nat
      BY <1>1, <3>1
    <3>5. f[x] \in Nat /\ f[y] \in Nat
      OBVIOUS
    <3> QED
      BY <3>2, <3>3, <3>4, <3>5
  <2>4. CASE x \notin T
    <3>1. T \in SUBSET S /\ x \notin T \ {y}
      BY <2>4
    <3>2. g[T] = f[y] + g[T \ {y}]
      BY <3>1 DEF Measure
    <3> QED
      BY <1>3, <2>1, <2>4, <3>1, <3>2
  <2> QED
    BY <2>2, <2>3, <2>4
<1> HIDE DEF U
<1>7. Measure(h, f, U)
  BY <1>4, <1>5, <1>6 DEF Measure
<1> QED
  BY <1>7 DEF U

\* The recursion of SumOf, made visible.
LEMMA SumRecursion ==
  ASSUME NEW f, NEW S
  PROVE  SumOf(f, S) =
           LET iter[T \in SUBSET S] ==
                 IF T = {} THEN 0 ELSE LET x == CHOOSE x \in T : TRUE IN f[x] + iter[T \ {x}]
           IN  iter[S]
BY DEF SumOf, MapThenSumSet, MapThenFoldSet

\* SumOf is what a measure of the set says.
LEMMA SumIsMeasure ==
  ASSUME NEW S, IsFiniteSet(S), NEW f, NEW g, Measure(g, f, S)
  PROVE  SumOf(f, S) = g[S]
<1> DEFINE pick(T) == CHOOSE x \in T : TRUE
           iter[T \in SUBSET S] ==
               IF T = {} THEN 0 ELSE LET x == CHOOSE x \in T : TRUE IN f[x] + iter[T \ {x}]
<1>1. SumOf(f, S) = iter[S]
  BY SumRecursion
<1>2. \A T \in SUBSET S : T # {} => pick(T) \in T /\ T \ {pick(T)} \in SUBSET S
  OBVIOUS
<1>3. g = [T \in SUBSET S |-> IF T = {} THEN 0 ELSE f[pick(T)] + g[T \ {pick(T)}]]
  <2> HIDE DEF pick
  <2>1. g \in [SUBSET S -> Nat]
    BY DEF Measure
  <2>2. \A T \in SUBSET S : g[T] = IF T = {} THEN 0 ELSE f[pick(T)] + g[T \ {pick(T)}]
    BY <1>2 DEF Measure
  <2> QED
    BY <2>1, <2>2
<1>4. iter = [T \in SUBSET S |-> IF T = {} THEN 0 ELSE f[pick(T)] + iter[T \ {pick(T)}]]
  BY <1>3
<1> HIDE DEF iter, pick
<1>5. \A T \in SUBSET S :
         /\ T = {} => iter[T] = 0
         /\ T # {} => iter[T] = f[pick(T)] + iter[T \ {pick(T)}]
  BY <1>4
<1> DEFINE N == {n \in Nat : \A T \in SUBSET S : Cardinality(T) = n => iter[T] = g[T]}
<1>6. \A T \in SUBSET S : IsFiniteSet(T) /\ Cardinality(T) \in Nat
  BY FS_Subset, FS_CardinalityType
<1>7. 0 \in N
  BY <1>5, <1>6, FS_EmptySet DEF Measure
<1>8. ASSUME NEW n \in Nat, n \in N PROVE n + 1 \in N
  <2> SUFFICES ASSUME NEW T \in SUBSET S, Cardinality(T) = n + 1 PROVE iter[T] = g[T]
    OBVIOUS
  <2>1. T # {}
    BY <1>6, FS_EmptySet
  <2> DEFINE x == pick(T)
             R == T \ {x}
  <2>2. x \in T /\ R \in SUBSET S
    BY <1>2, <2>1
  <2>3. Cardinality(R) = n
    <3>1. IsFiniteSet(T)
      BY <1>6
    <3>2. Cardinality(R) = Cardinality(T) - 1
      BY <2>2, <3>1, FS_RemoveElement
    <3> QED
      BY <3>2
  <2>4. iter[R] = g[R]
    BY <1>8, <2>2, <2>3
  <2>5. iter[T] = f[x] + iter[R]
    BY <1>5, <2>1
  <2>6. g[T] = f[x] + g[R]
    BY <2>2 DEF Measure
  <2> QED
    BY <2>4, <2>5, <2>6
<1> HIDE DEF N
<1>9. Nat \subseteq N
  BY <1>7, <1>8, SetInduction
<1> QED
  BY <1>1, <1>6, <1>9 DEF N

\* Every finite set of numbered elements has a measure.
LEMMA MeasureExists ==
  ASSUME NEW S, IsFiniteSet(S), NEW f, \A x \in S : f[x] \in Nat
  PROVE  \E g : Measure(g, f, S)
<1> DEFINE P == {T \in SUBSET S : \E g : Measure(g, f, T)}
<1>1. {} \in P
  <2> DEFINE g == [T \in SUBSET {} |-> 0]
  <2>1. Measure(g, f, {})
    BY DEF Measure
  <2> QED
    BY <2>1
<1>2. ASSUME NEW T \in SUBSET S, NEW x \in S, T \in P, x \notin T PROVE T \cup {x} \in P
  <2>1. PICK g : Measure(g, f, T)
    BY <1>2
  <2>2. \A y \in T \cup {x} : f[y] \in Nat
    OBVIOUS
  <2>3. \E h : Measure(h, f, T \cup {x})
    BY <1>2, <2>1, <2>2, MeasureAdd
  <2> QED
    BY <2>3
<1> HIDE DEF P
<1>3. SUBSET S \subseteq P
  BY <1>1, <1>2, FiniteInduction
<1> QED
  BY <1>3 DEF P

\* A measure of a set measures its subsets.
LEMMA MeasureSubset ==
  ASSUME NEW S, NEW f, NEW g, Measure(g, f, S), NEW T \in SUBSET S
  PROVE  Measure([R \in SUBSET T |-> g[R]], f, T)
<1> DEFINE h == [R \in SUBSET T |-> g[R]]
<1>1. \A R \in SUBSET T : h[R] = g[R] /\ g[R] \in Nat
  BY DEF Measure
<1>2. h \in [SUBSET T -> Nat] /\ h[{}] = 0
  BY <1>1 DEF Measure
<1>3. \A R \in SUBSET T : \A x \in R : h[R] = f[x] + h[R \ {x}]
  <2> SUFFICES ASSUME NEW R \in SUBSET T, NEW x \in R PROVE h[R] = f[x] + h[R \ {x}]
    OBVIOUS
  <2>1. R \in SUBSET S /\ R \ {x} \in SUBSET T
    OBVIOUS
  <2>2. g[R] = f[x] + g[R \ {x}]
    BY <2>1 DEF Measure
  <2> QED
    BY <1>1, <2>1, <2>2
<1> HIDE DEF h
<1>4. Measure(h, f, T)
  BY <1>2, <1>3 DEF Measure
<1> QED
  BY <1>4 DEF h

\* The sum over nothing, a sum without one of its terms, and their type.
LEMMA SumProperties ==
  ASSUME NEW S, IsFiniteSet(S), NEW f, \A x \in S : f[x] \in Nat
  PROVE  /\ SumOf(f, {}) = 0
         /\ SumOf(f, S) \in Nat
         /\ \A x \in S : SumOf(f, S) = f[x] + SumOf(f, S \ {x})
         /\ \A T \in SUBSET S : SumOf(f, T) \in Nat /\ SumOf(f, T) <= SumOf(f, S)
<1>1. PICK g : Measure(g, f, S)
  BY MeasureExists
<1>2. ASSUME NEW T \in SUBSET S PROVE SumOf(f, T) = g[T] /\ g[T] \in Nat
  <2> DEFINE h == [R \in SUBSET T |-> g[R]]
  <2>1. Measure(h, f, T) /\ IsFiniteSet(T) /\ h[T] = g[T]
    <3>1. Measure(h, f, T)
      BY <1>1, MeasureSubset
    <3>2. IsFiniteSet(T)
      BY FS_Subset
    <3> QED
      BY <3>1, <3>2
  <2> HIDE DEF h
  <2>2. SumOf(f, T) = h[T]
    BY <2>1, SumIsMeasure
  <2> QED
    BY <1>1, <2>1, <2>2 DEF Measure
<1>3. \A x \in S : SumOf(f, S) = f[x] + SumOf(f, S \ {x})
  <2> SUFFICES ASSUME NEW x \in S PROVE SumOf(f, S) = f[x] + SumOf(f, S \ {x})
    OBVIOUS
  <2>1. S \in SUBSET S /\ S \ {x} \in SUBSET S
    OBVIOUS
  <2>2. g[S] = f[x] + g[S \ {x}]
    BY <1>1, <2>1 DEF Measure
  <2> QED
    BY <1>2, <2>1, <2>2
<1>4. \A T \in SUBSET S : g[T] <= g[S]
  <2> DEFINE P == {D \in SUBSET S : g[S \ D] <= g[S]}
  <2>1. {} \in P
    <3>1. S \ {} = S /\ g[S] \in Nat
      BY <1>2
    <3> QED
      BY <3>1
  <2>2. ASSUME NEW D \in SUBSET S, NEW x \in S, D \in P, x \notin D PROVE D \cup {x} \in P
    <3> DEFINE T == S \ D
    <3>1. T \in SUBSET S /\ x \in T /\ S \ (D \cup {x}) = T \ {x} /\ T \ {x} \in SUBSET S
      BY <2>2
    <3>2. g[T] = f[x] + g[T \ {x}]
      BY <1>1, <3>1 DEF Measure
    <3>3. g[T] \in Nat /\ g[T \ {x}] \in Nat /\ g[S] \in Nat /\ f[x] \in Nat
      BY <1>2, <3>1
    <3>4. g[T] <= g[S]
      BY <2>2
    <3>5. g[T \ {x}] <= g[S]
      BY <3>2, <3>3, <3>4
    <3>6. g[S \ (D \cup {x})] <= g[S] /\ D \cup {x} \in SUBSET S
      BY <3>1, <3>5
    <3> QED
      BY <3>6
  <2> HIDE DEF P
  <2>3. SUBSET S \subseteq P
    BY <2>1, <2>2, FiniteInduction
  <2> SUFFICES ASSUME NEW T \in SUBSET S PROVE g[T] <= g[S]
    OBVIOUS
  <2>4. S \ T \in SUBSET S /\ S \ (S \ T) = T
    OBVIOUS
  <2>5. S \ T \in P
    BY <2>3, <2>4
  <2>6. g[S \ (S \ T)] <= g[S]
    BY <2>5 DEF P
  <2> QED
    BY <2>4, <2>6
<1>5. SumOf(f, {}) = 0
  BY <1>1, <1>2 DEF Measure
<1> QED
  BY <1>2, <1>3, <1>4, <1>5

\* Larger terms have a larger sum.
LEMMA SumMonotone ==
  ASSUME NEW S, IsFiniteSet(S), NEW f, NEW h,
         \A x \in S : f[x] \in Nat /\ h[x] \in Nat /\ f[x] <= h[x]
  PROVE  SumOf(f, S) <= SumOf(h, S)
<1> DEFINE P == {T \in SUBSET S : SumOf(f, T) <= SumOf(h, T)}
<1>1. {} \in P
  BY SumProperties, FS_EmptySet
<1>2. ASSUME NEW T \in SUBSET S, NEW x \in S, T \in P, x \notin T PROVE T \cup {x} \in P
  <2> DEFINE U == T \cup {x}
  <2>1. U \in SUBSET S /\ IsFiniteSet(U) /\ x \in U /\ U \ {x} = T /\ IsFiniteSet(T)
    BY <1>2, FS_Subset
  <2> HIDE DEF U
  <2>2. SumOf(f, U) = f[x] + SumOf(f, T) /\ SumOf(f, T) \in Nat
    BY <2>1, SumProperties
  <2>3. SumOf(h, U) = h[x] + SumOf(h, T) /\ SumOf(h, T) \in Nat
    BY <2>1, SumProperties
  <2>4. f[x] \in Nat /\ h[x] \in Nat /\ f[x] <= h[x] /\ SumOf(f, T) <= SumOf(h, T)
    BY <1>2
  <2>5. SumOf(f, U) <= SumOf(h, U)
    BY <2>2, <2>3, <2>4
  <2> QED
    BY <2>1, <2>5 DEF U
<1> HIDE DEF P
<1>3. SUBSET S \subseteq P
  BY <1>1, <1>2, FiniteInduction
<1> QED
  BY <1>3 DEF P

\* When one term changes, the sum changes by as much.
LEMMA SumChange ==
  ASSUME NEW S, IsFiniteSet(S), NEW f, NEW h, NEW x \in S,
         \A y \in S : f[y] \in Nat /\ h[y] \in Nat,
         \A y \in S : y # x => f[y] = h[y]
  PROVE  SumOf(h, S) + f[x] = SumOf(f, S) + h[x]
<1> DEFINE T == S \ {x}
<1>1. IsFiniteSet(T) /\ T \in SUBSET S /\ \A y \in T : y \in S /\ f[y] = h[y]
  BY FS_RemoveElement
<1>2. SumOf(f, S) = f[x] + SumOf(f, T) /\ SumOf(f, T) \in Nat
  BY <1>1, SumProperties
<1>3. SumOf(h, S) = h[x] + SumOf(h, T) /\ SumOf(h, T) \in Nat
  BY <1>1, SumProperties
<1> HIDE DEF T
<1>4. SumOf(f, T) <= SumOf(h, T)
  BY <1>1, SumMonotone
<1>5. SumOf(h, T) <= SumOf(f, T)
  BY <1>1, SumMonotone
<1>6. f[x] \in Nat /\ h[x] \in Nat
  OBVIOUS
<1> QED
  BY <1>2, <1>3, <1>4, <1>5, <1>6
================================================================================
