---------------------------- MODULE TlsBufferProofs ----------------------------
(***************************************************************************)
(* Proofs about the ring buffers of decrypted traffic, for any processes,  *)
(* connections, lengths, limits and windows.                               *)
(*                                                                         *)
(* The lemmas say what the two recursive operators of TlsBuffer, Evidence  *)
(* and Bytes, return for one more record and for two sequences one after   *)
(* the other, and what dropping records and appending one does to the end  *)
(* of a sequence.  The inductive invariant IInv says that a buffer is the  *)
(* end of all that was appended for its process; SumsInv and SearchInv     *)
(* relate what a connection has counted, lock by lock, to all that         *)
(* add_record got.                                                         *)
(***************************************************************************)
EXTENDS TlsBuffer, SequenceTheorems, Induction, TLAPS

\* f[n] is what the first n records of s keep for an alert at t.
Keeps(f, R, s, t) ==
  /\ f \in [0..Len(s) -> Seq(R)] /\ f[0] = << >>
  /\ \A n \in 1..Len(s) :
        f[n] = IF InWindow(s[n], t) THEN Append(f[n - 1], s[n]) ELSE f[n - 1]

\* The evidence in a sequence is the end of a chain that looks at one record at a time.
LEMMA EvidenceChain ==
  ASSUME NEW R, NEW s \in Seq(R), NEW t
  PROVE  \E f : Keeps(f, R, s, t) /\ f[Len(s)] = Evidence(s, t)
<1> DEFINE N == Len(s)
           X == Seq(R)
           Kept[n \in 0..N] ==
               IF n = 0 THEN << >>
               ELSE IF InWindow(s[n], t) THEN Append(Kept[n - 1], s[n]) ELSE Kept[n - 1]
           step == [nx \in (1..N) \X X |->
                       IF InWindow(s[nx[1]], t) THEN Append(nx[2], s[nx[1]]) ELSE nx[2]]
<1>1. Evidence(s, t) = Kept[N]
  BY DEF Evidence
<1>2. N \in Nat /\ << >> \in X
  OBVIOUS
<1>3. \A n \in 1..N, x \in X :
         /\ step[<<n, x>>] = IF InWindow(s[n], t) THEN Append(x, s[n]) ELSE x
         /\ step[<<n, x>>] \in X
  <2> SUFFICES ASSUME NEW n \in 1..N, NEW x \in X
               PROVE  /\ step[<<n, x>>] = IF InWindow(s[n], t) THEN Append(x, s[n]) ELSE x
                      /\ step[<<n, x>>] \in X
    OBVIOUS
  <2>1. <<n, x>> \in (1..N) \X X /\ <<n, x>>[1] = n /\ <<n, x>>[2] = x
    OBVIOUS
  <2>2. step[<<n, x>>] = IF InWindow(s[n], t) THEN Append(x, s[n]) ELSE x
    BY <2>1
  <2>3. s[n] \in R
    BY ElementOfSeq
  <2> QED
    BY <2>2, <2>3, AppendProperties
<1>4. step \in [(1..N) \X X -> X]
  <2>1. \A nx \in (1..N) \X X : nx[1] \in 1..N /\ nx[2] \in X
    OBVIOUS
  <2>2. \A nx \in (1..N) \X X : s[nx[1]] \in R
    BY <2>1, ElementOfSeq
  <2> QED
    BY <2>1, <2>2, AppendProperties
<1>5. PICK f \in [0..N -> X] :
         f[0] = << >> /\ \A n \in 1..N : f[n] = step[<<n, f[n - 1]>>]
  <2> DEFINE x0 == << >>
  <2> HIDE DEF step, N, X, x0
  <2>1. x0 \in X
    BY <1>2 DEF x0
  <2>2. PICK f : Iterates(f, N, X, x0, step)
    BY <1>2, <1>4, <2>1, IterationExists
  <2> QED
    BY <2>2 DEF x0, Iterates
<1>6. \A n \in 1..N :
         f[n] = IF InWindow(s[n], t) THEN Append(f[n - 1], s[n]) ELSE f[n - 1]
  <2> SUFFICES ASSUME NEW n \in 1..N
               PROVE  f[n] = IF InWindow(s[n], t) THEN Append(f[n - 1], s[n]) ELSE f[n - 1]
    OBVIOUS
  <2>1. f[n - 1] \in X
    BY <1>2, <1>5
  <2> HIDE DEF step
  <2> QED
    BY <1>3, <1>5, <2>1
<1>7. f = [n \in 0..N |->
              IF n = 0 THEN << >>
              ELSE IF InWindow(s[n], t) THEN Append(f[n - 1], s[n]) ELSE f[n - 1]]
  <2> HIDE DEF N, X, step
  <2>1. \A n \in 0..N : n = 0 \/ n \in 1..N
    BY <1>2
  <2>2. \A n \in 0..N : f[n] = IF n = 0 THEN << >>
              ELSE IF InWindow(s[n], t) THEN Append(f[n - 1], s[n]) ELSE f[n - 1]
    BY <1>5, <1>6, <2>1, Zenon
  <2> QED
    BY <1>5, <2>2
<1>8. Kept = [n \in 0..N |->
                 IF n = 0 THEN << >>
                 ELSE IF InWindow(s[n], t) THEN Append(Kept[n - 1], s[n]) ELSE Kept[n - 1]]
  <2> HIDE DEF N, X, step
  <2> QED
    BY <1>7
<1> HIDE DEF Kept, step
<1>9. /\ Kept[0] = << >>
      /\ \A n \in 1..N :
            Kept[n] = IF InWindow(s[n], t) THEN Append(Kept[n - 1], s[n]) ELSE Kept[n - 1]
  <2>1. /\ 0 \in 0..N
        /\ \A n \in 1..N : n \in 0..N /\ n # 0
    OBVIOUS
  <2>2. \A n \in 0..N : Kept[n] = IF n = 0 THEN << >>
              ELSE IF InWindow(s[n], t) THEN Append(Kept[n - 1], s[n]) ELSE Kept[n - 1]
    BY <1>8, Zenon
  <2> QED
    BY <2>1, <2>2
<1>10. \A n \in 0..N : Kept[n] \in X
  <2> DEFINE S == {n \in 0..N : Kept[n] \in X}
  <2>1. 0 \in S
    BY <1>9
  <2>2. ASSUME NEW n \in 1..N, n - 1 \in S PROVE n \in S
    <3>1. s[n] \in R
      BY ElementOfSeq
    <3>2. Append(Kept[n - 1], s[n]) \in X
      BY <2>2, <3>1, AppendProperties
    <3>3. Kept[n] \in X
      <4>1. CASE InWindow(s[n], t)
        BY <1>9, <3>2, <4>1
      <4>2. CASE ~InWindow(s[n], t)
        BY <1>9, <2>2, <4>2
      <4> QED
        BY <4>1, <4>2
    <3> QED
      BY <3>3
  <2> HIDE DEF S
  <2>3. 0..N \subseteq S
    BY <1>2, <2>1, <2>2, BoundedInduction
  <2> QED
    BY <2>3 DEF S
<1>11. Kept \in [0..N -> X]
  <2> HIDE DEF N, X
  <2>1. Kept = [n \in 0..N |-> Kept[n]]
    <3> DEFINE F(n) == IF n = 0 THEN << >>
                 ELSE IF InWindow(s[n], t) THEN Append(Kept[n - 1], s[n]) ELSE Kept[n - 1]
    <3>1. Kept = [n \in 0..N |-> F(n)]
      BY <1>8
    <3> HIDE DEF F
    <3> QED
      BY <3>1
  <2> QED
    BY <1>10, <2>1
<1> QED
  BY <1>1, <1>9, <1>11 DEF Keeps

\* There is no evidence in nothing.
LEMMA EvidenceEmpty ==
  ASSUME NEW t
  PROVE  Evidence(<< >>, t) = << >>
<1>1. << >> \in Seq({}) /\ Len(<< >>) = 0
  OBVIOUS
<1>2. PICK f : Keeps(f, {}, << >>, t) /\ f[Len(<< >>)] = Evidence(<< >>, t)
  BY <1>1, EvidenceChain
<1> QED
  BY <1>1, <1>2 DEF Keeps

\* Evidence consists of the same records.
LEMMA EvidenceType ==
  ASSUME NEW R, NEW s \in Seq(R), NEW t
  PROVE  Evidence(s, t) \in Seq(R)
<1>1. PICK f : Keeps(f, R, s, t) /\ f[Len(s)] = Evidence(s, t)
  BY EvidenceChain
<1>2. Len(s) \in 0..Len(s)
  OBVIOUS
<1> QED
  BY <1>1, <1>2 DEF Keeps

\* What one more record adds to the evidence.
LEMMA EvidenceAppend ==
  ASSUME NEW R, NEW s \in Seq(R), NEW r \in R, NEW t
  PROVE  /\ InWindow(r, t) => Evidence(Append(s, r), t) = Append(Evidence(s, t), r)
         /\ ~InWindow(r, t) => Evidence(Append(s, r), t) = Evidence(s, t)
<1> DEFINE u == Append(s, r)
           N == Len(s)
<1>1. /\ u \in Seq(R) /\ N \in Nat /\ Len(u) = N + 1 /\ u[N + 1] = r
      /\ \A n \in 1..N : u[n] = s[n]
  BY AppendProperties
<1>2. PICK f : Keeps(f, R, s, t) /\ f[N] = Evidence(s, t)
  BY EvidenceChain
<1>3. PICK g : Keeps(g, R, u, t) /\ g[Len(u)] = Evidence(u, t)
  <2> HIDE DEF u
  <2> QED
    BY <1>1, EvidenceChain
<1> HIDE DEF u, N
<1> DEFINE S == {n \in 0..N : f[n] = g[n]}
<1>4. 0 \in S
  BY <1>1, <1>2, <1>3 DEF Keeps
<1>5. ASSUME NEW n \in 1..N, n - 1 \in S PROVE n \in S
  <2>1. n \in 1..Len(u) /\ f[n - 1] = g[n - 1] /\ u[n] = s[n]
    BY <1>1, <1>5
  <2>2. f[n] = IF InWindow(s[n], t) THEN Append(f[n - 1], s[n]) ELSE f[n - 1]
    BY <1>2 DEF Keeps, N
  <2>3. g[n] = IF InWindow(u[n], t) THEN Append(g[n - 1], u[n]) ELSE g[n - 1]
    BY <1>3, <2>1 DEF Keeps
  <2> QED
    BY <1>1, <2>1, <2>2, <2>3
<1> HIDE DEF S
<1>6. 0..N \subseteq S
  BY <1>1, <1>4, <1>5, BoundedInduction
<1>7. f[N] = g[N]
  BY <1>1, <1>6 DEF S
<1>8. g[N + 1] = IF InWindow(r, t) THEN Append(g[N], r) ELSE g[N]
  <2>1. N + 1 \in 1..Len(u) /\ (N + 1) - 1 = N
    BY <1>1
  <2> QED
    BY <1>1, <1>3, <2>1 DEF Keeps
<1>9. f[N] \in Seq(R)
  BY <1>1, <1>2 DEF Keeps, N
<1> QED
  BY <1>1, <1>2, <1>3, <1>7, <1>8, <1>9 DEF u

\* One more record at the end of the second of two sequences.
LEMMA EvidenceConcatAppend ==
  ASSUME NEW R, NEW t, NEW s1 \in Seq(R), NEW s \in Seq(R), NEW r \in R,
         Evidence(s1 \o s, t) = Evidence(s1, t) \o Evidence(s, t)
  PROVE  Evidence(s1 \o Append(s, r), t) = Evidence(s1, t) \o Evidence(Append(s, r), t)
<1>1. /\ s1 \o s \in Seq(R) /\ s1 \o Append(s, r) = Append(s1 \o s, r)
      /\ Evidence(s1, t) \in Seq(R) /\ Evidence(s, t) \in Seq(R)
  BY EvidenceType, ConcatProperties, ConcatAppend
<1>2. CASE InWindow(r, t)
  <2>1. Evidence(Append(s, r), t) = Append(Evidence(s, t), r)
    BY <1>2, EvidenceAppend
  <2>2. Evidence(Append(s1 \o s, r), t) = Append(Evidence(s1 \o s, t), r)
    BY <1>1, <1>2, EvidenceAppend
  <2>3. Evidence(s1, t) \o Append(Evidence(s, t), r) = Append(Evidence(s1, t) \o Evidence(s, t), r)
    BY <1>1, ConcatAppend
  <2> QED
    BY <1>1, <2>1, <2>2, <2>3
<1>3. CASE ~InWindow(r, t)
  <2>1. Evidence(Append(s, r), t) = Evidence(s, t)
    BY <1>3, EvidenceAppend
  <2>2. Evidence(Append(s1 \o s, r), t) = Evidence(s1 \o s, t)
    BY <1>1, <1>3, EvidenceAppend
  <2> QED
    BY <1>1, <2>1, <2>2
<1> QED
  BY <1>2, <1>3

\* The evidence in two sequences one after the other.
LEMMA EvidenceConcat ==
  ASSUME NEW R, NEW t, NEW s1 \in Seq(R), NEW s2 \in Seq(R)
  PROVE  Evidence(s1 \o s2, t) = Evidence(s1, t) \o Evidence(s2, t)
<1> DEFINE S == {s \in Seq(R) : Evidence(s1 \o s, t) = Evidence(s1, t) \o Evidence(s, t)}
<1>1. << >> \in S
  <2>1. s1 \o << >> = s1 /\ Evidence(s1, t) \o << >> = Evidence(s1, t) /\ << >> \in Seq(R)
    BY ConcatEmptySeq, EvidenceType
  <2> QED
    BY <2>1, EvidenceEmpty
<1>2. ASSUME NEW s \in Seq(R), NEW r \in R, s \in S PROVE Append(s, r) \in S
  <2>1. Evidence(s1 \o Append(s, r), t) = Evidence(s1, t) \o Evidence(Append(s, r), t)
    BY <1>2, EvidenceConcatAppend
  <2>2. Append(s, r) \in Seq(R)
    BY AppendProperties
  <2> QED
    BY <2>1, <2>2
<1> HIDE DEF S
<1>3. Seq(R) \subseteq S
  BY <1>1, <1>2, AppendInduction
<1> QED
  BY <1>3 DEF S

-----------------------------------------------------------------------------

\* f[n] is the length of the first n records of s.
AddsUp(f, s) ==
  f \in [0..Len(s) -> Nat] /\ f[0] = 0 /\ \A n \in 1..Len(s) : f[n] = f[n - 1] + s[n].len

\* The bytes of a sequence are the end of a chain that adds up one record at a time.
LEMMA BytesChain ==
  ASSUME NEW R, \A r \in R : r.len \in Nat, NEW s \in Seq(R)
  PROVE  \E f : AddsUp(f, s) /\ f[Len(s)] = Bytes(s)
<1> DEFINE N == Len(s)
           Sum[n \in 0..N] == IF n = 0 THEN 0 ELSE Sum[n - 1] + s[n].len
           step == [nx \in (1..N) \X Nat |-> nx[2] + s[nx[1]].len]
<1>1. Bytes(s) = Sum[N]
  BY DEF Bytes
<1>2. N \in Nat /\ 0 \in Nat /\ \A n \in 1..N : s[n].len \in Nat
  BY ElementOfSeq
<1>3. \A n \in 1..N, x \in Nat : step[<<n, x>>] = x + s[n].len
  <2> SUFFICES ASSUME NEW n \in 1..N, NEW x \in Nat PROVE step[<<n, x>>] = x + s[n].len
    OBVIOUS
  <2>1. <<n, x>> \in (1..N) \X Nat /\ <<n, x>>[1] = n /\ <<n, x>>[2] = x
    OBVIOUS
  <2> QED
    BY <2>1
<1>4. step \in [(1..N) \X Nat -> Nat]
  <2>1. \A nx \in (1..N) \X Nat : nx[1] \in 1..N /\ nx[2] \in Nat
    OBVIOUS
  <2> QED
    BY <1>2, <2>1
<1>5. PICK f : Iterates(f, N, Nat, 0, step)
  <2> HIDE DEF step, N
  <2> QED
    BY <1>2, <1>4, IterationExists
<1>6. f = [n \in 0..N |-> IF n = 0 THEN 0 ELSE f[n - 1] + s[n].len]
  <2>1. f \in [0..N -> Nat] /\ f[0] = 0 /\ \A n \in 1..N : f[n] = step[<<n, f[n - 1]>>]
    BY <1>5 DEF Iterates
  <2> HIDE DEF step, N
  <2>2. ASSUME NEW n \in 1..N PROVE f[n] = f[n - 1] + s[n].len
    <3>1. f[n - 1] \in Nat
      BY <1>2, <2>1
    <3> QED
      BY <1>3, <2>1, <3>1
  <2>3. \A n \in 0..N : f[n] = IF n = 0 THEN 0 ELSE f[n - 1] + s[n].len
    <3>1. \A n \in 0..N : n = 0 \/ n \in 1..N
      BY <1>2
    <3> QED
      BY <2>1, <2>2, <3>1
  <2> QED
    BY <2>1, <2>3
<1>7. Sum = [n \in 0..N |-> IF n = 0 THEN 0 ELSE Sum[n - 1] + s[n].len]
  <2> HIDE DEF step, N
  <2> QED
    BY <1>6
<1> HIDE DEF Sum, step
<1>8. /\ Sum[0] = 0
      /\ \A n \in 1..N : Sum[n] = Sum[n - 1] + s[n].len
  BY <1>7
<1>9. \A n \in 0..N : Sum[n] \in Nat
  <2> DEFINE S == {n \in 0..N : Sum[n] \in Nat}
  <2>1. 0 \in S
    BY <1>8
  <2>2. ASSUME NEW n \in 1..N, n - 1 \in S PROVE n \in S
    BY <1>2, <1>8, <2>2
  <2> HIDE DEF S
  <2>3. 0..N \subseteq S
    BY <1>2, <2>1, <2>2, BoundedInduction
  <2> QED
    BY <2>3 DEF S
<1>10. Sum \in [0..N -> Nat]
  <2> HIDE DEF N
  <2>1. Sum = [n \in 0..N |-> Sum[n]]
    <3> DEFINE F(n) == IF n = 0 THEN 0 ELSE Sum[n - 1] + s[n].len
    <3>1. Sum = [n \in 0..N |-> F(n)]
      BY <1>7
    <3> HIDE DEF F
    <3> QED
      BY <3>1
  <2> QED
    BY <1>9, <2>1
<1> QED
  BY <1>1, <1>8, <1>10 DEF AddsUp

\* No record has no bytes.
LEMMA BytesEmpty == Bytes(<< >>) = 0
<1>1. << >> \in Seq({}) /\ Len(<< >>) = 0
  OBVIOUS
<1>2. PICK f : AddsUp(f, << >>) /\ f[Len(<< >>)] = Bytes(<< >>)
  BY <1>1, BytesChain
<1> QED
  BY <1>1, <1>2 DEF AddsUp

\* The bytes are counted by a number.
LEMMA BytesType ==
  ASSUME NEW R, \A r \in R : r.len \in Nat, NEW s \in Seq(R)
  PROVE  Bytes(s) \in Nat
<1>1. PICK f : AddsUp(f, s) /\ f[Len(s)] = Bytes(s)
  BY BytesChain
<1>2. Len(s) \in 0..Len(s)
  OBVIOUS
<1> QED
  BY <1>1, <1>2 DEF AddsUp

\* One more record adds its length.
LEMMA BytesAppend ==
  ASSUME NEW R, \A r \in R : r.len \in Nat, NEW s \in Seq(R), NEW r \in R
  PROVE  Bytes(Append(s, r)) = Bytes(s) + r.len
<1> DEFINE u == Append(s, r)
           N == Len(s)
<1>1. /\ u \in Seq(R) /\ N \in Nat /\ Len(u) = N + 1 /\ u[N + 1] = r
      /\ \A n \in 1..N : u[n] = s[n]
  BY AppendProperties
<1>2. PICK f : AddsUp(f, s) /\ f[N] = Bytes(s)
  BY BytesChain
<1>3. PICK g : AddsUp(g, u) /\ g[Len(u)] = Bytes(u)
  <2> HIDE DEF u
  <2> QED
    BY <1>1, BytesChain
<1> HIDE DEF u, N
<1> DEFINE S == {n \in 0..N : f[n] = g[n]}
<1>4. 0 \in S
  BY <1>1, <1>2, <1>3 DEF AddsUp
<1>5. ASSUME NEW n \in 1..N, n - 1 \in S PROVE n \in S
  <2>1. n \in 1..Len(u) /\ f[n - 1] = g[n - 1] /\ u[n] = s[n]
    BY <1>1, <1>5
  <2>2. f[n] = f[n - 1] + s[n].len
    BY <1>2 DEF AddsUp, N
  <2>3. g[n] = g[n - 1] + u[n].len
    BY <1>3, <2>1 DEF AddsUp
  <2> QED
    BY <1>1, <2>1, <2>2, <2>3
<1> HIDE DEF S
<1>6. 0..N \subseteq S
  BY <1>1, <1>4, <1>5, BoundedInduction
<1>7. f[N] = g[N]
  BY <1>1, <1>6 DEF S
<1>8. g[N + 1] = g[N] + r.len
  <2>1. N + 1 \in 1..Len(u) /\ (N + 1) - 1 = N
    BY <1>1
  <2> QED
    BY <1>1, <1>3, <2>1 DEF AddsUp
<1> QED
  BY <1>1, <1>2, <1>3, <1>7, <1>8 DEF u

\* The bytes of two sequences one after the other.
LEMMA BytesConcat ==
  ASSUME NEW R, \A r \in R : r.len \in Nat, NEW s1 \in Seq(R), NEW s2 \in Seq(R)
  PROVE  Bytes(s1 \o s2) = Bytes(s1) + Bytes(s2)
<1> DEFINE S == {s \in Seq(R) : Bytes(s1 \o s) = Bytes(s1) + Bytes(s)}
<1>1. << >> \in S
  <2>1. s1 \o << >> = s1 /\ << >> \in Seq(R) /\ Bytes(s1) \in Nat
    BY ConcatEmptySeq, BytesType
  <2> QED
    BY <2>1, BytesEmpty
<1>2. ASSUME NEW s \in Seq(R), NEW r \in R, s \in S PROVE Append(s, r) \in S
  <2>1. s1 \o Append(s, r) = Append(s1 \o s, r) /\ s1 \o s \in Seq(R) /\ Append(s, r) \in Seq(R)
    BY ConcatAppend, ConcatProperties, AppendProperties
  <2>2. Bytes(Append(s1 \o s, r)) = Bytes(s1 \o s) + r.len
    BY <2>1, BytesAppend
  <2>3. Bytes(Append(s, r)) = Bytes(s) + r.len
    BY BytesAppend
  <2>4. Bytes(s1 \o s) = Bytes(s1) + Bytes(s)
    BY <1>2
  <2>5. Bytes(s1) \in Nat /\ Bytes(s) \in Nat /\ r.len \in Nat
    BY BytesType
  <2>6. Bytes(s1 \o Append(s, r)) = Bytes(s1) + Bytes(Append(s, r))
    BY <2>1, <2>2, <2>3, <2>4, <2>5
  <2> QED
    BY <2>1, <2>6
<1> HIDE DEF S
<1>3. Seq(R) \subseteq S
  BY <1>1, <1>2, AppendInduction
<1> QED
  BY <1>3 DEF S

-----------------------------------------------------------------------------

\* Whatever is put before a sequence, it is a suffix of the result.
LEMMA ConcatSuffix ==
  ASSUME NEW R, NEW u \in Seq(R), NEW s \in Seq(R)
  PROVE  IsSuffix(s, u \o s)
<1> DEFINE w == u \o s
           rs == Reverse(s)
           rw == Reverse(w)
           N == Len(s)
<1>1. /\ w \in Seq(R) /\ N \in Nat /\ Len(u) \in Nat /\ Len(w) = Len(u) + N
      /\ \A i \in 1..N : w[Len(u) + i] = s[i]
  BY ConcatProperties
<1>2. /\ rs = [i \in 1..N |-> s[(N - i) + 1]]
      /\ rw = [i \in 1..Len(w) |-> w[(Len(w) - i) + 1]]
  BY DEF Reverse
<1>3. /\ \A i \in 1..N : s[(N - i) + 1] \in R
      /\ \A i \in 1..Len(w) : w[(Len(w) - i) + 1] \in R
  <2>1. \A i \in 1..N : (N - i) + 1 \in 1..N
    BY <1>1
  <2>2. \A i \in 1..Len(w) : (Len(w) - i) + 1 \in 1..Len(w)
    BY <1>1
  <2> HIDE DEF w
  <2> QED
    BY <1>1, <2>1, <2>2, ElementOfSeq
<1> HIDE DEF w, rs, rw
<1>4. rs \in Seq(R) /\ Len(rs) = N /\ rw \in Seq(R) /\ Len(rw) = Len(w)
  BY <1>1, <1>2, <1>3, IsASeq
<1>5. ASSUME NEW i \in 1..N PROVE rs[i] = rw[i]
  <2>1. i \in 1..Len(w) /\ (N - i) + 1 \in 1..N
        /\ (Len(w) - i) + 1 = Len(u) + ((N - i) + 1)
    BY <1>1
  <2> QED
    BY <1>1, <1>2, <2>1
<1>6. SubSeq(rs, 1, N) = SubSeq(rw, 1, N)
  <2>1. (\A i \in 1..N : rs[i] \in R) /\ \A i \in 1..N : rw[i] \in R
    BY <1>1, <1>2, <1>3, <1>4, <1>5
  <2>2. /\ SubSeq(rs, 1, N) \in Seq(R) /\ Len(SubSeq(rs, 1, N)) = N
        /\ \A i \in 1..N : SubSeq(rs, 1, N)[i] = rs[i]
    BY <1>1, <2>1, SubSeqProperties
  <2>3. /\ SubSeq(rw, 1, N) \in Seq(R) /\ Len(SubSeq(rw, 1, N)) = N
        /\ \A i \in 1..N : SubSeq(rw, 1, N)[i] = rw[i]
    BY <1>1, <2>1, SubSeqProperties
  <2> QED
    BY <1>5, <2>2, <2>3, SeqEqual
<1>7. IsPrefix(rs, rw)
  BY <1>1, <1>4, <1>6 DEF IsPrefix
<1> QED
  BY <1>7 DEF IsSuffix, rs, rw, w

\* What is left of a sequence when some records are taken off its front.
LEMMA DropFront ==
  ASSUME NEW R, \A r \in R : r.len \in Nat, NEW s \in Seq(R), NEW k \in 0..Len(s)
  PROVE  LET rest == SubSeq(s, k + 1, Len(s))
         IN  /\ rest \in Seq(R) /\ Bytes(rest) <= Bytes(s)
             /\ k = Len(s) => rest = << >>
             /\ EndOf(R, rest, s)
<1> DEFINE rest == SubSeq(s, k + 1, Len(s))
           u == SubSeq(s, 1, k)
<1>1. /\ Len(s) \in Nat /\ k \in Int /\ k + 1 \in Int /\ Len(s) \in Int /\ 1 \in Int
      /\ 1 \in 1..(Len(s) + 1) /\ k \in (1 - 1)..Len(s) /\ Len(s) \in k..Len(s)
  OBVIOUS
<1>2. rest \in Seq(R) /\ u \in Seq(R)
  <2>1. (\A i \in (k + 1)..Len(s) : s[i] \in R) /\ \A i \in 1..k : s[i] \in R
    BY <1>1, ElementOfSeq
  <2> QED
    BY <1>1, <2>1, SubSeqProperties
<1>3. s = u \o rest
  BY <1>1, ConcatAdjacentSubSeq, SubSeqFull
<1>4. k = Len(s) => rest = << >>
  BY <1>1, SubSeqEmpty
<1> HIDE DEF rest, u
<1>5. Bytes(s) = Bytes(u) + Bytes(rest) /\ Bytes(u) \in Nat /\ Bytes(rest) \in Nat
  BY <1>2, <1>3, BytesConcat, BytesType
<1>6. Bytes(rest) <= Bytes(s)
  BY <1>5
<1> QED
  BY <1>2, <1>3, <1>4, <1>6 DEF rest, EndOf

\* Making room takes records off the front until the new one fits in or none is left.
LEMMA MadeRoomDrops ==
  ASSUME NEW R, NEW s \in Seq(R), NEW len
  PROVE  \E k \in 0..Len(s) :
            /\ MadeRoom(s, len) = SubSeq(s, k + 1, Len(s))
            /\ Bytes(SubSeq(s, k + 1, Len(s))) + len <= Capacity \/ k = Len(s)
            /\ Bytes(SubSeq(s, 0 + 1, Len(s))) + len <= Capacity => k = 0
<1> DEFINE Rest(k) == SubSeq(s, k + 1, Len(s))
           T == {k \in 0..Len(s) : Bytes(Rest(k)) + len <= Capacity \/ k = Len(s)}
           k0 == Min(T)
<1>1. MadeRoom(s, len) = Rest(k0)
  BY DEF MadeRoom
<1>2. Len(s) \in Nat /\ Len(s) \in T
  OBVIOUS
<1>3. PICK m \in T : \A n \in T : m <= n
  <2>1. T \in SUBSET (0..Len(s)) /\ T # {}
    BY <1>2
  <2> HIDE DEF T
  <2> QED
    BY <1>2, <2>1, LeastUpTo
<1>4. k0 \in T /\ \A n \in T : k0 <= n
  <2> HIDE DEF T
  <2> QED
    BY <1>3 DEF Min
<1>5. k0 \in 0..Len(s) /\ (Bytes(Rest(k0)) + len <= Capacity \/ k0 = Len(s))
  <2> HIDE DEF k0
  <2> QED
    BY <1>4
<1>6. Bytes(Rest(0)) + len <= Capacity => k0 = 0
  <2> HIDE DEF k0
  <2> QED
    BY <1>2, <1>4
<1> HIDE DEF k0
<1> QED
  BY <1>1, <1>5, <1>6

-----------------------------------------------------------------------------

\* A connection that has a record to add.
Addition ==
  [step : {"sum", "find", "evict", "append"}, pid : Pids, rec : Record,
   k : 1..Len(MapOrder), sum : Nat, largest : Pids \cup {None}, most : Nat]

\* The task of an alert, none of which is raised later than time t.
Task(t) ==
  {[step |-> "none"]} \cup [step : {"asleep"}, pid : Pids, at : 0..t]
    \cup [step : {"done"}, records : Seq(Record)]

\* A buffer is within its capacity, or holds one record that is not.
Fits(s) == Bytes(s) <= Capacity \/ Len(s) = 1

\* The parts of the invariant: the clock and the switches, the buffers, the connections
\* and the tasks.
CountersInv == now \in 0..MaxTime /\ received \in 0..MaxRecords /\ disabled \subseteq Switchable
BuffersInv ==
  /\ buffers \in [Pids -> Seq(Record)] /\ appended \in [Pids -> Seq(Record)]
  /\ \A p \in Pids : Fits(buffers[p]) /\ EndOf(Record, buffers[p], appended[p])
AddingInv ==
  /\ adding \in [Conns -> {Idle} \cup Addition]
  /\ \A c \in Conns : adding[c].step = "evict" => adding[c].largest \in Pids
FlushInv == flush \in [Alerts -> Task(now)]

\* What the buffers, the connections and the alerts' tasks are at any time: a buffer
\* is the newest part of what was appended, and within its capacity.
IInv == CountersInv /\ BuffersInv /\ AddingInv /\ FlushInv

\* What the proofs need of the constants.
LEMMA Constants ==
  /\ \A r \in Record : r.len \in Nat
  /\ {Capacity, GlobalCapacity, Before, After, MaxRecords, MaxTime} \subseteq Nat
  /\ None \notin Pids /\ MapOrder \in Seq(Pids)
  /\ IsFiniteSet(Pids) /\ IsFiniteSet(Conns) /\ IsInjective(MapOrder)
  /\ \A k \in 1..Len(MapOrder) : MapOrder[k] \in Pids
  /\ \A p \in Pids : Len(MapOrder) \in Nat /\ 1 \in 1..Len(MapOrder)
<1>1. /\ MapOrder \in Seq(Pids) /\ ToSet(MapOrder) = Pids /\ Lengths \subseteq Nat
      /\ {Capacity, GlobalCapacity, Before, After, MaxRecords, MaxTime} \subseteq Nat
      /\ None \notin Pids /\ IsFiniteSet(Pids) /\ IsFiniteSet(Conns) /\ IsInjective(MapOrder)
  BY BufferAssumption
<1>2. \A r \in Record : r.len \in Nat
  BY <1>1 DEF Record
<1>3. \A k \in 1..Len(MapOrder) : MapOrder[k] \in Pids
  BY <1>1, ElementOfSeq
<1>4. \A p \in Pids : Len(MapOrder) \in Nat /\ 1 \in 1..Len(MapOrder)
  <2> SUFFICES ASSUME NEW p \in Pids PROVE Len(MapOrder) \in Nat /\ 1 \in 1..Len(MapOrder)
    OBVIOUS
  <2>1. PICK i \in DOMAIN MapOrder : MapOrder[i] = p
    BY <1>1 DEF ToSet
  <2>2. DOMAIN MapOrder = 1..Len(MapOrder) /\ Len(MapOrder) \in Nat
    BY <1>1, LenProperties
  <2> QED
    BY <2>1, <2>2
<1> QED
  BY <1>1, <1>2, <1>3, <1>4

\* Dropping the oldest record leaves a buffer within its capacity.
LEMMA DropOldest ==
  ASSUME NEW s \in Seq(Record), s # << >>, Fits(s)
  PROVE  /\ Tail(s) \in Seq(Record) /\ Fits(Tail(s))
         /\ EndOf(Record, Tail(s), s)
<1>1. /\ Tail(s) \in Seq(Record) /\ Len(s) \in Nat /\ Len(s) >= 1
      /\ Tail(s) = SubSeq(s, 1 + 1, Len(s))
  <2>1. Len(s) \in Nat /\ Len(s) # 0
    BY EmptySeq
  <2>2. Tail(s) \in Seq(Record) /\ Tail(s) = SubSeq(s, 2, Len(s))
    BY HeadTailProperties, TailIsSubSeq
  <2> QED
    BY <2>1, <2>2
<1>2. EndOf(Record, Tail(s), s) /\ Bytes(Tail(s)) <= Bytes(s) /\ (Len(s) = 1 => Tail(s) = << >>)
  <2>1. 1 \in 0..Len(s) /\ (1 = Len(s) <=> Len(s) = 1)
    BY <1>1
  <2> QED
    BY <1>1, <2>1, Constants, DropFront
<1>3. Bytes(s) \in Nat /\ Bytes(Tail(s)) \in Nat /\ Capacity \in Nat
  BY <1>1, Constants, BytesType
<1>4. Fits(Tail(s))
  <2>1. CASE Bytes(s) <= Capacity
    <3>1. Bytes(Tail(s)) <= Capacity
      BY <1>2, <1>3, <2>1
    <3> QED
      BY <3>1 DEF Fits
  <2>2. CASE Len(s) = 1
    <3>1. Bytes(Tail(s)) = 0
      BY <1>2, <2>2, BytesEmpty
    <3> QED
      BY <1>3, <3>1 DEF Fits
  <2> QED
    BY <2>1, <2>2 DEF Fits
<1> QED
  BY <1>1, <1>2, <1>4

\* The new record fits into the room that is made for it, or is alone.
LEMMA NewRecordFits ==
  ASSUME NEW s \in Seq(Record), NEW r \in Record
  PROVE  /\ MadeRoom(s, r.len) \in Seq(Record)
         /\ Append(MadeRoom(s, r.len), r) \in Seq(Record)
         /\ Fits(Append(MadeRoom(s, r.len), r))
         /\ EndOf(Record, MadeRoom(s, r.len), s)
<1>1. PICK k \in 0..Len(s) :
         /\ MadeRoom(s, r.len) = SubSeq(s, k + 1, Len(s))
         /\ Bytes(SubSeq(s, k + 1, Len(s))) + r.len <= Capacity \/ k = Len(s)
  BY MadeRoomDrops
<1> DEFINE m == MadeRoom(s, r.len)
<1>2. m \in Seq(Record) /\ EndOf(Record, m, s) /\ (k = Len(s) => m = << >>)
  BY <1>1, Constants, DropFront
<1>3. Bytes(m) + r.len <= Capacity \/ m = << >>
  BY <1>1, <1>2
<1> HIDE DEF m
<1>4. Append(m, r) \in Seq(Record) /\ Bytes(Append(m, r)) = Bytes(m) + r.len
  BY <1>2, Constants, BytesAppend, AppendProperties
<1>5. m = << >> => Len(Append(m, r)) = 1
  BY <1>2, AppendProperties, EmptySeq
<1>6. Fits(Append(m, r))
  BY <1>3, <1>4, <1>5 DEF Fits
<1> QED
  BY <1>2, <1>4, <1>6 DEF m

\* The buffers are empty at first.
LEMMA InitIInv == Init => IInv
<1> SUFFICES ASSUME Init PROVE IInv
  OBVIOUS
<1>1. Bytes(<< >>) <= Capacity /\ << >> \in Seq(Record) /\ EndOf(Record, << >>, << >>)
  <2>1. << >> \in Seq(Record) /\ Capacity \in Nat
    BY Constants
  <2>2. << >> \o << >> = << >>
    BY <2>1, ConcatEmptySeq
  <2>3. EndOf(Record, << >>, << >>)
    BY <2>1, <2>2 DEF EndOf
  <2> QED
    BY <2>1, <2>3, BytesEmpty
<1>2. CountersInv /\ FlushInv
  BY Constants DEF Init, CountersInv, FlushInv, Task
<1>3. BuffersInv
  BY <1>1 DEF Init, BuffersInv, Fits
<1>4. AddingInv
  BY DEF Init, AddingInv, Idle
<1> QED
  BY <1>2, <1>3, <1>4 DEF IInv

\* What a connection that is adding a record is.
LEMMA AdditionOf ==
  ASSUME AddingInv, NEW c \in Conns, adding[c].step # "idle"
  PROVE  adding[c] \in Addition
BY DEF AddingInv, Idle

\* A step of add_record leaves behind what a connection may be.
LEMMA GotoType ==
  ASSUME AddingInv, NEW c \in Conns, adding[c].step # "idle",
         NEW step \in {"sum", "find", "append"}, NEW p \in Pids
  PROVE  /\ Goto(c, step) \in Addition /\ Goto(c, step).step = step
         /\ [Goto(c, "evict") EXCEPT !.largest = p] \in Addition
         /\ [Goto(c, "evict") EXCEPT !.largest = p].largest = p
BY AdditionOf, Constants DEF Goto, Addition

\* Every step keeps a buffer the end of what was appended.
LEMMA NextIInv == IInv /\ [Next]_vars => IInv'
<1> SUFFICES ASSUME IInv, [Next]_vars PROVE IInv'
  OBVIOUS
<1>1. CountersInv /\ BuffersInv /\ AddingInv /\ FlushInv
  BY DEF IInv
<1>2. CASE Tick
  <2>1. CountersInv' /\ BuffersInv' /\ AddingInv'
    BY <1>1, <1>2, Constants DEF Tick, CountersInv, BuffersInv, AddingInv
  <2>2. \A at \in 0..now : at \in 0..now'
    BY <1>1, <1>2, Constants DEF Tick, CountersInv
  <2>3. FlushInv'
    BY <1>1, <1>2, <2>2 DEF Tick, FlushInv, Task
  <2> QED
    BY <2>1, <2>3 DEF IInv
<1>3. ASSUME NEW p \in Pids, SwitchCapture(p) PROVE IInv'
  <2>1. CountersInv'
    BY <1>1, <1>3 DEF SwitchCapture, CountersInv, SymDiff
  <2>2. BuffersInv' /\ AddingInv' /\ FlushInv'
    BY <1>1, <1>3 DEF SwitchCapture, BuffersInv, AddingInv, FlushInv
  <2> QED
    BY <2>1, <2>2 DEF IInv
<1>4. ASSUME NEW c \in Conns, NEW p \in Pids, NEW len \in Lengths, Receive(c, p, len) PROVE IInv'
  <2> DEFINE r == [id |-> received + 1, len |-> len, at |-> now]
             a == [step |-> "sum", pid |-> p, rec |-> r,
                   k |-> 1, sum |-> 0, largest |-> None, most |-> 0]
  <2>1. r \in Record /\ received' \in 0..MaxRecords
    BY <1>1, <1>4, Constants DEF Receive, CountersInv, Record
  <2>2. a \in Addition /\ a.step = "sum"
    BY <2>1, Constants DEF Addition
  <2>3. CountersInv' /\ BuffersInv' /\ FlushInv'
    BY <1>1, <1>4, <2>1 DEF Receive, CountersInv, BuffersInv, FlushInv
  <2>4. adding' = [adding EXCEPT ![c] = a]
    BY <1>4 DEF Receive
  <2> HIDE DEF a
  <2>5. AddingInv'
    BY <1>1, <2>2, <2>4 DEF AddingInv
  <2> QED
    BY <2>3, <2>5 DEF IInv
<1>5. ASSUME NEW c \in Conns, SumNext(c) PROVE IInv'
  <2> DEFINE a == adding[c]
             total == a.sum + Bytes(buffers[MapOrder[a.k]])
             b == IF a.k < Len(MapOrder) THEN [a EXCEPT !.k = @ + 1, !.sum = total]
                  ELSE Goto(c, IF TooMuch(total + a.rec.len) THEN "find" ELSE "append")
  <2>1. a.step = "sum" /\ a \in Addition /\ adding' = [adding EXCEPT ![c] = b]
    BY <1>1, <1>5, AdditionOf DEF SumNext
  <2>2. a.k \in 1..Len(MapOrder) /\ a.sum \in Nat /\ a.pid \in Pids
    BY <2>1 DEF Addition
  <2>3. total \in Nat
    <3>1. buffers[MapOrder[a.k]] \in Seq(Record)
      BY <1>1, <2>2, Constants DEF BuffersInv
    <3>2. Bytes(buffers[MapOrder[a.k]]) \in Nat
      BY <3>1, Constants, BytesType
    <3> QED
      BY <2>2, <3>2
  <2> HIDE DEF total
  <2>4. b \in Addition /\ b.step # "evict"
    <3>1. CASE a.k < Len(MapOrder)
      <4>1. a.k + 1 \in 1..Len(MapOrder)
        BY <2>2, <3>1, Constants
      <4> QED
        BY <2>1, <2>3, <3>1, <4>1 DEF Addition
    <3>2. CASE ~(a.k < Len(MapOrder))
      BY <1>1, <2>1, <2>2, <3>2, GotoType
    <3> QED
      BY <3>1, <3>2
  <2> HIDE DEF b
  <2>5. AddingInv'
    BY <1>1, <2>1, <2>4 DEF AddingInv
  <2>6. CountersInv' /\ BuffersInv' /\ FlushInv'
    BY <1>1, <1>5 DEF SumNext, CountersInv, BuffersInv, FlushInv
  <2> QED
    BY <2>5, <2>6 DEF IInv
<1>6. ASSUME NEW c \in Conns, FindNext(c) PROVE IInv'
  <2> DEFINE a == adding[c]
             p == MapOrder[a.k]
             found == IF Bytes(buffers[p]) > a.most
                      THEN [a EXCEPT !.largest = p, !.most = Bytes(buffers[p])] ELSE a
             b == IF a.k < Len(MapOrder) THEN [found EXCEPT !.k = @ + 1]
                  ELSE IF found.largest = None THEN Goto(c, "append")
                  ELSE [Goto(c, "evict") EXCEPT !.largest = found.largest]
  <2>1. a.step = "find" /\ a \in Addition /\ adding' = [adding EXCEPT ![c] = b]
    BY <1>1, <1>6, AdditionOf DEF FindNext
  <2>2. a.k \in 1..Len(MapOrder) /\ a.most \in Nat /\ a.pid \in Pids /\ p \in Pids
    BY <2>1, Constants DEF Addition
  <2>3. Bytes(buffers[p]) \in Nat
    <3>1. buffers[p] \in Seq(Record)
      BY <1>1, <2>2 DEF BuffersInv
    <3> QED
      BY <3>1, Constants, BytesType
  <2> HIDE DEF p
  <2>4. found \in Addition /\ found.step = "find" /\ found.k = a.k
    BY <2>1, <2>2, <2>3 DEF Addition
  <2> HIDE DEF found
  <2>5. b \in Addition /\ (b.step = "evict" => b.largest \in Pids)
    <3>1. CASE a.k < Len(MapOrder)
      <4>1. a.k + 1 \in 1..Len(MapOrder)
        BY <2>2, <3>1, Constants
      <4> QED
        BY <2>4, <3>1, <4>1 DEF Addition
    <3>2. CASE ~(a.k < Len(MapOrder)) /\ found.largest = None
      BY <1>1, <2>1, <2>2, <3>2, GotoType
    <3>3. CASE ~(a.k < Len(MapOrder)) /\ found.largest # None
      <4>1. found.largest \in Pids
        BY <2>4, <3>3 DEF Addition
      <4> QED
        BY <1>1, <2>1, <3>3, <4>1, GotoType
    <3> QED
      BY <3>1, <3>2, <3>3
  <2> HIDE DEF b
  <2>6. AddingInv'
    BY <1>1, <2>1, <2>5 DEF AddingInv
  <2>7. CountersInv' /\ BuffersInv' /\ FlushInv'
    BY <1>1, <1>6 DEF FindNext, CountersInv, BuffersInv, FlushInv
  <2> QED
    BY <2>6, <2>7 DEF IInv
<1>7. ASSUME NEW c \in Conns, EvictLargest(c) PROVE IInv'
  <2> DEFINE p == adding[c].largest
             s == IF buffers[p] = << >> THEN << >> ELSE Tail(buffers[p])
  <2>1. /\ adding[c].step = "evict" /\ p \in Pids /\ adding[c] \in Addition
        /\ buffers' = [buffers EXCEPT ![p] = s]
        /\ adding' = [adding EXCEPT ![c] = Goto(c, "append")]
    BY <1>1, <1>7, AdditionOf DEF EvictLargest, AddingInv
  <2>2. buffers[p] \in Seq(Record) /\ Fits(buffers[p]) /\ EndOf(Record, buffers[p], appended[p])
    BY <1>1, <2>1 DEF BuffersInv
  <2> HIDE DEF p
  <2>3. s \in Seq(Record) /\ Fits(s) /\ EndOf(Record, s, appended[p])
    <3>1. CASE buffers[p] = << >>
      BY <2>2, <3>1
    <3>2. CASE buffers[p] # << >>
      <4>1. Tail(buffers[p]) \in Seq(Record) /\ Fits(Tail(buffers[p]))
            /\ EndOf(Record, Tail(buffers[p]), buffers[p])
        BY <2>2, <3>2, DropOldest
      <4> QED
        BY <2>2, <3>2, <4>1, EndOfEnd
    <3> QED
      BY <3>1, <3>2
  <2> HIDE DEF s
  <2>4. BuffersInv'
    BY <1>1, <1>7, <2>1, <2>3 DEF EvictLargest, BuffersInv
  <2>5. AddingInv'
    <3>1. Goto(c, "append") \in Addition /\ Goto(c, "append").step = "append"
      BY <1>1, <2>1, GotoType
    <3> QED
      BY <1>1, <2>1, <3>1 DEF AddingInv
  <2>6. CountersInv' /\ FlushInv'
    BY <1>1, <1>7 DEF EvictLargest, CountersInv, FlushInv
  <2> QED
    BY <2>4, <2>5, <2>6 DEF IInv
<1>8. ASSUME NEW c \in Conns, AppendRecord(c) PROVE IInv'
  <2> DEFINE p == adding[c].pid
             r == adding[c].rec
             m == MadeRoom(buffers[p], r.len)
  <2>1. /\ adding[c].step = "append" /\ adding[c] \in Addition
        /\ buffers' = [buffers EXCEPT ![p] = Append(m, r)]
        /\ appended' = [appended EXCEPT ![p] = Append(appended[p], r)]
        /\ adding' = [adding EXCEPT ![c] = Idle]
    BY <1>1, <1>8, AdditionOf DEF AppendRecord
  <2>2. p \in Pids /\ r \in Record
    BY <2>1 DEF Addition
  <2> HIDE DEF p, r
  <2>3. /\ buffers[p] \in Seq(Record) /\ appended[p] \in Seq(Record)
        /\ EndOf(Record, buffers[p], appended[p])
    BY <1>1, <2>2 DEF BuffersInv
  <2>4. /\ m \in Seq(Record) /\ Append(m, r) \in Seq(Record) /\ Fits(Append(m, r))
        /\ EndOf(Record, m, buffers[p])
    BY <2>2, <2>3, NewRecordFits
  <2> HIDE DEF m
  <2>5. EndOf(Record, Append(m, r), Append(appended[p], r))
    <3>1. EndOf(Record, m, appended[p])
      BY <2>3, <2>4, EndOfEnd
    <3> QED
      BY <2>2, <2>4, <3>1, EndOfAppend
  <2>6. Append(appended[p], r) \in Seq(Record)
    BY <2>2, <2>3, AppendProperties
  <2>7. BuffersInv'
    BY <1>1, <2>1, <2>2, <2>4, <2>5, <2>6 DEF BuffersInv
  <2>8. AddingInv'
    BY <1>1, <2>1 DEF AddingInv, Idle
  <2>9. CountersInv' /\ FlushInv'
    BY <1>1, <1>8 DEF AppendRecord, CountersInv, FlushInv
  <2> QED
    BY <2>7, <2>8, <2>9 DEF IInv
<1>9. ASSUME NEW a \in Alerts, NEW p \in Pids, Alert(a, p) PROVE IInv'
  <2>1. [step |-> "asleep", pid |-> p, at |-> now] \in Task(now)
    BY <1>1, Constants DEF CountersInv, Task
  <2>2. FlushInv'
    BY <1>1, <1>9, <2>1 DEF Alert, FlushInv
  <2>3. CountersInv' /\ BuffersInv' /\ AddingInv'
    BY <1>1, <1>9 DEF Alert, CountersInv, BuffersInv, AddingInv
  <2> QED
    BY <2>2, <2>3 DEF IInv
<1>10. ASSUME NEW a \in Alerts, Collect(a) PROVE IInv'
  <2> DEFINE f == flush[a]
             e == Evidence(buffers[f.pid], f.at)
  <2>1. f.step = "asleep" /\ f \in Task(now)
        /\ flush' = [flush EXCEPT ![a] = [step |-> "done", records |-> e]]
    BY <1>1, <1>10 DEF Collect, FlushInv
  <2>2. f.pid \in Pids
    BY <2>1 DEF Task
  <2>3. e \in Seq(Record)
    <3>1. buffers[f.pid] \in Seq(Record)
      BY <1>1, <2>2 DEF BuffersInv
    <3> QED
      BY <3>1, EvidenceType
  <2> HIDE DEF f, e
  <2>4. [step |-> "done", records |-> e] \in Task(now)
    BY <2>3 DEF Task
  <2>5. FlushInv'
    BY <1>1, <1>10, <2>1, <2>4 DEF Collect, FlushInv
  <2>6. CountersInv' /\ BuffersInv' /\ AddingInv'
    BY <1>1, <1>10 DEF Collect, CountersInv, BuffersInv, AddingInv
  <2> QED
    BY <2>5, <2>6 DEF IInv
<1>11. CASE UNCHANGED vars
  BY <1>1, <1>11 DEF vars, IInv, CountersInv, BuffersInv, AddingInv, FlushInv
<1> QED
  BY <1>2, <1>3, <1>4, <1>5, <1>6, <1>7, <1>8, <1>9, <1>10, <1>11
     DEF Next, AddRecord, FlushOnAlert

\* The invariant of the specification.
LEMMA SpecIInv == Spec => []IInv
BY InitIInv, NextIInv, PTL DEF Spec

\* A buffer is within its capacity, unless it holds one record that is larger by
\* itself, and the connections and tasks are what TypeOK says, for all limits,
\* processes and connections: whatever add_record does between two locks.
THEOREM TypeCorrect == Spec => []TypeOK
<1>1. IInv => TypeOK
  <2> SUFFICES ASSUME IInv PROVE TypeOK
    OBVIOUS
  <2>1. CountersInv /\ BuffersInv /\ AddingInv /\ FlushInv
    BY DEF IInv
  <2>2. ASSUME NEW c \in Conns, Adding(c)
        PROVE  /\ adding[c].step \in {"sum", "find", "evict", "append"}
               /\ adding[c].pid \in Pids /\ adding[c].rec \in Record
               /\ adding[c].k \in 1..Len(MapOrder)
               /\ adding[c].largest \in IF adding[c].step = "evict" THEN Pids
                                        ELSE Pids \cup {None}
    <3>1. adding[c] \in Addition
      BY <2>1, <2>2 DEF AddingInv, Adding
    <3> QED
      BY <2>1, <3>1 DEF AddingInv, Addition
  <2>3. ASSUME NEW a \in Alerts
        PROVE  /\ flush[a].step \in {"none", "asleep", "done"}
               /\ flush[a].step = "asleep" => flush[a].pid \in Pids /\ flush[a].at \in 0..now
               /\ flush[a].step = "done" => flush[a].records \in Seq(Record)
    <3>1. flush[a] \in Task(now)
      BY <2>1 DEF FlushInv
    <3> QED
      BY <3>1 DEF Task
  <2>4. /\ now \in 0..MaxTime /\ received \in 0..MaxRecords /\ disabled \subseteq Switchable
        /\ buffers \in [Pids -> Seq(Record)] /\ appended \in [Pids -> Seq(Record)]
        /\ \A p \in Pids : Bytes(buffers[p]) <= Capacity \/ Len(buffers[p]) = 1
    BY <2>1 DEF CountersInv, BuffersInv, Fits
  <2> QED
    BY <2>2, <2>3, <2>4 DEF TypeOK
<1> QED
  BY <1>1, SpecIInv, PTL

\* The evidence of an alert has no holes, for all limits, windows, processes and
\* connections: flush_on_alert takes the newest part of what was recorded around
\* the alert, because a buffer is always the newest part of what add_record
\* appended to it, and picking the records of a window keeps that.
THEOREM EvidenceHasNoHoles == Spec => NoHoles
<1> DEFINE Step == \A a \in Alerts :
             flush[a].step = "asleep" /\ flush'[a].step = "done"
               => IsSuffix(flush'[a].records,
                           Evidence(appended[flush[a].pid], flush[a].at))
<1>1. IInv /\ [Next]_vars => [Step]_vars
  <2> SUFFICES ASSUME IInv, Next, NEW a \in Alerts,
                      flush[a].step = "asleep", flush'[a].step = "done"
               PROVE  IsSuffix(flush'[a].records,
                               Evidence(appended[flush[a].pid], flush[a].at))
    OBVIOUS
  <2>1. BuffersInv /\ FlushInv
    BY DEF IInv
  <2>2. Collect(a)
    <3>1. flush' # flush
      BY <2>1 DEF FlushInv
    <3>2. PICK b \in Alerts : FlushOnAlert(b)
      BY <3>1 DEF Next, Tick, SwitchCapture, AddRecord, Receive, SumNext, FindNext,
                  EvictLargest, AppendRecord
    <3>3. CASE \E p \in Pids : Alert(b, p)
      BY <2>1, <3>3 DEF Alert, FlushInv
    <3>4. CASE Collect(b)
      <4>1. b = a
        BY <2>1, <3>4 DEF Collect, FlushInv
      <4> QED
        BY <3>4, <4>1
    <3> QED
      BY <3>2, <3>3, <3>4 DEF FlushOnAlert
  <2> DEFINE p == flush[a].pid
             t == flush[a].at
  <2>3. p \in Pids
    <3>1. flush[a] \in Task(now)
      BY <2>1 DEF FlushInv
    <3> QED
      BY <3>1 DEF Task
  <2>4. flush'[a].records = Evidence(buffers[p], t)
    BY <2>1, <2>2 DEF Collect, FlushInv
  <2> HIDE DEF p, t
  <2>5. buffers[p] \in Seq(Record) /\ EndOf(Record, buffers[p], appended[p])
    BY <2>1, <2>3 DEF BuffersInv
  <2>6. PICK u \in Seq(Record) : appended[p] = u \o buffers[p]
    BY <2>5 DEF EndOf
  <2>7. Evidence(u \o buffers[p], t) = Evidence(u, t) \o Evidence(buffers[p], t)
    BY <2>5, EvidenceConcat
  <2>8. Evidence(u, t) \in Seq(Record) /\ Evidence(buffers[p], t) \in Seq(Record)
    BY <2>5, EvidenceType
  <2>9. IsSuffix(Evidence(buffers[p], t), Evidence(u, t) \o Evidence(buffers[p], t))
    BY <2>8, ConcatSuffix
  <2>10. IsSuffix(flush'[a].records, Evidence(appended[p], t))
    BY <2>4, <2>6, <2>7, <2>9
  <2> QED
    BY <2>10 DEF p, t
<1> HIDE DEF Step
<1>2. Spec => [][Step]_vars
  BY <1>1, SpecIInv, PTL DEF Spec
<1> QED
  BY <1>2 DEF NoHoles, Step

-----------------------------------------------------------------------------
(* Below the limits nothing is lost *)

\* The buffers a connection has added up when it comes to the k-th.
Counted(k) == {MapOrder[i] : i \in 1..(k - 1)}

\* A connection has counted no more than was appended, and looks for a buffer to
\* drop from only when all that add_record got exceeds the limit.
SumsInv ==
  \A c \in Conns :
     adding[c].step = "sum" => adding[c].sum <= SumOf(Held, Counted(adding[c].k))
SearchInv ==
  Volume(Pids) <= GlobalCapacity => \A c \in Conns : adding[c].step \notin {"find", "evict"}

\* The sums of the model are those of Induction.
LEMMA TotalSum == \A f, S : Total(f, S) = SumOf(f, S)
BY DEF Total, SumOf

\* Volume is the sum of what was appended and of what is coming.
LEMMA VolumeSum == \A P : Volume(P) = SumOf(Held, P) + SumOf(Coming(P), Conns)
BY TotalSum DEF Volume

\* What is summed up are numbers.
LEMMA HeldNumbers ==
  ASSUME NEW app \in [Pids -> Seq(Record)]
  PROVE  [p \in Pids |-> Bytes(app[p])] \in [Pids -> Nat]
<1>1. \A p \in Pids : app[p] \in Seq(Record)
  OBVIOUS
<1>2. \A p \in Pids : Bytes(app[p]) \in Nat
  BY <1>1, Constants, BytesType
<1> QED
  BY <1>2

\* So is what is coming.
LEMMA ComingNumbers ==
  ASSUME NEW add \in [Conns -> {Idle} \cup Addition], NEW P
  PROVE  [c \in Conns |-> IF add[c] # Idle /\ add[c].pid \in P THEN add[c].rec.len ELSE 0]
            \in [Conns -> Nat]
<1>1. \A c \in Conns : add[c] # Idle => add[c].rec.len \in Nat
  BY Constants DEF Addition
<1> QED
  BY <1>1

\* What is summed up, in a state.
LEMMA Terms ==
  ASSUME BuffersInv, AddingInv
  PROVE  /\ \A p \in Pids : Held[p] = Bytes(appended[p]) /\ Held[p] \in Nat
         /\ \A P : \A c \in Conns : Coming(P)[c] \in Nat
<1>1. Held \in [Pids -> Nat]
  BY HeldNumbers DEF BuffersInv, Held
<1>2. \A P : Coming(P) \in [Conns -> Nat]
  BY ComingNumbers DEF AddingInv, Coming, Adding
<1>3. \A p \in Pids : Held[p] = Bytes(appended[p])
  BY DEF Held
<1> QED
  BY <1>1, <1>2, <1>3

\* What is in a buffer was appended, and counts as such.
LEMMA BufferBelowAppended ==
  ASSUME BuffersInv, NEW p \in Pids
  PROVE  Bytes(buffers[p]) \in Nat /\ Bytes(buffers[p]) <= Bytes(appended[p])
<1>1. buffers[p] \in Seq(Record) /\ EndOf(Record, buffers[p], appended[p])
  BY DEF BuffersInv
<1>2. PICK u \in Seq(Record) : appended[p] = u \o buffers[p]
  BY <1>1 DEF EndOf
<1>3. Bytes(u \o buffers[p]) = Bytes(u) + Bytes(buffers[p])
  BY <1>1, Constants, BytesConcat
<1>4. Bytes(u) \in Nat /\ Bytes(buffers[p]) \in Nat
  BY <1>1, Constants, BytesType
<1> QED
  BY <1>2, <1>3, <1>4

\* The volume is a number, as large as each thing that is counted in it.
LEMMA VolumeBounds ==
  ASSUME BuffersInv, AddingInv, NEW P \in SUBSET Pids
  PROVE  /\ SumOf(Held, P) \in Nat /\ SumOf(Coming(P), Conns) \in Nat /\ Volume(P) \in Nat
         /\ \A c \in Conns : Coming(P)[c] <= SumOf(Coming(P), Conns)
         /\ \A Q \in SUBSET P : SumOf(Held, Q) <= SumOf(Held, P)
         /\ \A p \in P : Held[p] <= SumOf(Held, P)
<1> DEFINE coming == Coming(P)
<1>1. IsFiniteSet(P) /\ IsFiniteSet(Conns)
  BY Constants, FS_Subset
<1>2. (\A p \in P : Held[p] \in Nat) /\ \A c \in Conns : coming[c] \in Nat
  BY Terms
<1> HIDE DEF coming
<1>3. /\ SumOf(Held, P) \in Nat
      /\ \A Q \in SUBSET P : SumOf(Held, Q) \in Nat /\ SumOf(Held, Q) <= SumOf(Held, P)
      /\ \A p \in P : SumOf(Held, P) = Held[p] + SumOf(Held, P \ {p})
  BY <1>1, <1>2, SumProperties
<1>4. /\ SumOf(coming, Conns) \in Nat
      /\ \A Q \in SUBSET Conns : SumOf(coming, Q) \in Nat
      /\ \A c \in Conns : SumOf(coming, Conns) = coming[c] + SumOf(coming, Conns \ {c})
  BY <1>1, <1>2, SumProperties
<1>5. \A c \in Conns : coming[c] <= SumOf(coming, Conns)
  <2> SUFFICES ASSUME NEW c \in Conns PROVE coming[c] <= SumOf(coming, Conns)
    OBVIOUS
  <2>1. Conns \ {c} \in SUBSET Conns
    OBVIOUS
  <2>2. SumOf(coming, Conns \ {c}) \in Nat
    BY <1>4, <2>1
  <2> QED
    BY <1>2, <1>4, <2>2
<1>6. \A p \in P : Held[p] <= SumOf(Held, P)
  <2> SUFFICES ASSUME NEW p \in P PROVE Held[p] <= SumOf(Held, P)
    OBVIOUS
  <2>1. P \ {p} \in SUBSET P
    OBVIOUS
  <2>2. SumOf(Held, P \ {p}) \in Nat
    BY <1>3, <2>1
  <2> QED
    BY <1>2, <1>3, <2>2
<1>7. Volume(P) \in Nat
  BY <1>3, <1>4, VolumeSum DEF coming
<1> QED
  BY <1>3, <1>4, <1>5, <1>6, <1>7 DEF coming

\* The volume only grows when what was appended and what is coming do.
LEMMA VolumeGrows ==
  ASSUME BuffersInv, AddingInv, BuffersInv', AddingInv', NEW P \in SUBSET Pids,
         \A p \in P : Held[p] <= Held'[p],
         \A c \in Conns : Coming(P)[c] <= Coming(P)'[c]
  PROVE  Volume(P) \in Nat /\ Volume(P)' \in Nat /\ Volume(P) <= Volume(P)'
<1> DEFINE f == Held
           h == Held'
           f1 == Coming(P)
           h1 == Coming(P)'
<1>1. f \in [Pids -> Nat] /\ h \in [Pids -> Nat]
  BY HeldNumbers DEF BuffersInv, Held
<1>2. f1 \in [Conns -> Nat] /\ h1 \in [Conns -> Nat]
  BY ComingNumbers DEF AddingInv, Coming, Adding
<1>3. (\A p \in P : f[p] <= h[p]) /\ \A c \in Conns : f1[c] <= h1[c]
  OBVIOUS
<1>4. Volume(P) = SumOf(f, P) + SumOf(f1, Conns) /\ Volume(P)' = SumOf(h, P) + SumOf(h1, Conns)
  BY TotalSum DEF Volume
<1>5. IsFiniteSet(P) /\ IsFiniteSet(Conns)
  BY Constants, FS_Subset
<1> HIDE DEF f, h, f1, h1
<1>6. SumOf(f, P) \in Nat /\ SumOf(h, P) \in Nat /\ SumOf(f, P) <= SumOf(h, P)
  BY <1>1, <1>3, <1>5, SumMonotone, SumProperties
<1>7. SumOf(f1, Conns) \in Nat /\ SumOf(h1, Conns) \in Nat /\ SumOf(f1, Conns) <= SumOf(h1, Conns)
  BY <1>2, <1>3, <1>5, SumMonotone, SumProperties
<1> QED
  BY <1>4, <1>6, <1>7

\* The volume does not change while no record is received, only appended.
LEMMA VolumeMoves ==
  ASSUME BuffersInv, AddingInv, BuffersInv', AddingInv', NEW P \in SUBSET Pids,
         NEW p \in Pids, NEW c \in Conns, NEW len \in Nat,
         \A q \in Pids : q # p => Held'[q] = Held[q], Held'[p] = Held[p] + len,
         \A d \in Conns : d # c => Coming(P)'[d] = Coming(P)[d],
         p \in P => Coming(P)[c] = len /\ Coming(P)'[c] = 0,
         p \notin P => Coming(P)'[c] = Coming(P)[c]
  PROVE  Volume(P)' = Volume(P)
<1> DEFINE f == Held
           h == Held'
           f1 == Coming(P)
           h1 == Coming(P)'
<1>1. f \in [Pids -> Nat] /\ h \in [Pids -> Nat]
  BY HeldNumbers DEF BuffersInv, Held
<1>2. f1 \in [Conns -> Nat] /\ h1 \in [Conns -> Nat]
  BY ComingNumbers DEF AddingInv, Coming, Adding
<1>3. /\ \A q \in Pids : q # p => h[q] = f[q]
      /\ h[p] = f[p] + len
      /\ \A d \in Conns : d # c => h1[d] = f1[d]
      /\ p \in P => f1[c] = len /\ h1[c] = 0
      /\ p \notin P => h1[c] = f1[c]
  OBVIOUS
<1>4. Volume(P) = SumOf(f, P) + SumOf(f1, Conns) /\ Volume(P)' = SumOf(h, P) + SumOf(h1, Conns)
  BY TotalSum DEF Volume
<1>5. IsFiniteSet(P) /\ IsFiniteSet(Conns)
  BY Constants, FS_Subset
<1> HIDE DEF f, h, f1, h1
<1>6. /\ SumOf(f, P) \in Nat /\ SumOf(h, P) \in Nat
      /\ SumOf(f1, Conns) \in Nat /\ SumOf(h1, Conns) \in Nat
  BY <1>1, <1>2, <1>5, SumProperties
<1>7. CASE p \in P
  <2>1. SumOf(h, P) + f[p] = SumOf(f, P) + h[p]
    BY <1>1, <1>3, <1>5, <1>7, SumChange
  <2>2. SumOf(h1, Conns) + f1[c] = SumOf(f1, Conns) + h1[c]
    BY <1>2, <1>3, <1>5, SumChange
  <2>3. f[p] \in Nat
    BY <1>1
  <2> QED
    BY <1>3, <1>4, <1>6, <1>7, <2>1, <2>2, <2>3
<1>8. CASE p \notin P
  <2>1. (\A q \in P : h[q] = f[q] /\ h[q] \in Nat) /\ \A d \in Conns : h1[d] = f1[d] /\ h1[d] \in Nat
    BY <1>1, <1>2, <1>3, <1>8
  <2>2. \A q \in P : h[q] \in Nat /\ f[q] \in Nat /\ h[q] <= f[q] /\ f[q] <= h[q]
    BY <2>1
  <2>3. SumOf(h, P) <= SumOf(f, P) /\ SumOf(f, P) <= SumOf(h, P)
    BY <1>5, <2>2, SumMonotone
  <2>4. \A d \in Conns : h1[d] \in Nat /\ f1[d] \in Nat /\ h1[d] <= f1[d] /\ f1[d] <= h1[d]
    BY <2>1
  <2>5. SumOf(h1, Conns) <= SumOf(f1, Conns) /\ SumOf(f1, Conns) <= SumOf(h1, Conns)
    BY <1>5, <2>4, SumMonotone
  <2> QED
    BY <1>4, <1>6, <2>3, <2>5
<1> QED
  BY <1>7, <1>8

\* Steps that only go on with a record change no volume.
LEMMA SameVolume ==
  ASSUME AddingInv, NEW c \in Conns, adding[c].step # "idle", appended' = appended,
         NEW b, b.step # "idle", b.pid = adding[c].pid, b.rec = adding[c].rec,
         adding' = [adding EXCEPT ![c] = b]
  PROVE  Held' = Held /\ \A P : Volume(P)' = Volume(P)
<1>1. Held' = Held
  BY DEF Held
<1>2. ASSUME NEW P PROVE Coming(P)' = Coming(P)
  <2>1. adding[c] # Idle /\ b # Idle
    BY DEF Idle
  <2>2. \A d \in Conns : adding'[d] = IF d = c THEN b ELSE adding[d]
    BY DEF AddingInv
  <2>3. ASSUME NEW d \in Conns
        PROVE  (IF adding'[d] # Idle /\ adding'[d].pid \in P THEN adding'[d].rec.len ELSE 0)
                 = (IF adding[d] # Idle /\ adding[d].pid \in P THEN adding[d].rec.len ELSE 0)
    BY <2>1, <2>2
  <2> QED
    BY <2>3 DEF Coming, Adding
<1> QED
  BY <1>1, <1>2 DEF Volume

\* The invariants depend on nothing else.
LEMMA LostUnchanged ==
  ASSUME UNCHANGED <<buffers, appended, adding>>,
         SumsInv, SearchInv, NothingLostBelowLimits
  PROVE  SumsInv' /\ SearchInv' /\ NothingLostBelowLimits'
<1>1. Held' = Held /\ \A P : Coming(P)' = Coming(P)
  BY DEF Held, Coming, Adding
<1>2. \A P : Volume(P)' = Volume(P)
  BY <1>1 DEF Volume
<1>3. SumsInv'
  BY <1>1 DEF SumsInv, Counted
<1>4. SearchInv' /\ NothingLostBelowLimits'
  BY <1>2 DEF SearchInv, NothingLostBelowLimits
<1> QED
  BY <1>3, <1>4

\* What has been counted with one buffer more.
LEMMA CountedNext ==
  ASSUME BuffersInv, AddingInv, NEW k \in 1..Len(MapOrder)
  PROVE  /\ Counted(k) \in SUBSET Pids /\ Counted(k + 1) \in SUBSET Pids
         /\ SumOf(Held, Counted(k)) \in Nat /\ SumOf(Held, Counted(k + 1)) \in Nat
         /\ SumOf(Held, Counted(k + 1)) = Held[MapOrder[k]] + SumOf(Held, Counted(k))
<1> DEFINE x == MapOrder[k]
           S == Counted(k + 1)
<1>1. Len(MapOrder) \in Nat /\ DOMAIN MapOrder = 1..Len(MapOrder)
  BY Constants, LenProperties
<1>2. Counted(k) \in SUBSET Pids /\ S \in SUBSET Pids
  BY <1>1, Constants DEF Counted
<1>3. x \in S /\ S \ {x} = Counted(k)
  <2>1. (k + 1) - 1 = k /\ k \in 1..k
    BY <1>1
  <2>2. \A i \in 1..(k - 1) : i \in 1..k /\ MapOrder[i] # x
    BY <1>1, Constants DEF IsInjective
  <2>3. \A i \in 1..k : i = k \/ i \in 1..(k - 1)
    BY <1>1
  <2> QED
    BY <2>1, <2>2, <2>3 DEF Counted
<1>4. IsFiniteSet(S) /\ \A p \in S : Held[p] \in Nat
  BY <1>2, Constants, FS_Subset, Terms
<1> HIDE DEF x, S
<1>5. /\ SumOf(Held, S) \in Nat
      /\ SumOf(Held, S) = Held[x] + SumOf(Held, S \ {x})
      /\ \A T \in SUBSET S : SumOf(Held, T) \in Nat
  BY <1>3, <1>4, SumProperties
<1>6. SumOf(Held, Counted(k)) \in Nat
  BY <1>3, <1>5
<1> QED
  BY <1>2, <1>3, <1>5, <1>6 DEF x, S

\* Nothing is lost at first.
LEMMA LostInit == Init => SumsInv /\ SearchInv /\ NothingLostBelowLimits
BY DEF Init, Idle, SumsInv, SearchInv, NothingLostBelowLimits

\* Receiving a record only adds to the volume.
LEMMA LostReceive ==
  ASSUME IInv, IInv', SumsInv, SearchInv, NothingLostBelowLimits,
         NEW c \in Conns, NEW p \in Pids, NEW len \in Lengths, Receive(c, p, len)
  PROVE  SumsInv' /\ SearchInv' /\ NothingLostBelowLimits'
<1>1. BuffersInv /\ AddingInv /\ BuffersInv' /\ AddingInv'
  BY DEF IInv
<1> DEFINE b == [step |-> "sum", pid |-> p,
                 rec |-> [id |-> received + 1, len |-> len, at |-> now],
                 k |-> 1, sum |-> 0, largest |-> None, most |-> 0]
<1>2. /\ adding[c] = Idle /\ adding' = [adding EXCEPT ![c] = b]
      /\ buffers' = buffers /\ appended' = appended
      /\ b.step = "sum" /\ b.sum = 0 /\ b.k = 1
  BY DEF Receive, Adding
<1> HIDE DEF b
<1>3. \A d \in Conns : adding'[d] = IF d = c THEN b ELSE adding[d]
  BY <1>1, <1>2 DEF AddingInv
<1>4. Held' = Held
  BY <1>2 DEF Held
<1>5. ASSUME NEW P \in SUBSET Pids
      PROVE  Volume(P) \in Nat /\ Volume(P)' \in Nat /\ Volume(P) <= Volume(P)'
  <2>1. \A q \in P : Held[q] <= Held'[q]
    BY <1>1, <1>4, Terms
  <2>2. Coming(P) \in [Conns -> Nat] /\ Coming(P)' \in [Conns -> Nat]
    BY <1>1, ComingNumbers DEF AddingInv, Coming, Adding
  <2>3. Coming(P)[c] = 0
    BY <1>2 DEF Coming, Adding
  <2>4. \A d \in Conns : d # c => Coming(P)'[d] = Coming(P)[d]
    BY <1>3 DEF Coming, Adding
  <2>5. \A d \in Conns : Coming(P)[d] <= Coming(P)'[d]
    BY <2>2, <2>3, <2>4
  <2> QED
    BY <1>1, <2>1, <2>5, VolumeGrows
<1>6. SumsInv'
  <2>1. Counted(1) = {}
    BY DEF Counted
  <2>2. SumOf(Held, {}) = 0
    BY SumProperties, FS_EmptySet
  <2>3. ASSUME NEW d \in Conns, adding'[d].step = "sum"
        PROVE  adding'[d].sum <= SumOf(Held, Counted(adding'[d].k))
    <3>1. CASE d = c
      <4>1. adding'[d] = b
        BY <1>3, <3>1
      <4> QED
        BY <1>2, <2>1, <2>2, <4>1
    <3>2. CASE d # c
      <4>1. adding'[d] = adding[d]
        BY <1>3, <3>2
      <4> QED
        BY <2>3, <4>1 DEF SumsInv
    <3> QED
      BY <3>1, <3>2
  <2> QED
    BY <1>4, <2>3 DEF SumsInv, Counted
<1>7. GlobalCapacity \in Nat /\ Capacity \in Nat /\ Pids \in SUBSET Pids
      /\ \A q \in Pids : {q} \in SUBSET Pids
  BY Constants
<1>8. SearchInv'
  <2> SUFFICES ASSUME Volume(Pids)' <= GlobalCapacity, NEW d \in Conns
               PROVE  adding'[d].step \notin {"find", "evict"}
    BY DEF SearchInv
  <2>1. Volume(Pids) <= GlobalCapacity
    BY <1>5, <1>7
  <2> QED
    BY <1>2, <1>3, <2>1 DEF SearchInv
<1>9. NothingLostBelowLimits'
  <2> SUFFICES ASSUME Volume(Pids)' <= GlobalCapacity, \A q \in Pids : Volume({q})' <= Capacity
               PROVE  buffers' = appended'
    BY DEF NothingLostBelowLimits
  <2>1. Volume(Pids) <= GlobalCapacity /\ \A q \in Pids : Volume({q}) <= Capacity
    BY <1>5, <1>7
  <2> QED
    BY <1>2, <2>1 DEF NothingLostBelowLimits
<1> QED
  BY <1>6, <1>8, <1>9

\* Counting one buffer more: no more than was appended is counted.
LEMMA LostSumNext ==
  ASSUME IInv, IInv', SumsInv, SearchInv, NothingLostBelowLimits, NEW c \in Conns, SumNext(c)
  PROVE  SumsInv' /\ SearchInv' /\ NothingLostBelowLimits'
<1>1. BuffersInv /\ AddingInv /\ BuffersInv' /\ AddingInv'
  BY DEF IInv
<1> DEFINE a == adding[c]
           k == a.k
           len == a.rec.len
           total == a.sum + Bytes(buffers[MapOrder[k]])
           b == IF k < Len(MapOrder) THEN [a EXCEPT !.k = @ + 1, !.sum = total]
                ELSE Goto(c, IF TooMuch(total + len) THEN "find" ELSE "append")
<1>2. /\ a.step = "sum" /\ a \in Addition /\ adding' = [adding EXCEPT ![c] = b]
      /\ buffers' = buffers /\ appended' = appended
  BY <1>1, AdditionOf DEF SumNext
<1>3. /\ k \in 1..Len(MapOrder) /\ a.sum \in Nat /\ a.pid \in Pids /\ len \in Nat
      /\ MapOrder[k] \in Pids
  BY <1>2, Constants DEF Addition
<1>4. /\ total \in Nat /\ total <= SumOf(Held, Counted(k + 1))
      /\ Counted(k + 1) \in SUBSET Pids /\ SumOf(Held, Counted(k + 1)) \in Nat
  <2> DEFINE p == MapOrder[k]
  <2>1. Bytes(buffers[p]) \in Nat /\ Bytes(buffers[p]) <= Held[p] /\ Held[p] \in Nat
    BY <1>1, <1>3, BufferBelowAppended, Terms
  <2>2. a.sum <= SumOf(Held, Counted(k))
    BY <1>2 DEF SumsInv
  <2>3. /\ SumOf(Held, Counted(k)) \in Nat /\ SumOf(Held, Counted(k + 1)) \in Nat
        /\ Counted(k + 1) \in SUBSET Pids
        /\ SumOf(Held, Counted(k + 1)) = Held[p] + SumOf(Held, Counted(k))
    BY <1>1, <1>3, CountedNext
  <2> QED
    BY <1>3, <2>1, <2>2, <2>3
<1>5. /\ b.pid = a.pid /\ b.rec = a.rec /\ b.step \in {"sum", "find", "append"}
      /\ b.step = "sum" => b.k = k + 1 /\ b.sum = total
      /\ b.step = "find" => total + len > GlobalCapacity
  <2> HIDE DEF total
  <2>1. CASE k < Len(MapOrder)
    BY <1>2, <2>1 DEF Addition
  <2>2. CASE ~(k < Len(MapOrder))
    BY <1>2, <2>2 DEF Addition, Goto, TooMuch
  <2> QED
    BY <2>1, <2>2
<1> HIDE DEF b, total
<1>6. Held' = Held /\ \A P : Volume(P)' = Volume(P)
  BY <1>1, <1>2, <1>5, SameVolume
<1>7. \A d \in Conns : adding'[d] = IF d = c THEN b ELSE adding[d]
  BY <1>1, <1>2 DEF AddingInv
<1>8. SumsInv'
  <2>1. ASSUME NEW d \in Conns, adding'[d].step = "sum"
        PROVE  adding'[d].sum <= SumOf(Held, Counted(adding'[d].k))
    <3>1. CASE d = c
      <4>1. adding'[d] = b
        BY <1>7, <3>1
      <4> QED
        BY <1>4, <1>5, <2>1, <4>1
    <3>2. CASE d # c
      <4>1. adding'[d] = adding[d]
        BY <1>7, <3>2
      <4> QED
        BY <2>1, <4>1 DEF SumsInv
    <3> QED
      BY <3>1, <3>2
  <2> QED
    BY <1>6, <2>1 DEF SumsInv, Counted
<1>9. b.step = "find" => ~(Volume(Pids) <= GlobalCapacity)
  <2>1. Pids \in SUBSET Pids
    OBVIOUS
  <2>2. /\ SumOf(Held, Pids) \in Nat /\ SumOf(Coming(Pids), Conns) \in Nat
        /\ SumOf(Held, Counted(k + 1)) <= SumOf(Held, Pids)
        /\ Coming(Pids)[c] <= SumOf(Coming(Pids), Conns)
    BY <1>1, <1>4, <2>1, VolumeBounds
  <2>3. Coming(Pids)[c] = len
    BY <1>2, <1>3 DEF Coming, Adding, Idle
  <2>4. Volume(Pids) = SumOf(Held, Pids) + SumOf(Coming(Pids), Conns)
    BY VolumeSum
  <2>5. total + len <= Volume(Pids) /\ Volume(Pids) \in Nat /\ GlobalCapacity \in Nat
    <3>1. total <= SumOf(Held, Pids)
      BY <1>4, <2>2
    <3>2. len <= SumOf(Coming(Pids), Conns)
      BY <2>2, <2>3
    <3> DEFINE sum1 == SumOf(Held, Pids)
               sum2 == SumOf(Coming(Pids), Conns)
    <3>3. sum1 \in Nat /\ sum2 \in Nat /\ Volume(Pids) = sum1 + sum2
      BY <2>2, <2>4
    <3> HIDE DEF sum1, sum2
    <3>4. total + len <= sum1 + sum2
      BY <1>3, <1>4, <3>1, <3>2, <3>3 DEF sum1, sum2
    <3> QED
      BY <3>3, <3>4, Constants
  <2> SUFFICES ASSUME b.step = "find", Volume(Pids) <= GlobalCapacity PROVE FALSE
    OBVIOUS
  <2>6. total + len > GlobalCapacity
    BY <1>5
  <2>7. total + len \in Nat
    BY <1>3, <1>4
  <2> HIDE DEF len
  <2> QED
    BY <2>5, <2>6, <2>7
<1>10. SearchInv'
  <2> SUFFICES ASSUME Volume(Pids)' <= GlobalCapacity, NEW d \in Conns
               PROVE  adding'[d].step \notin {"find", "evict"}
    BY DEF SearchInv
  <2>1. Volume(Pids) <= GlobalCapacity
    BY <1>6
  <2>2. b.step \notin {"find", "evict"}
    BY <1>5, <1>9, <2>1
  <2> QED
    BY <1>7, <2>1, <2>2 DEF SearchInv
<1>11. NothingLostBelowLimits'
  BY <1>2, <1>6 DEF NothingLostBelowLimits
<1> QED
  BY <1>8, <1>10, <1>11

\* A connection that searches the buffers, or drops from one, does so above the limit.
LEMMA LostSearch ==
  ASSUME IInv, IInv', SumsInv, SearchInv, NothingLostBelowLimits, NEW c \in Conns,
         FindNext(c) \/ EvictLargest(c)
  PROVE  SumsInv' /\ SearchInv' /\ NothingLostBelowLimits'
<1>1. BuffersInv /\ AddingInv /\ BuffersInv' /\ AddingInv'
  BY DEF IInv
<1>2. adding[c].step \in {"find", "evict"} /\ appended' = appended
  BY DEF FindNext, EvictLargest
<1>3. ~(Volume(Pids) <= GlobalCapacity)
  BY <1>2 DEF SearchInv
<1>4. \E b : /\ adding' = [adding EXCEPT ![c] = b] /\ b.step \in {"find", "append", "evict"}
             /\ b.pid = adding[c].pid /\ b.rec = adding[c].rec
  <2>1. adding[c] \in Addition
    BY <1>1, <1>2, AdditionOf
  <2>2. CASE FindNext(c)
    <3> DEFINE a == adding[c]
               p == MapOrder[a.k]
               found == IF Bytes(buffers[p]) > a.most
                        THEN [a EXCEPT !.largest = p, !.most = Bytes(buffers[p])] ELSE a
               b == IF a.k < Len(MapOrder) THEN [found EXCEPT !.k = @ + 1]
                    ELSE IF found.largest = None THEN Goto(c, "append")
                    ELSE [Goto(c, "evict") EXCEPT !.largest = found.largest]
    <3>1. adding' = [adding EXCEPT ![c] = b] /\ a.step = "find"
      BY <2>2 DEF FindNext
    <3> HIDE DEF p
    <3>2. /\ DOMAIN found = DOMAIN a
          /\ found.step = "find" /\ found.pid = a.pid /\ found.rec = a.rec
      BY <2>1, <3>1 DEF Addition
    <3>3. DOMAIN a = {"step", "pid", "rec", "k", "sum", "largest", "most"}
      BY <2>1 DEF Addition
    <3> HIDE DEF found
    <3>4. b.step \in {"find", "append", "evict"} /\ b.pid = a.pid /\ b.rec = a.rec
      BY <3>2, <3>3 DEF Goto
    <3> HIDE DEF b
    <3> QED
      BY <3>1, <3>4
  <2>3. CASE EvictLargest(c)
    <3>1. /\ Goto(c, "append").step = "append" /\ Goto(c, "append").pid = adding[c].pid
          /\ Goto(c, "append").rec = adding[c].rec
      BY DEF Goto
    <3>2. adding' = [adding EXCEPT ![c] = Goto(c, "append")]
      BY <2>3 DEF EvictLargest
    <3> QED
      BY <3>1, <3>2
  <2> QED
    BY <2>2, <2>3
<1>5. PICK b : /\ adding' = [adding EXCEPT ![c] = b] /\ b.step \in {"find", "append", "evict"}
               /\ b.pid = adding[c].pid /\ b.rec = adding[c].rec
  BY <1>4
<1>6. Held' = Held /\ \A P : Volume(P)' = Volume(P)
  BY <1>1, <1>2, <1>5, SameVolume
<1>7. SearchInv' /\ NothingLostBelowLimits'
  BY <1>3, <1>6 DEF SearchInv, NothingLostBelowLimits
<1>8. SumsInv'
  <2>1. \A d \in Conns : adding'[d].step = "sum" => adding'[d] = adding[d]
    BY <1>1, <1>5 DEF AddingInv
  <2> QED
    BY <1>6, <2>1 DEF SumsInv, Counted
<1> QED
  BY <1>7, <1>8

\* A record that fits is appended to a buffer that has lost nothing, which loses nothing.
LEMMA LostAppendRecord ==
  ASSUME IInv, IInv', SumsInv, SearchInv, NothingLostBelowLimits, NEW c \in Conns, AppendRecord(c)
  PROVE  SumsInv' /\ SearchInv' /\ NothingLostBelowLimits'
<1>1. BuffersInv /\ AddingInv /\ BuffersInv' /\ AddingInv'
  BY DEF IInv
<1> DEFINE p == adding[c].pid
           r == adding[c].rec
           len == r.len
           s == buffers[p]
<1>2. /\ adding[c].step = "append" /\ adding[c] \in Addition
      /\ buffers' = [buffers EXCEPT ![p] = Append(MadeRoom(s, len), r)]
      /\ appended' = [appended EXCEPT ![p] = Append(appended[p], r)]
      /\ adding' = [adding EXCEPT ![c] = Idle]
  BY <1>1, AdditionOf DEF AppendRecord
<1>3. p \in Pids /\ r \in Record /\ len \in Nat
  BY <1>2, Constants DEF Addition
<1>4. /\ \A d \in Conns : adding'[d] = IF d = c THEN Idle ELSE adding[d]
      /\ \A q \in Pids : appended'[q] = IF q = p THEN Append(appended[p], r) ELSE appended[q]
      /\ adding[c] # Idle /\ Idle.step = "idle"
  BY <1>1, <1>2 DEF AddingInv, BuffersInv, Idle
<1>5. Held'[p] = Held[p] + len /\ \A q \in Pids : q # p => Held'[q] = Held[q]
  <2>1. appended[p] \in Seq(Record)
    BY <1>1, <1>3 DEF BuffersInv
  <2>2. Bytes(Append(appended[p], r)) = Bytes(appended[p]) + len
    BY <1>3, <2>1, Constants, BytesAppend
  <2> HIDE DEF p, r
  <2> QED
    BY <1>3, <1>4, <2>2 DEF Held
<1>6. Held \in [Pids -> Nat] /\ Held' \in [Pids -> Nat]
  BY <1>1, HeldNumbers DEF BuffersInv, Held
<1>7. ASSUME NEW P \in SUBSET Pids PROVE Volume(P)' = Volume(P)
  <2>1. /\ \A d \in Conns : d # c => Coming(P)'[d] = Coming(P)[d]
        /\ p \in P => Coming(P)[c] = len /\ Coming(P)'[c] = 0
        /\ p \notin P => Coming(P)[c] = 0 /\ Coming(P)'[c] = 0
    BY <1>4 DEF Coming, Adding
  <2> HIDE DEF p, r, len
  <2> QED
    BY <1>1, <1>3, <1>5, <2>1, VolumeMoves
<1> HIDE DEF p, r, len, s
<1>8. Pids \in SUBSET Pids /\ \A q \in Pids : {q} \in SUBSET Pids
  OBVIOUS
<1>9. SumsInv'
  <2>1. ASSUME NEW d \in Conns, adding'[d].step = "sum"
        PROVE  adding'[d].sum <= SumOf(Held', Counted(adding'[d].k))
    <3>1. d # c /\ adding'[d] = adding[d] /\ adding[d] \in Addition
      BY <1>1, <1>4, <2>1, AdditionOf
    <3> DEFINE k == adding[d].k
    <3>2. k \in 1..Len(MapOrder) /\ adding[d].sum \in Nat
      BY <3>1 DEF Addition
    <3>3. Counted(k) \in SUBSET Pids /\ SumOf(Held, Counted(k)) \in Nat
      BY <1>1, <3>2, CountedNext
    <3>4. IsFiniteSet(Counted(k))
      BY <3>3, Constants, FS_Subset
    <3>5. adding[d].sum <= SumOf(Held, Counted(k))
      BY <2>1, <3>1 DEF SumsInv
    <3>6. \A q \in Counted(k) : Held[q] \in Nat /\ Held'[q] \in Nat /\ Held[q] <= Held'[q]
      BY <1>3, <1>5, <1>6, <3>3
    <3> DEFINE f == Held
               h == Held'
    <3> HIDE DEF f, h, k
    <3>7. SumOf(f, Counted(k)) <= SumOf(h, Counted(k)) /\ SumOf(h, Counted(k)) \in Nat
      BY <3>4, <3>6, SumMonotone, SumProperties DEF f, h
    <3> QED
      BY <3>1, <3>2, <3>3, <3>5, <3>7 DEF f, h, k
  <2> QED
    BY <2>1 DEF SumsInv, Counted
<1>10. SearchInv'
  <2> SUFFICES ASSUME Volume(Pids)' <= GlobalCapacity, NEW d \in Conns
               PROVE  adding'[d].step \notin {"find", "evict"}
    BY DEF SearchInv
  <2>1. Volume(Pids) <= GlobalCapacity
    BY <1>7, <1>8
  <2> QED
    BY <1>4, <2>1 DEF SearchInv
<1>11. NothingLostBelowLimits'
  <2> SUFFICES ASSUME Volume(Pids)' <= GlobalCapacity, \A q \in Pids : Volume({q})' <= Capacity
               PROVE  buffers' = appended'
    BY DEF NothingLostBelowLimits
  <2>1. Volume(Pids) <= GlobalCapacity /\ \A q \in Pids : Volume({q}) <= Capacity
    BY <1>7, <1>8
  <2>2. buffers = appended
    BY <2>1 DEF NothingLostBelowLimits
  <2>3. s \in Seq(Record) /\ s = appended[p]
    BY <1>1, <1>3, <2>2 DEF BuffersInv, s
  <2>4. Bytes(s) + len <= Capacity
    <3>1. {p} \in SUBSET Pids
      BY <1>3
    <3>2. /\ SumOf(Held, {p}) \in Nat /\ SumOf(Coming({p}), Conns) \in Nat
          /\ Held[p] <= SumOf(Held, {p})
          /\ Coming({p})[c] <= SumOf(Coming({p}), Conns)
      BY <1>1, <3>1, VolumeBounds
    <3>3. Coming({p})[c] = len
      BY <1>4 DEF Coming, Adding, p, len, r
    <3>4. Held[p] = Bytes(s) /\ Held[p] \in Nat
      BY <1>1, <1>3, <2>3, Terms
    <3>5. Volume({p}) = SumOf(Held, {p}) + SumOf(Coming({p}), Conns) /\ Volume({p}) <= Capacity
      BY <1>3, <2>1, VolumeSum
    <3> QED
      BY <1>3, <3>2, <3>3, <3>4, <3>5, Constants
  <2>5. MadeRoom(s, len) = s
    <3>1. PICK k \in 0..Len(s) :
             /\ MadeRoom(s, len) = SubSeq(s, k + 1, Len(s))
             /\ Bytes(SubSeq(s, 0 + 1, Len(s))) + len <= Capacity => k = 0
      BY <2>3, MadeRoomDrops
    <3>2. SubSeq(s, 0 + 1, Len(s)) = s
      BY <2>3, SubSeqFull
    <3> QED
      BY <2>4, <3>1, <3>2
  <2> QED
    BY <1>2, <2>2, <2>3, <2>5
<1> QED
  BY <1>9, <1>10, <1>11

\* Every step keeps what is below the limits.
LEMMA LostNext ==
  ASSUME IInv, IInv', SumsInv, SearchInv, NothingLostBelowLimits, [Next]_vars
  PROVE  SumsInv' /\ SearchInv' /\ NothingLostBelowLimits'
<1>1. CASE UNCHANGED <<buffers, appended, adding>>
  BY <1>1, LostUnchanged
<1>2. CASE Tick
  BY <1>1, <1>2 DEF Tick
<1>3. CASE \E p \in Pids : SwitchCapture(p)
  BY <1>1, <1>3 DEF SwitchCapture
<1>4. CASE \E c \in Conns : AddRecord(c)
  <2>1. PICK c \in Conns : AddRecord(c)
    BY <1>4
  <2> QED
    BY <2>1, LostReceive, LostSumNext, LostSearch, LostAppendRecord DEF AddRecord
<1>5. CASE \E a \in Alerts : FlushOnAlert(a)
  BY <1>1, <1>5 DEF FlushOnAlert, Alert, Collect
<1>6. CASE UNCHANGED vars
  BY <1>1, <1>6 DEF vars
<1> QED
  BY <1>2, <1>3, <1>4, <1>5, <1>6 DEF Next

\* Below the limits no evidence is lost, for all limits and lengths and any number of
\* processes and connections: connections count the buffers one lock at a time, while
\* others append, and yet what one has counted never exceeds what add_record got.
THEOREM BelowLimitsNothingIsLost == Spec => []NothingLostBelowLimits
<1> DEFINE Inv == SumsInv /\ SearchInv /\ NothingLostBelowLimits
<1>1. Init => Inv
  BY LostInit
<1>2. IInv /\ IInv' /\ Inv /\ [Next]_vars => Inv'
  BY LostNext
<1>3. Inv => NothingLostBelowLimits
  OBVIOUS
<1> HIDE DEF Inv
<1> QED
  BY <1>1, <1>2, <1>3, SpecIInv, PTL DEF Spec
===============================================================================
