-------------------------- MODULE IteratorLemmas --------------------------
(***************************************************************************)
(* What the operators of MessageIterator.tla compute, for message          *)
(* sequences of any length: lemmas for IteratorProofs.                     *)
(***************************************************************************)
EXTENDS MessageIterator, SequenceTheorems, WellFoundedInduction, TLAPS

---------------------------------------------------------------------------
(* Induction *)

\* A non-empty set of naturals has a least member: the well-foundedness every induction below rests on.
LEMMA Least ==
    ASSUME NEW T, T \subseteq Nat, T # {}
    PROVE  \E x \in T : \A y \in T : ~(y < x)
<1>1. PICK R : R = OpToRel(<, Nat)
  BY ZenonT(30)
<1>2. IsWellFoundedOn(R, Nat)
  BY <1>1, NatLessThanWellFounded, ZenonT(30)
<1>3. PICK x \in T : \A y \in T : ~(<<y, x>> \in R)
  BY <1>2, WFMin, ZenonT(30)
<1>4. \A y \in T : ~(y < x)
  BY <1>1, <1>3, ZenonT(30) DEF OpToRel
<1> QED
  BY <1>4

\* Induction up to a bound, with the induction predicate given as a set.
LEMMA UpTo ==
    ASSUME NEW n \in Nat, NEW S, 0 \in S, \A i \in 1 .. n : i - 1 \in S => i \in S
    PROVE  \A i \in 0 .. n : i \in S
<1> DEFINE T == {i \in 0 .. n : i \notin S}
<1>1. ASSUME T # {} PROVE FALSE
  <2>0. T \subseteq Nat
    OBVIOUS
  <2>1. PICK x \in T : \A y \in T : ~(y < x)
    <3> HIDE DEF T
    <3> QED
      BY <1>1, <2>0, Least, ZenonT(30)
  <2>2. x \in 1 .. n /\ x - 1 \notin T
    BY <2>1
  <2> QED
    BY <2>1, <2>2
<1> QED
  BY <1>1

\* A set of sequences which has the empty one, and with each sequence those
\* with one more element, has all of them.
LEMMA AppendInduction ==
    ASSUME NEW V, NEW S, <<>> \in S,
           \A q \in Seq(V) : \A e \in V : q \in S => Append(q, e) \in S
    PROVE  \A q \in Seq(V) : q \in S
<1> SUFFICES ASSUME NEW q \in Seq(V) PROVE q \in S
  OBVIOUS
<1>1. PICK n \in Nat : n = Len(q)
  BY LenProperties
<1>2. PICK T : T = {i \in 0 .. n : SubSeq(q, 1, i) \in S}
  BY ZenonT(30)
<1>3. 0 \in T
  <2>1. SubSeq(q, 1, 0) = <<>>
    BY SubSeqEmpty
  <2>2. 0 \in 0 .. n
    OBVIOUS
  <2> QED
    BY <1>2, <2>1, <2>2, Zenon
<1>4. ASSUME NEW i \in 1 .. n, i - 1 \in T PROVE i \in T
  <2>1. SubSeq(q, 1, i - 1) \in S
    BY <1>2, <1>4
  <2>2. \A j \in 1 .. n : q[j] \in V
    BY <1>1, ElementOfSeq
  <2>3. SubSeq(q, 1, i - 1) \in Seq(V) /\ q[i] \in V
    BY <2>2, SubSeqProperties
  <2>4. SubSeq(q, 1, i) = SubSeq(q, 1, i - 1) \o <<q[i]>>
    BY <1>1, SubSeqRecursiveSecond
  <2>5. SubSeq(q, 1, i) = Append(SubSeq(q, 1, i - 1), q[i])
    BY <2>3, <2>4, AppendIsConcat
  <2>6. SubSeq(q, 1, i) \in S
    BY <2>1, <2>3, <2>5, ZenonT(30)
  <2> QED
    BY <1>2, <2>6
<1>5. n \in T
  BY <1>3, <1>4, UpTo, SMTT(30)
<1> QED
  BY <1>1, <1>2, <1>5, SubSeqFull, ZenonT(30)

\* Appending after concatenating is concatenating with the longer sequence.
LEMMA ConcatAppend ==
    ASSUME NEW V, NEW a \in Seq(V), NEW q \in Seq(V), NEW e \in V
    PROVE  /\ a \o Append(q, e) = Append(a \o q, e)
           /\ a \o q \in Seq(V) /\ Append(q, e) \in Seq(V)
<1>1. a \o q \in Seq(V) /\ Append(q, e) \in Seq(V) /\ <<e>> \in Seq(V)
  BY ConcatProperties, AppendProperties
<1>2. Append(q, e) = q \o <<e>> /\ Append(a \o q, e) = (a \o q) \o <<e>>
  BY <1>1, AppendIsConcat
<1> QED
  BY <1>1, <1>2, ConcatAssociative

\* A function on 0 .. n has the value a at 0, and g[i] leads from one value to
\* the next.
Iterates(n, V, a, g) ==
    \E f \in [0 .. n -> V] : f[0] = a /\ \A i \in 1 .. n : f[i] = g[i][f[i - 1]]

\* The recursive function by which a fold is defined exists, and takes one step of g at each index.
LEMMA Recursion ==
    ASSUME NEW n \in Nat, NEW V, NEW a \in V, NEW g \in [1 .. n -> [V -> V]]
    PROVE  Iterates(n, V, a, g)
<1> DEFINE Ok(k, f) == f \in [0 .. k -> V] /\ f[0] = a /\ \A i \in 1 .. k : f[i] = g[i][f[i - 1]]
           S == {k \in 0 .. n : \E f : Ok(k, f)}
<1>1. 0 \in S
  <2>1. Ok(0, [i \in 0 .. 0 |-> a])
    OBVIOUS
  <2>2. \E f : Ok(0, f)
    BY <2>1, ZenonT(30)
  <2> QED
    BY <2>2
<1>2. ASSUME NEW k \in 1 .. n, k - 1 \in S PROVE k \in S
  <2>1. PICK f : Ok(k - 1, f)
    BY <1>2
  <2>2. PICK h : h = [i \in 0 .. k |-> IF i = k THEN g[k][f[k - 1]] ELSE f[i]]
    BY ZenonT(30)
  <2>3. h \in [0 .. k -> V]
    <3>1. ASSUME NEW i \in 0 .. k PROVE (IF i = k THEN g[k][f[k - 1]] ELSE f[i]) \in V
      BY <2>1
    <3> QED
      BY <2>2, <3>1
  <2>4. h[0] = a
    BY <2>1, <2>2
  <2>5. ASSUME NEW i \in 1 .. k PROVE h[i] = g[i][h[i - 1]]
    <3>1. h[i - 1] = f[i - 1]
      BY <2>2
    <3>2. CASE i = k
      BY <2>2, <3>1, <3>2
    <3>3. CASE i # k
      <4>1. i \in 1 .. k - 1 /\ h[i] = f[i]
        BY <2>2, <3>3
      <4> QED
        BY <2>1, <3>1, <4>1
    <3> QED
      BY <3>2, <3>3
  <2>6. Ok(k, h)
    BY <2>3, <2>4, <2>5
  <2>7. k \in 0 .. n
    OBVIOUS
  <2> HIDE DEF Ok
  <2> QED
    BY <2>6, <2>7
<1> HIDE DEF S
<1>3. \A i \in 0 .. n : i \in S
  BY <1>1, <1>2, UpTo, ZenonT(30)
<1>4. n \in S
  BY <1>3
<1> QED
  BY <1>4 DEF S, Iterates

Agree(f, g, n) == \A i \in 0 .. n : f[i] = g[i]

StepwiseAgree(f, g, n) ==
    /\ f[0] = g[0]
    /\ \A i \in 1 .. n : f[i - 1] = g[i - 1] => f[i] = g[i]

\* Two such functions agree as far as both go.
LEMMA Agreement ==
    ASSUME NEW n \in Nat, NEW f, NEW g, StepwiseAgree(f, g, n)
    PROVE  Agree(f, g, n)
<1>1. PICK S : S = {i \in 0 .. n : f[i] = g[i]}
  BY ZenonT(30)
<1>2. 0 \in S
  BY <1>1 DEF StepwiseAgree
<1>3. ASSUME NEW i \in 1 .. n, i - 1 \in S PROVE i \in S
  BY <1>1, <1>3 DEF StepwiseAgree
<1>4. \A i \in 0 .. n : i \in S
  BY <1>2, <1>3, UpTo
<1> QED
  BY <1>1, <1>4 DEF Agree

---------------------------------------------------------------------------
(* Parts of sequences *)

\* The type, the length and the members of a part of a sequence.
LEMMA Part ==
    ASSUME NEW V, NEW q \in Seq(V), NEW from \in Nat, NEW to \in Nat, 1 <= from, to <= Len(q)
    PROVE  /\ SubSeq(q, from, to) \in Seq(V)
           /\ Len(SubSeq(q, from, to)) = IF from <= to THEN to - from + 1 ELSE 0
           /\ \A i \in 1 .. (to - from + 1) : SubSeq(q, from, to)[i] = q[from + i - 1]
<1>1. \A i \in from .. to : q[i] \in V
  BY ElementOfSeq
<1> QED
  BY <1>1, SubSeqProperties

\* Two adjacent parts of a sequence make up the part which spans both.
LEMMA Adjacent ==
    ASSUME NEW V, NEW q \in Seq(V), NEW i \in Nat, NEW j \in Nat, NEW l \in Nat,
           1 <= i, i <= j + 1, j <= l, l <= Len(q)
    PROVE  SubSeq(q, i, j) \o SubSeq(q, j + 1, l) = SubSeq(q, i, l)
<1>1. i \in 1 .. Len(q) + 1 /\ j \in i - 1 .. Len(q) /\ l \in j .. Len(q)
  BY LenProperties
<1> QED
  BY <1>1, ConcatAdjacentSubSeq, Zenon

\* A sequence is what precedes one of its places, followed by what starts there.
LEMMA Halves ==
    ASSUME NEW V, NEW q \in Seq(V), NEW k \in Nat, 1 <= k, k <= Len(q) + 1
    PROVE  /\ SubSeq(q, 1, k - 1) \in Seq(V) /\ SubSeq(q, k, Len(q)) \in Seq(V)
           /\ q = SubSeq(q, 1, k - 1) \o SubSeq(q, k, Len(q))
           /\ Len(SubSeq(q, 1, k - 1)) = k - 1 /\ Len(SubSeq(q, k, Len(q))) = Len(q) - k + 1
           /\ k <= Len(q) => SubSeq(q, k, Len(q))[1] = q[k]
<1>1. PICK n \in Nat, j \in Nat : n = Len(q) /\ j = k - 1 /\ k = j + 1
  BY LenProperties
<1>2. SubSeq(q, 1, j) \in Seq(V) /\ Len(SubSeq(q, 1, j)) = j
  BY <1>1, Part
<1>3. /\ SubSeq(q, k, n) \in Seq(V) /\ Len(SubSeq(q, k, n)) = n - k + 1
      /\ k <= n => SubSeq(q, k, n)[1] = q[k]
  BY <1>1, Part
<1>4. SubSeq(q, 1, j) \o SubSeq(q, j + 1, n) = SubSeq(q, 1, n)
  <2>1. 1 \in Nat /\ 1 <= 1 /\ 1 <= j + 1 /\ j <= n /\ n <= Len(q)
    BY <1>1
  <2> QED
    BY <2>1, Adjacent, Zenon
<1>5. SubSeq(q, 1, n) = q
  BY <1>1, SubSeqFull
<1> QED
  BY <1>1, <1>2, <1>3, <1>4, <1>5, ZenonT(30)

Regrouped(s, t, u) == (s \o t) \o u = s \o (t \o u)

\* Concatenation is associative.
LEMMA Regroup ==
    ASSUME NEW V, NEW s \in Seq(V), NEW t \in Seq(V), NEW u \in Seq(V)
    PROVE  Regrouped(s, t, u)
  BY ConcatAssociative DEF Regrouped

\* The two sequences which were concatenated are parts of the result.
LEMMA Joined ==
    ASSUME NEW V, NEW s \in Seq(V), NEW t \in Seq(V)
    PROVE  /\ s \o t \in Seq(V) /\ Len(s \o t) = Len(s) + Len(t)
           /\ SubSeq(s \o t, 1, Len(s)) = s
           /\ SubSeq(s \o t, Len(s) + 1, Len(s \o t)) = t
<1>1. PICK j \in Nat, n \in Nat : j = Len(s) /\ n = Len(t)
  BY LenProperties
<1>2. s \o t \in Seq(V) /\ Len(s \o t) = j + n
  BY <1>1, ConcatProperties
<1>3. SubSeq(s \o t, 1, j) = s
  <2>1. CASE j = 0
    <3>1. s = <<>>
      BY <1>1, <2>1, EmptySeq, ZenonT(30)
    <3>2. 1 \in Int /\ j \in Int /\ j < 1
      BY <2>1
    <3>3. SubSeq(s \o t, 1, j) = <<>>
      BY <3>2, SubSeqEmpty, Zenon
    <3> QED
      BY <3>1, <3>3, Zenon
  <2>2. CASE j # 0
    <3>1. SubSeq(s \o t, 1, j) = SubSeq(s, 1, j)
      BY <1>1, <2>2, SubSeqOfConcat1
    <3> QED
      BY <1>1, <3>1, SubSeqFull
  <2> QED
    BY <2>1, <2>2
<1>4. SubSeq(s \o t, j + 1, j + n) = t
  <2>1. CASE n = 0
    <3>1. t = <<>>
      BY <1>1, <2>1, EmptySeq, ZenonT(30)
    <3>2. j + 1 \in Int /\ j + n \in Int /\ j + n < j + 1
      BY <2>1
    <3>3. SubSeq(s \o t, j + 1, j + n) = <<>>
      BY <3>2, SubSeqEmpty, Zenon
    <3> QED
      BY <3>1, <3>3, Zenon
  <2>2. CASE n # 0
    <3>1. SubSeq(s \o t, j + 1, j + n) = SubSeq(t, (j + 1) - j, (j + n) - j)
      BY <1>1, <2>2, SubSeqOfConcat2
    <3>2. (j + 1) - j = 1 /\ (j + n) - j = n
      OBVIOUS
    <3>3. SubSeq(t, 1, n) = t
      BY <1>1, SubSeqFull
    <3> QED
      BY <3>1, <3>2, <3>3, ZenonT(30)
  <2> QED
    BY <2>1, <2>2, ZenonT(30)
<1> QED
  BY <1>1, <1>2, <1>3, <1>4, ZenonT(30)

\* The trace grows by a message: where the iterator is in it.
LEMMA Grown ==
    ASSUME NEW V, NEW q \in Seq(V), NEW m \in V, NEW k \in Nat, 1 <= k, k <= Len(q) + 1
    PROVE  /\ SubSeq(Append(q, m), 1, k - 1) = SubSeq(q, 1, k - 1)
           /\ SubSeq(Append(q, m), k, Len(Append(q, m))) = Append(SubSeq(q, k, Len(q)), m)
<1>1. PICK a \in Seq(V), b \in Seq(V) : a = SubSeq(q, 1, k - 1) /\ b = SubSeq(q, k, Len(q))
  BY Halves, ZenonT(30)
<1>2. q = a \o b /\ Len(a) = k - 1
  BY <1>1, Halves, ZenonT(30)
<1>3. PICK c \in Seq(V) : c = Append(b, m)
  BY AppendProperties, ZenonT(30)
<1>4. Append(q, m) = a \o c
  <2>1. a \o Append(b, m) = Append(a \o b, m)
    BY ConcatAppend
  <2> QED
    BY <1>2, <1>3, <2>1, Zenon
<1>5. SubSeq(a \o c, 1, Len(a)) = a /\ SubSeq(a \o c, Len(a) + 1, Len(a \o c)) = c
  BY Joined
<1>6. Len(a) = k - 1 /\ Len(a) + 1 = k
  BY <1>2
<1> QED
  BY <1>1, <1>3, <1>4, <1>5, <1>6, ZenonT(30)

\* The user's iterator returns n of the messages p and c[k], c[k + 1]...
TakenFrom(V, p, c, k, n, k1) ==
    /\ SubSeq(p \o SubSeq(c, k, Len(c)), 1, n) \in Seq(V)
    /\ SubSeq(p, n + 1, Len(p)) \in Seq(V)
    /\ k1 \in Nat /\ 1 <= k1 /\ k1 <= Len(c) + 1
    /\ p \o SubSeq(c, k, Len(c)) =
           SubSeq(p \o SubSeq(c, k, Len(c)), 1, n)
           \o (SubSeq(p, n + 1, Len(p)) \o SubSeq(c, k1, Len(c)))
    /\ p = <<>> => /\ SubSeq(p, n + 1, Len(p)) = <<>>
                   /\ SubSeq(c, 1, k1 - 1) = SubSeq(c, 1, k - 1) \o SubSeq(p \o SubSeq(c, k, Len(c)), 1, n)

\* Taking n messages of what the queue and the rest of the content hold leaves the rest of it
\* available, from the position the iterator moves to.
LEMMA Taken ==
    ASSUME NEW V, NEW p \in Seq(V), NEW c \in Seq(V), NEW k \in Nat, 1 <= k, k <= Len(c) + 1,
           NEW n \in Nat, n <= Len(p \o SubSeq(c, k, Len(c))), NEW k1,
           k1 = IF n > Len(p) THEN k + n - Len(p) ELSE k
    PROVE  TakenFrom(V, p, c, k, n, k1)
<1>1. PICK j \in Nat, l \in Nat : j = Len(p) /\ l = Len(c)
  BY LenProperties
<1>2. PICK r \in Seq(V) : r = SubSeq(c, k, l)
  BY <1>1, Halves, ZenonT(30)
<1>3. n <= j + (l - k + 1)
  <2>1. Len(r) = l - k + 1
    BY <1>1, <1>2, Halves
  <2>2. Len(p \o r) = j + (l - k + 1)
    <3>1. Len(p \o r) = Len(p) + Len(r)
      BY ConcatProperties
    <3> QED
      BY <1>1, <2>1, <3>1
  <2> QED
    BY <1>1, <1>2, <2>2
<1>4. CASE n <= j
  <2>1. k1 = k
    BY <1>1, <1>4
  <2>2. PICK n1 \in Nat : n1 = n + 1 /\ 1 <= n1 /\ n1 <= Len(p) + 1 /\ n1 - 1 = n
    BY <1>1, <1>4
  <2>3. PICK a \in Seq(V), b \in Seq(V) : a = SubSeq(p, 1, n1 - 1) /\ b = SubSeq(p, n1, Len(p))
    BY <2>2, Halves, ZenonT(30)
  <2>4. p = a \o b /\ Len(a) = n
    <3>1. /\ p = SubSeq(p, 1, n1 - 1) \o SubSeq(p, n1, Len(p))
          /\ Len(SubSeq(p, 1, n1 - 1)) = n1 - 1
      BY <2>2, Halves, ZenonT(30)
    <3> QED
      BY <2>2, <2>3, <3>1, ZenonT(30)
  <2>5. p \o r = a \o (b \o r) /\ b \o r \in Seq(V)
    <3>1. Regrouped(a, b, r)
      BY Regroup
    <3>2. b \o r \in Seq(V)
      BY ConcatProperties
    <3> QED
      BY <2>4, <3>1, <3>2, ZenonT(30) DEF Regrouped
  <2>6. SubSeq(a \o (b \o r), 1, Len(a)) = a
    BY <2>5, Joined
  <2>7. SubSeq(p \o r, 1, n) = a
    BY <2>4, <2>5, <2>6
  <2>8. ASSUME p = <<>> PROVE b = <<>> /\ a = <<>>
    <3>1. a \o b = <<>>
      BY <2>4, <2>8, Zenon
    <3>2. (a \o b = <<>>) <=> (a = <<>> /\ b = <<>>)
      BY ConcatEqualIffEmpty
    <3> QED
      BY <3>1, <3>2, Zenon
  <2>9. SubSeq(c, 1, k - 1) \o <<>> = SubSeq(c, 1, k - 1)
    BY Halves, ConcatEmptySeq
  <2> QED
    BY <1>1, <1>2, <2>1, <2>2, <2>3, <2>5, <2>7, <2>8, <2>9, Zenon DEF TakenFrom
<1>5. CASE n > j
  <2>1. k1 = k + n - j /\ k1 \in Nat /\ 1 <= k1 /\ k1 <= l + 1 /\ k <= k1
    BY <1>1, <1>2, <1>3, <1>5
  <2>2. PICK i \in Nat : i = k1 - 1 /\ k1 = i + 1 /\ k - 1 <= i /\ i <= l /\ i - k + 1 = n - j
    <3>1. /\ k1 - 1 \in Nat /\ k1 = (k1 - 1) + 1 /\ k - 1 <= k1 - 1 /\ k1 - 1 <= l
          /\ (k1 - 1) - k + 1 = n - j
      BY <1>5, <2>1, SMTT(30)
    <3> QED
      BY <3>1, Zenon
  <2>3. SubSeq(p, n + 1, j) = <<>>
    BY <1>5, SubSeqEmpty
  <2>4. PICK a \in Seq(V), b \in Seq(V) : a = SubSeq(c, k, i) /\ b = SubSeq(c, k1, l)
    <3>1. i <= Len(c) /\ l <= Len(c)
      BY <1>1, <2>2
    <3>2. SubSeq(c, k, i) \in Seq(V) /\ SubSeq(c, k1, l) \in Seq(V)
      BY <2>1, <3>1, Part, SMTT(30)
    <3> QED
      BY <3>2, Zenon
  <2>5. Len(a) = n - j
    BY <1>1, <1>5, <2>2, <2>4, Part
  <2>6. r = a \o b
    <3>1. 1 <= k /\ k <= i + 1 /\ i <= l /\ l <= Len(c)
      BY <1>1, <2>2
    <3>2. SubSeq(c, k, i) \o SubSeq(c, i + 1, l) = SubSeq(c, k, l)
      BY <3>1, Adjacent, Zenon
    <3> QED
      BY <1>2, <2>2, <2>4, <3>2, Zenon
  <2>7. PICK d \in Seq(V) : d = p \o a
    BY ConcatProperties, ZenonT(30)
  <2>8. p \o r = d \o b /\ Len(d) = n
    <3>1. Regrouped(p, a, b)
      BY Regroup
    <3>3. Len(p \o a) = Len(p) + Len(a)
      BY ConcatProperties
    <3>2. Len(p) + Len(a) = n
      BY <1>1, <2>5
    <3> QED
      BY <2>6, <2>7, <3>1, <3>2, <3>3, Zenon DEF Regrouped
  <2>9. SubSeq(d \o b, 1, Len(d)) = d
    BY Joined
  <2>10. SubSeq(p \o r, 1, n) = d /\ <<>> \o b = b
    BY <2>8, <2>9, ConcatEmptySeq
  <2>11. ASSUME p = <<>> PROVE d = a
    BY <2>7, <2>11, ConcatEmptySeq
  <2>12. SubSeq(c, 1, k1 - 1) = SubSeq(c, 1, k - 1) \o a
    <3>1. PICK g \in Nat : g = k - 1 /\ g + 1 = k
      OBVIOUS
    <3>2. SubSeq(c, 1, g) \o SubSeq(c, g + 1, i) = SubSeq(c, 1, i)
      <4>1. 1 <= g + 1 /\ g <= i /\ i <= Len(c)
        BY <1>1, <2>2, <3>1
      <4> QED
        BY <4>1, Adjacent, SMTT(30)
    <3>3. SubSeq(c, 1, k1 - 1) = SubSeq(c, 1, i) /\ SubSeq(c, 1, k - 1) = SubSeq(c, 1, g)
      BY <2>2, <3>1, ZenonT(30)
    <3>4. a = SubSeq(c, g + 1, i)
      BY <2>4, <3>1, ZenonT(30)
    <3> QED
      BY <3>2, <3>3, <3>4, ZenonT(30)
  <2>13. <<>> \in Seq(V)
    BY EmptySeq
  <2> QED
    BY <1>1, <1>2, <2>1, <2>3, <2>4, <2>8, <2>10, <2>11, <2>12, <2>13, Zenon DEF TakenFrom
<1>6. n <= j \/ n > j
  OBVIOUS
<1> QED
  BY <1>4, <1>5, <1>6, Zenon

\* The first message of a sequence is that of any longer one it starts.
LEMMA SameFirst ==
    ASSUME NEW V, NEW r \in Seq(V), NEW z \in Seq(V), r # <<>>
    PROVE  r \o z # <<>> /\ (r \o z)[1] = r[1]
<1>1. Len(r) \in Nat /\ Len(r) # 0 /\ Len(z) \in Nat
  BY LenProperties, EmptySeq
<1>2. Len(r \o z) = Len(r) + Len(z)
  BY ConcatProperties
<1>3. (r \o z)[1] = r[1]
  BY <1>1, ConcatProperties
<1>4. Len(r \o z) # 0
  BY <1>1, <1>2
<1> QED
  BY <1>3, <1>4, EmptySeq

Regroup4(p, q, r, z) == (p \o (q \o r)) \o z = (p \o q) \o (r \o z)

\* Concatenating four sequences, grouped in the ways the proofs need.
LEMMA RegroupsFour ==
    ASSUME NEW V, NEW p \in Seq(V), NEW q \in Seq(V), NEW r \in Seq(V), NEW z \in Seq(V)
    PROVE  Regroup4(p, q, r, z)
<1>1. q \o r \in Seq(V) /\ p \o q \in Seq(V)
  BY ConcatProperties
<1>2. Regrouped(p, q, r) /\ Regrouped(p \o q, r, z)
  BY <1>1, Regroup, ZenonT(30)
<1> QED
  BY <1>2, Zenon DEF Regrouped, Regroup4

---------------------------------------------------------------------------
(* The checker of message sequences *)

\* The messages which a component may send.
Sent ==
    {m \in Message : /\ m.stream = NoStream <=> m.type = "IN"
                     /\ m.type = "PB" => m.packet # NoPacket
                     /\ m.type \in {"EV", "IN"} => m.ts # NoTime}

Checks == [ok : BOOLEAN, last : Times, streams : [Streams -> StreamState]]

Start == [ok |-> TRUE, last |-> 0, streams |-> NoExpectation]

\* What a stream may send next is a set of stream message types.
LEMMA ExpectedType ==
    ASSUME NEW type \in StreamTypes, NEW p \in BOOLEAN
    PROVE  ExpectedAfter(type, p) \in SUBSET StreamTypes
  BY DEF ExpectedAfter, StreamTypes, Supported

\* The checker's record of a stream stays well-typed when a message is taken into account.
LEMMA AfterType ==
    ASSUME NEW st \in StreamState, NEW m \in Sent, m.stream # NoStream
    PROVE  AfterMessage(st, m) \in StreamState
<1>1. m.type \in StreamTypes /\ m.packet \in 0 .. MaxPackets
  BY DEF Sent, Message, MessageTypes
<1>2. ExpectedAfter(m.type, st.packet # NoPacket) \in SUBSET StreamTypes
  BY <1>1, ExpectedType, ZenonT(30)
<1>3. NoPacket \in 0 .. MaxPackets
  BY SequenceAssumption DEF NoPacket
<1>4. (CASE m.type = "PB" -> m.packet
         [] m.type = "PE" -> NoPacket
         [] OTHER -> st.packet) \in 0 .. MaxPackets
  BY <1>1, <1>3 DEF StreamState
<1> QED
  BY <1>2, <1>4 DEF AfterMessage, StreamState

\* The checker takes one message.
LEMMA CheckStep ==
    ASSUME NEW c \in Checks, NEW m \in Sent
    PROVE  /\ CheckMessage(c, m) \in Checks
           /\ CheckMessage(c, m).ok <=> /\ c.ok
                                        /\ m.ts = NoTime \/ m.ts >= c.last
                                        /\ m.stream # NoStream
                                              => IsExpected(c.streams[m.stream], m)
           /\ CheckMessage(c, m).last = IF m.ts = NoTime THEN c.last ELSE m.ts
           /\ \A s \in Streams : CheckMessage(c, m).streams[s] =
                  IF s = m.stream THEN AfterMessage(c.streams[s], m) ELSE c.streams[s]
<1>1. c.ok \in BOOLEAN /\ c.last \in Times /\ c.streams \in [Streams -> StreamState]
  BY DEF Checks
<1>2. m.stream \in Streams \cup {NoStream} /\ m.ts \in 0 .. NoTime
  BY DEF Sent, Message
<1>3. m.ts # NoTime => m.ts \in Times
  BY <1>2, SequenceAssumption DEF NoTime, Times
<1>4. NoStream \notin Streams
  BY SequenceAssumption DEF NoStream
<1> DEFINE last == IF m.ts = NoTime THEN c.last ELSE m.ts
           streams == IF m.stream # NoStream
                      THEN [c.streams EXCEPT ![m.stream] = AfterMessage(@, m)] ELSE c.streams
           ok == /\ c.ok
                 /\ m.ts = NoTime \/ m.ts >= c.last
                 /\ m.stream # NoStream => IsExpected(c.streams[m.stream], m)
<1>5. CheckMessage(c, m) = [ok |-> ok, last |-> last, streams |-> streams]
  BY ZenonT(30) DEF CheckMessage
<1>6. last \in Times
  BY <1>1, <1>3
<1>7. /\ streams \in [Streams -> StreamState]
      /\ \A s \in Streams : streams[s] =
             IF s = m.stream THEN AfterMessage(c.streams[s], m) ELSE c.streams[s]
  <2>1. CASE m.stream = NoStream
    BY <2>1, <1>1, <1>4
  <2>2. CASE m.stream # NoStream
    <3>1. m.stream \in Streams /\ c.streams[m.stream] \in StreamState
      BY <2>2, <1>1, <1>2
    <3>2. AfterMessage(c.streams[m.stream], m) \in StreamState
      BY <2>2, <3>1, AfterType
    <3> QED
      BY <2>2, <3>1, <3>2, <1>1
  <2> QED
    BY <2>1, <2>2
<1>8. ok \in BOOLEAN
  BY <1>1 DEF IsExpected
<1> HIDE DEF ok, last, streams
<1>9. /\ CheckMessage(c, m) \in Checks
      /\ CheckMessage(c, m).ok = ok
      /\ CheckMessage(c, m).last = last
      /\ CheckMessage(c, m).streams = streams
  BY <1>5, <1>6, <1>7, <1>8 DEF Checks
<1> QED
  BY <1>7, <1>9 DEF ok, last

\* What CheckFrom() computes, by its turns.
LEMMA CheckTurns ==
    ASSUME NEW c \in Checks, NEW b \in Seq(Sent), NEW n \in Nat, n = Len(b)
    PROVE  \E f \in [0 .. n -> Checks] :
               /\ f[0] = c
               /\ \A i \in 1 .. n : f[i] = CheckMessage(f[i - 1], b[i])
               /\ CheckFrom(c, b) = f[n]
<1> DEFINE h[i \in 0 .. Len(b)] == IF i = 0 THEN c ELSE CheckMessage(h[i - 1], b[i])
<1>1. PICK g : g = [i \in 1 .. n |-> [x \in Checks |-> CheckMessage(x, b[i])]]
  BY ZenonT(30)
<1>2. \A i \in 1 .. n : b[i] \in Sent
  BY ElementOfSeq
<1>3. g \in [1 .. n -> [Checks -> Checks]]
  <2>1. ASSUME NEW i \in 1 .. n PROVE [x \in Checks |-> CheckMessage(x, b[i])] \in [Checks -> Checks]
    BY <1>2, CheckStep
  <2> QED
    BY <1>1, <2>1
<1> HIDE DEF h
<1>4. PICK f \in [0 .. n -> Checks] : f[0] = c /\ \A i \in 1 .. n : f[i] = g[i][f[i - 1]]
  <2>1. Iterates(n, Checks, c, g)
    BY <1>3, Recursion
  <2> QED
    BY <2>1 DEF Iterates
<1>5. ASSUME NEW i \in 1 .. n PROVE f[i] = CheckMessage(f[i - 1], b[i])
  <2>1. f[i - 1] \in Checks /\ f[i] = g[i][f[i - 1]]
    BY <1>4
  <2> QED
    BY <1>1, <2>1
<1>6. f = [i \in 0 .. Len(b) |-> IF i = 0 THEN c ELSE CheckMessage(f[i - 1], b[i])]
  BY <1>4, <1>5
<1>7. h = [i \in 0 .. Len(b) |-> IF i = 0 THEN c ELSE CheckMessage(h[i - 1], b[i])]
  BY <1>6, SMTT(30) DEF h
<1>8. h[0] = f[0]
  BY <1>4, <1>7
<1>9. ASSUME NEW i \in 1 .. n, h[i - 1] = f[i - 1] PROVE h[i] = f[i]
  BY <1>5, <1>7, <1>9
<1>10. h[n] = f[n]
  <2>1. StepwiseAgree(h, f, n)
    BY <1>8, <1>9 DEF StepwiseAgree
  <2> QED
    BY <2>1, Agreement DEF Agree
<1>11. CheckFrom(c, b) = h[n]
  BY DEF CheckFrom, h
<1> QED
  BY <1>4, <1>5, <1>10, <1>11

\* Checking no message leaves the checker as it is.
LEMMA CheckNone ==
    ASSUME NEW c \in Checks
    PROVE  CheckFrom(c, <<>>) = c
<1>1. PICK b \in Seq(Sent), n \in Nat : b = <<>> /\ n = 0 /\ n = Len(b)
  BY EmptySeq, ZenonT(30)
<1>2. n = Len(b)
  BY <1>1
<1>3. PICK f \in [0 .. n -> Checks] :
          /\ f[0] = c
          /\ \A i \in 1 .. n : f[i] = CheckMessage(f[i - 1], b[i])
          /\ CheckFrom(c, b) = f[n]
  BY <1>2, CheckTurns, SMTT(30)
<1>4. CheckFrom(c, b) = c
  BY <1>1, <1>3
<1> QED
  BY <1>1, <1>4

\* Checking a batch is checking its messages one by one.
LEMMA CheckAppend ==
    ASSUME NEW c \in Checks, NEW b \in Seq(Sent), NEW m \in Sent
    PROVE  /\ CheckFrom(c, b) \in Checks
           /\ CheckFrom(c, Append(b, m)) = CheckMessage(CheckFrom(c, b), m)
<1>1. PICK n \in Nat : n = Len(b)
  BY LenProperties
<1>2. PICK a : a = Append(b, m)
  BY ZenonT(30)
<1>3. /\ a \in Seq(Sent) /\ Len(a) = n + 1
      /\ \A i \in 1 .. n : a[i] = b[i]
      /\ a[n + 1] = m
  BY <1>1, <1>2, AppendProperties
<1>4. PICK f \in [0 .. n -> Checks] :
          /\ f[0] = c
          /\ \A i \in 1 .. n : f[i] = CheckMessage(f[i - 1], b[i])
          /\ CheckFrom(c, b) = f[n]
  BY <1>1, CheckTurns
<1>5. PICK k \in Nat : k = n + 1
  OBVIOUS
<1>6. PICK g \in [0 .. k -> Checks] :
          /\ g[0] = c
          /\ \A i \in 1 .. k : g[i] = CheckMessage(g[i - 1], a[i])
          /\ CheckFrom(c, a) = g[k]
  BY <1>3, <1>5, CheckTurns, ZenonT(30)
<1>7. f[0] = g[0]
  BY <1>4, <1>6
<1>8. ASSUME NEW i \in 1 .. n, f[i - 1] = g[i - 1] PROVE f[i] = g[i]
  BY <1>3, <1>4, <1>5, <1>6, <1>8
<1>9. f[n] = g[n]
  <2>1. StepwiseAgree(f, g, n)
    BY <1>7, <1>8 DEF StepwiseAgree
  <2> QED
    BY <2>1, Agreement DEF Agree
<1>10. g[k] = CheckMessage(g[n], m)
  BY <1>3, <1>5, <1>6
<1> QED
  BY <1>2, <1>4, <1>6, <1>9, <1>10

\* The checker stays well-typed over a batch.
LEMMA CheckType ==
    ASSUME NEW c \in Checks, NEW b \in Seq(Sent)
    PROVE  CheckFrom(c, b) \in Checks
<1>1. PICK n \in Nat : n = Len(b)
  BY LenProperties
<1>2. PICK f \in [0 .. n -> Checks] : CheckFrom(c, b) = f[n]
  BY <1>1, CheckTurns
<1> QED
  BY <1>2

\* The checker takes some messages, and then more.
LEMMA CheckConcat ==
    ASSUME NEW c \in Checks, NEW a \in Seq(Sent), NEW b \in Seq(Sent)
    PROVE  CheckFrom(c, a \o b) = CheckFrom(CheckFrom(c, a), b)
<1>1. PICK x : x = CheckFrom(c, a)
  OBVIOUS
<1>2. x \in Checks
  BY <1>1, CheckType
<1>3. PICK S : S = {q \in Seq(Sent) : CheckFrom(c, a \o q) = CheckFrom(x, q)}
  BY ZenonT(30)
<1>4. <<>> \in S
  <2>1. <<>> \in Seq(Sent) /\ a \o <<>> = a
    BY EmptySeq, ConcatEmptySeq
  <2>2. CheckFrom(x, <<>>) = x
    BY <1>2, CheckNone
  <2> QED
    BY <1>1, <1>3, <2>1, <2>2
<1>5. ASSUME NEW q \in Seq(Sent), NEW e \in Sent, q \in S PROVE Append(q, e) \in S
  <2>1. a \o Append(q, e) = Append(a \o q, e) /\ a \o q \in Seq(Sent) /\ Append(q, e) \in Seq(Sent)
    BY ConcatAppend
  <2>2. CheckFrom(c, Append(a \o q, e)) = CheckMessage(CheckFrom(c, a \o q), e)
    BY <2>1, CheckAppend, ZenonT(30)
  <2>3. CheckFrom(x, Append(q, e)) = CheckMessage(CheckFrom(x, q), e)
    BY <1>2, CheckAppend
  <2>4. CheckFrom(c, a \o q) = CheckFrom(x, q)
    BY <1>3, <1>5
  <2> QED
    BY <1>3, <2>1, <2>2, <2>3, <2>4, ZenonT(30)
<1>6. b \in S
  BY <1>4, <1>5, AppendInduction
<1> QED
  BY <1>1, <1>3, <1>6

\* A message which fails the check isn't forgotten.
LEMMA CheckOkBefore ==
    ASSUME NEW c \in Checks, NEW b \in Seq(Sent), CheckFrom(c, b).ok
    PROVE  c.ok
<1>1. PICK S : S = {q \in Seq(Sent) : CheckFrom(c, q).ok => c.ok}
  BY ZenonT(30)
<1>2. <<>> \in S
  <2>1. <<>> \in Seq(Sent)
    BY EmptySeq
  <2>2. CheckFrom(c, <<>>) = c
    BY CheckNone
  <2> QED
    BY <1>1, <2>1, <2>2
<1>3. ASSUME NEW q \in Seq(Sent), NEW e \in Sent, q \in S PROVE Append(q, e) \in S
  <2>1. Append(q, e) \in Seq(Sent)
    BY AppendProperties
  <2>2. CheckFrom(c, q) \in Checks /\ CheckFrom(c, Append(q, e)) = CheckMessage(CheckFrom(c, q), e)
    BY CheckAppend
  <2>3. CheckMessage(CheckFrom(c, q), e).ok => CheckFrom(c, q).ok
    BY <2>2, CheckStep
  <2>4. CheckFrom(c, q).ok => c.ok
    BY <1>1, <1>3
  <2> QED
    BY <1>1, <2>1, <2>2, <2>3, <2>4
<1>4. b \in S
  BY <1>2, <1>3, AppendInduction
<1> QED
  BY <1>1, <1>4

---------------------------------------------------------------------------
(* The phases of a stream *)

\* What the checker expects of a stream which is in a phase, in its packet p.
InPhase(st, ph, p) ==
    /\ st.expected = LegalTypes(ph)
    /\ st.packet = IF ph = "packet" THEN p ELSE NoPacket
    /\ ph = "packet" => p # NoPacket /\ Class.packets

\* A legal message passes, and the checker follows the phase of its stream.
LEMMA PhaseStep ==
    ASSUME NEW st \in StreamState, NEW ph \in Phases, NEW p \in 0 .. MaxPackets,
           InPhase(st, ph, p), NEW m \in Sent, m.stream # NoStream,
           m.type \in LegalTypes(ph),
           m.type \in {"EV", "PE"} => m.packet = st.packet
    PROVE  /\ IsExpected(st, m)
           /\ InPhase(AfterMessage(st, m), PhaseAfter(ph, m.type),
                      IF m.type = "PB" THEN m.packet ELSE p)
<1>1. IsExpected(st, m)
  BY DEF IsExpected, InPhase
<1>2. /\ Class.packets \in BOOLEAN /\ Class.discEvents \in BOOLEAN /\ Class.discPackets \in BOOLEAN
      /\ Class.discPackets => Class.packets
  BY SequenceAssumption DEF ClassProperties
<1>3. PICK t : t = m.type
  OBVIOUS
<1>4. PICK in \in BOOLEAN : in <=> st.packet # NoPacket
  BY ZenonT(30)
<1>5. in <=> ph = "packet"
  BY <1>4 DEF InPhase
<1>6. t \in StreamTypes
  BY <1>3 DEF Sent, Message, MessageTypes
<1>7. ExpectedAfter(t, in) = LegalTypes(PhaseAfter(ph, t))
  <2>1. CASE ph = "unborn"
    BY <1>2, <1>3, <1>5, <1>6, <2>1, SMTT(30) DEF ExpectedAfter, LegalTypes, PhaseAfter, Supported
  <2>2. CASE ph = "ended"
    BY <1>3, <2>2 DEF LegalTypes
  <2>3. CASE ph = "open"
    <3>1. t \in {"SE", "EV", "PB", "DE", "DP"}
      BY <1>3, <2>3 DEF LegalTypes, Supported
    <3>2. /\ t = "EV" => ~Class.packets
          /\ t = "PB" => Class.packets
          /\ t = "DE" => Class.discEvents
          /\ t = "DP" => Class.discPackets
      BY <1>3, <2>3, <1>2 DEF LegalTypes, Supported
    <3> QED
      BY <1>2, <1>5, <2>3, <3>1, <3>2, SMTT(30) DEF ExpectedAfter, LegalTypes, PhaseAfter, Supported
  <2>4. CASE ph = "packet"
    <3>1. t \in {"EV", "PE", "DE"} /\ (t = "DE" => Class.discEvents) /\ Class.packets
      BY <1>3, <2>4, <1>2 DEF LegalTypes, Supported, InPhase
    <3> QED
      BY <1>2, <1>5, <2>4, <3>1 DEF ExpectedAfter, LegalTypes, PhaseAfter, Supported
  <2> QED
    BY <2>1, <2>2, <2>3, <2>4 DEF Phases
<1>8. AfterMessage(st, m).expected = LegalTypes(PhaseAfter(ph, m.type))
  BY <1>3, <1>4, <1>7 DEF AfterMessage
<1>9. AfterMessage(st, m).packet = CASE t = "PB" -> m.packet
                                     [] t = "PE" -> NoPacket
                                     [] OTHER -> st.packet
  BY <1>3 DEF AfterMessage
<1>10. /\ m.type = "PB" => m.packet # NoPacket
       /\ m.type \in {"SB", "SE"} => ph # "packet"
       /\ m.type = "PB" => Class.packets
  BY <1>2 DEF Sent, LegalTypes, Phases, Supported
<1> QED
  BY <1>1, <1>3, <1>6, <1>8, <1>9, <1>10 DEF InPhase, PhaseAfter, StreamTypes

\* A stream is in one of the phases.
Sound(c) == \A s \in Streams : \E ph \in Phases : InPhase(c.streams[s], ph, c.streams[s].packet)

\* The only types of the messages which the checker lets pass.
LEMMA SoundStep ==
    ASSUME NEW c \in Checks, NEW m \in Sent, Sound(c), CheckMessage(c, m).ok
    PROVE  Sound(CheckMessage(c, m))
<1> SUFFICES ASSUME NEW s \in Streams
             PROVE  \E ph \in Phases : InPhase(CheckMessage(c, m).streams[s], ph,
                                               CheckMessage(c, m).streams[s].packet)
  BY ZenonT(30) DEF Sound
<1>1. CASE s # m.stream
  <2>1. CheckMessage(c, m).streams[s] = c.streams[s]
    BY <1>1, CheckStep
  <2> QED
    BY <2>1 DEF Sound
<1>2. CASE s = m.stream
  <2>1. s # NoStream
    BY SequenceAssumption DEF NoStream
  <2>2. PICK st \in StreamState : st = c.streams[s]
    BY DEF Checks
  <2>3. IsExpected(st, m) /\ CheckMessage(c, m).streams[s] = AfterMessage(st, m)
    BY <1>2, <2>1, <2>2, CheckStep
  <2>4. PICK ph \in Phases : InPhase(st, ph, st.packet)
    BY <2>2 DEF Sound
  <2>5. m.type \in LegalTypes(ph) /\ (m.type \in {"EV", "PE"} => m.packet = st.packet)
    BY <2>3, <2>4 DEF IsExpected, InPhase
  <2>6. st.packet \in 0 .. MaxPackets
    BY DEF StreamState
  <2>7. InPhase(AfterMessage(st, m), PhaseAfter(ph, m.type),
                IF m.type = "PB" THEN m.packet ELSE st.packet)
    BY <1>2, <2>1, <2>4, <2>5, <2>6, PhaseStep
  <2>8. PhaseAfter(ph, m.type) \in Phases
    BY DEF PhaseAfter, Phases
  <2>9. InPhase(AfterMessage(st, m), PhaseAfter(ph, m.type), AfterMessage(st, m).packet)
    BY <2>7 DEF InPhase
  <2> QED
    BY <2>3, <2>8, <2>9
<1> QED
  BY <1>1, <1>2

\* A checker which accepted a batch is as sound as before it.
LEMMA SoundAfter ==
    ASSUME NEW c \in Checks, NEW b \in Seq(Sent), Sound(c), CheckFrom(c, b).ok
    PROVE  Sound(CheckFrom(c, b))
<1>1. PICK S : S = {q \in Seq(Sent) : CheckFrom(c, q).ok => Sound(CheckFrom(c, q))}
  BY ZenonT(30)
<1>2. <<>> \in S
  <2>1. <<>> \in Seq(Sent) /\ CheckFrom(c, <<>>) = c
    BY EmptySeq, CheckNone
  <2> QED
    BY <1>1, <2>1
<1>3. ASSUME NEW q \in Seq(Sent), NEW e \in Sent, q \in S PROVE Append(q, e) \in S
  <2>1. PICK x : x = CheckFrom(c, q)
    OBVIOUS
  <2>2. x \in Checks /\ CheckFrom(c, Append(q, e)) = CheckMessage(x, e) /\ Append(q, e) \in Seq(Sent)
    BY <2>1, CheckAppend, AppendProperties
  <2>3. CheckMessage(x, e).ok => x.ok
    BY <2>2, CheckStep
  <2>4. x.ok => Sound(x)
    BY <1>1, <1>3, <2>1
  <2>5. CheckMessage(x, e).ok => Sound(CheckMessage(x, e))
    BY <2>2, <2>3, <2>4, SoundStep
  <2> QED
    BY <1>1, <2>2, <2>5
<1>4. b \in S
  BY <1>2, <1>3, AppendInduction
<1> QED
  BY <1>1, <1>4

\* The checker of a new iterator is sound and has seen no stream.
LEMMA StartIsSound ==
    Start \in Checks /\ Sound(Start) /\ \A s \in Streams : Start.streams[s] = NewStreamState
<1>1. NewStreamState \in StreamState
  BY SequenceAssumption DEF NewStreamState, StreamState, StreamTypes, NoPacket
<1>2. Start \in Checks /\ \A s \in Streams : Start.streams[s] = NewStreamState
  BY <1>1, SequenceAssumption DEF Start, Checks, NoExpectation, Times
<1>3. InPhase(NewStreamState, "unborn", NewStreamState.packet)
  BY DEF InPhase, NewStreamState, LegalTypes
<1>4. "unborn" \in Phases
  BY DEF Phases
<1> QED
  BY <1>2, <1>3, <1>4 DEF Sound

---------------------------------------------------------------------------
(* The streams of a fast-forward *)

\* A stream began and didn't end.
IsOpen(st) == st.expected # {} /\ st.expected # {"SB"}

\* struct auto_seek_stream_state has what the checker knows of the stream.
Tracks(ss, st) == (ss.open <=> IsOpen(st)) /\ ss.packet = st.packet

AllTracked(states, c) == \A s \in Streams : Tracks(states[s], c.streams[s])

SeekStates == [Streams -> SeekState]

\* A stream is open between its beginning and its end, inside a packet or not.
LEMMA OpenPhases ==
    ASSUME NEW st, NEW ph \in Phases, NEW p, InPhase(st, ph, p)
    PROVE  IsOpen(st) <=> ph \in {"open", "packet"}
<1>1. CASE ph = "unborn"
  BY <1>1 DEF InPhase, IsOpen, LegalTypes
<1>2. CASE ph = "ended"
  BY <1>2 DEF InPhase, IsOpen, LegalTypes
<1>3. CASE ph = "open"
  <2>1. "SE" \in st.expected
    BY <1>3 DEF InPhase, LegalTypes
  <2> QED
    BY <1>3, <2>1 DEF IsOpen
<1>4. CASE ph = "packet"
  <2>1. "EV" \in st.expected
    BY <1>4 DEF InPhase, LegalTypes
  <2> QED
    BY <1>4, <2>1 DEF IsOpen
<1> QED
  BY <1>1, <1>2, <1>3, <1>4 DEF Phases

\* auto_seek_handle_message() on the state of a stream.
SkipOne(ss, m) ==
    CASE m.type = "SB" -> [open |-> TRUE, packet |-> NoPacket, seen |-> m.ts # NoTime]
      [] m.type = "SE" -> NoSeekState
      [] m.type = "PB" -> [ss EXCEPT !.packet = m.packet, !.seen = @ \/ Class.beginCs]
      [] m.type = "PE" -> [ss EXCEPT !.packet = NoPacket, !.seen = @ \/ Class.endCs]
      [] m.type = "EV" -> [ss EXCEPT !.seen = TRUE]
      [] m.type \in {"DE", "DP"} -> [ss EXCEPT !.seen = @ \/ HasSnapshot(m.type)]

\* What skipping a message records of its stream: whether it is open, and its packet.
LEMMA SkipOneStep ==
    ASSUME NEW ss \in SeekState, NEW m \in Sent, m.type # "IN"
    PROVE  /\ SkipOne(ss, m) \in SeekState
           /\ SkipOne(ss, m).open <=> IF m.type = "SB" THEN TRUE
                                      ELSE IF m.type = "SE" THEN FALSE ELSE ss.open
           /\ SkipOne(ss, m).packet = CASE m.type = "PB" -> m.packet
                                        [] m.type \in {"SB", "SE", "PE"} -> NoPacket
                                        [] OTHER -> ss.packet
<1>1. m.type \in StreamTypes /\ m.packet \in 0 .. MaxPackets /\ NoPacket \in 0 .. MaxPackets
  BY SequenceAssumption DEF Sent, Message, MessageTypes, NoPacket
<1>2. /\ Class.beginCs \in BOOLEAN /\ Class.endCs \in BOOLEAN
      /\ HasSnapshot("DE") \in BOOLEAN /\ HasSnapshot("DP") \in BOOLEAN
  BY SequenceAssumption DEF ClassProperties, HasSnapshot
<1>3. /\ ss = [open |-> ss.open, packet |-> ss.packet, seen |-> ss.seen]
      /\ ss.open \in BOOLEAN /\ ss.packet \in 0 .. MaxPackets /\ ss.seen \in BOOLEAN
  BY DEF SeekState
<1>4. PICK o \in BOOLEAN, p \in 0 .. MaxPackets, n \in BOOLEAN :
          ss = [open |-> o, packet |-> p, seen |-> n]
  BY <1>3
<1>5. CASE m.type = "SB"
  BY <1>1, <1>5 DEF SkipOne, SeekState
<1>6. CASE m.type = "SE"
  BY <1>1, <1>6 DEF SkipOne, SeekState, NoSeekState
<1>7. CASE m.type = "PB"
  <2>1. SkipOne(ss, m) = [open |-> o, packet |-> m.packet, seen |-> n \/ Class.beginCs]
    BY <1>4, <1>7, ZenonT(30) DEF SkipOne
  <2> QED
    BY <1>1, <1>2, <1>4, <1>7, <2>1 DEF SeekState
<1>8. CASE m.type = "PE"
  <2>1. SkipOne(ss, m) = [open |-> o, packet |-> NoPacket, seen |-> n \/ Class.endCs]
    BY <1>4, <1>8, ZenonT(30) DEF SkipOne
  <2> QED
    BY <1>1, <1>2, <1>4, <1>8, <2>1 DEF SeekState
<1>9. CASE m.type = "EV"
  <2>1. PICK n2 \in BOOLEAN : SkipOne(ss, m) = [open |-> o, packet |-> p, seen |-> n2]
    BY <1>4, <1>9, ZenonT(30) DEF SkipOne
  <2> QED
    BY <1>4, <1>9, <2>1 DEF SeekState
<1>10. CASE m.type \in {"DE", "DP"}
  <2>1. SkipOne(ss, m) = [open |-> o, packet |-> p, seen |-> n \/ HasSnapshot(m.type)]
    BY <1>4, <1>10 DEF SkipOne
  <2>2. n \/ HasSnapshot(m.type) \in BOOLEAN
    BY <1>2, <1>10
  <2> QED
    BY <1>4, <1>10, <2>1, <2>2 DEF SeekState
<1> QED
  BY <1>1, <1>5, <1>6, <1>7, <1>8, <1>9, <1>10 DEF StreamTypes

\* Skipping a message changes the record of its own stream only.
LEMMA SkipStep ==
    ASSUME NEW states \in SeekStates, NEW m \in Sent
    PROVE  /\ SkipMessage(states, m) \in SeekStates
           /\ \A s \in Streams : SkipMessage(states, m)[s] =
                  IF s = m.stream THEN SkipOne(states[s], m) ELSE states[s]
<1>1. m.type \in MessageTypes /\ (m.stream = NoStream <=> m.type = "IN") /\ m.stream \in Streams \cup {NoStream}
  BY DEF Sent, Message
<1>2. NoStream \notin Streams
  BY SequenceAssumption DEF NoStream
<1>3. CASE m.type = "IN"
  <2>1. SkipMessage(states, m) = states
    BY <1>3 DEF SkipMessage
  <2> QED
    BY <1>1, <1>2, <1>3, <2>1
<1>4. CASE m.type # "IN"
  <2>1. m.stream \in Streams /\ states[m.stream] \in SeekState
    BY <1>1, <1>4 DEF SeekStates
  <2>2. SkipMessage(states, m) = [states EXCEPT ![m.stream] = SkipOne(states[m.stream], m)]
    <3>1. CASE m.type \in {"SB", "SE", "EV"}
      BY <2>1, <3>1, ZenonT(30) DEF SkipMessage, SkipOne, SeekStates, SeekState
    <3>2. CASE m.type = "PB"
      BY <2>1, <3>2, ZenonT(30) DEF SkipMessage, SkipOne, SeekStates, SeekState
    <3>3. CASE m.type = "PE"
      BY <2>1, <3>3, ZenonT(30) DEF SkipMessage, SkipOne, SeekStates, SeekState
    <3>4. CASE m.type \in {"DE", "DP"}
      BY <2>1, <3>4, ZenonT(30) DEF SkipMessage, SkipOne, SeekStates, SeekState
    <3> QED
      BY <1>1, <1>4, <3>1, <3>2, <3>3, <3>4 DEF MessageTypes, StreamTypes
  <2>3. SkipOne(states[m.stream], m) \in SeekState
    BY <1>4, <2>1, SkipOneStep
  <2> QED
    BY <2>1, <2>2, <2>3 DEF SeekStates
<1> QED
  BY <1>3, <1>4

\* A message which is skipped leaves the fast-forward with what the checker has.
LEMMA SkipTracks ==
    ASSUME NEW c \in Checks, NEW m \in Sent, Sound(c), CheckMessage(c, m).ok,
           NEW states \in SeekStates, AllTracked(states, c)
    PROVE  AllTracked(SkipMessage(states, m), CheckMessage(c, m))
<1> SUFFICES ASSUME NEW s \in Streams
             PROVE  Tracks(SkipMessage(states, m)[s], CheckMessage(c, m).streams[s])
  BY ZenonT(30) DEF AllTracked
<1>1. PICK st \in StreamState, ss \in SeekState : st = c.streams[s] /\ ss = states[s]
  BY DEF Checks, SeekStates
<1>2. Tracks(ss, st)
  BY <1>1 DEF AllTracked
<1>3. CASE s # m.stream
  <2>1. SkipMessage(states, m)[s] = ss /\ CheckMessage(c, m).streams[s] = st
    BY <1>1, <1>3, CheckStep, SkipStep
  <2> QED
    BY <1>2, <2>1
<1>4. CASE s = m.stream
  <2>1. m.stream # NoStream /\ m.type # "IN" /\ m.type \in StreamTypes
    BY <1>4, SequenceAssumption DEF NoStream, Sent, Message, MessageTypes
  <2>2. /\ IsExpected(st, m)
        /\ CheckMessage(c, m).streams[s] = AfterMessage(st, m)
        /\ SkipMessage(states, m)[s] = SkipOne(ss, m)
    BY <1>1, <1>4, <2>1, CheckStep, SkipStep
  <2>3. PICK ph \in Phases : InPhase(st, ph, st.packet)
    BY <1>1 DEF Sound
  <2>4. m.type \in LegalTypes(ph) /\ (m.type \in {"EV", "PE"} => m.packet = st.packet)
    BY <2>2, <2>3 DEF IsExpected, InPhase
  <2>5. st.packet \in 0 .. MaxPackets
    BY DEF StreamState
  <2>6. PICK q : q = IF m.type = "PB" THEN m.packet ELSE st.packet
    OBVIOUS
  <2>7. InPhase(AfterMessage(st, m), PhaseAfter(ph, m.type), q)
    BY <2>1, <2>3, <2>4, <2>5, <2>6, PhaseStep
  <2>8. PhaseAfter(ph, m.type) \in Phases
    BY DEF PhaseAfter, Phases
  <2>9. IsOpen(AfterMessage(st, m)) <=> PhaseAfter(ph, m.type) \in {"open", "packet"}
    BY <2>7, <2>8, OpenPhases
  <2>10. IsOpen(st) <=> ph \in {"open", "packet"}
    BY <2>3, OpenPhases
  <2>11. /\ m.type = "SB" => ph = "unborn"
         /\ m.type # "SB" => ph \in {"open", "packet"}
         /\ m.type \in {"SE"} => ph = "open"
    BY <2>1, <2>4 DEF LegalTypes, Phases, Supported
  <2>12. SkipOne(ss, m).open <=> IsOpen(AfterMessage(st, m))
    BY <1>2, <2>1, <2>9, <2>10, <2>11, SkipOneStep DEF PhaseAfter, Tracks, StreamTypes
  <2>13. AfterMessage(st, m).packet = CASE m.type = "PB" -> m.packet
                                        [] m.type = "PE" -> NoPacket
                                        [] OTHER -> st.packet
    BY DEF AfterMessage
  <2>14. m.type \in {"SB", "SE"} => st.packet = NoPacket
    BY <2>3, <2>11 DEF InPhase
  <2>15. SkipOne(ss, m).packet = AfterMessage(st, m).packet
    BY <1>2, <2>1, <2>13, <2>14, SkipOneStep DEF Tracks
  <2> QED
    BY <2>2, <2>12, <2>15 DEF Tracks
<1> QED
  BY <1>3, <1>4

---------------------------------------------------------------------------
(* find_message_ge_ns_from_origin() *)

Handles == [gotFirst : BOOLEAN, msgs : Seq(Sent), states : SeekStates]

Reached(m, ns) == m.ts # NoTime /\ m.ts >= ns

\* A discarded items message which begins before the time ns and doesn't end
\* before it gets ns as its beginning.
Trimmed(m, ns) == [m EXCEPT !.ts = ns]

\* A discarded-items message cut at the time sought is still a message.
LEMMA TrimmedType ==
    ASSUME NEW m \in Sent, NEW ns \in Times, Straddles(m, ns)
    PROVE  Trimmed(m, ns) \in Sent
<1>1. ns \in 0 .. NoTime
  BY SequenceAssumption DEF Times, NoTime
<1>2. m \in Message /\ m.type \in {"DE", "DP"} /\ m.stream # NoStream
  BY DEF Straddles, Sent
<1>3. /\ Trimmed(m, ns) \in Message /\ Trimmed(m, ns).type = m.type
      /\ Trimmed(m, ns).stream = m.stream /\ Trimmed(m, ns).packet = m.packet
  BY <1>1, <1>2 DEF Trimmed, Message
<1> QED
  BY <1>2, <1>3 DEF Sent

\* The three things the fast-forward does with a message: keep it once the time is reached, cut
\* it when it straddles the time, skip it otherwise.
LEMMA HandleStep ==
    ASSUME NEW h \in Handles, NEW m \in Sent, NEW ns \in Times
    PROVE  /\ HandleMessage(h, m, ns) \in Handles
           /\ h.gotFirst \/ Reached(m, ns) =>
                  /\ HandleMessage(h, m, ns).gotFirst
                  /\ HandleMessage(h, m, ns).msgs = Append(h.msgs, m)
                  /\ HandleMessage(h, m, ns).states = h.states
           /\ ~(h.gotFirst \/ Reached(m, ns)) /\ Straddles(m, ns) =>
                  /\ ~HandleMessage(h, m, ns).gotFirst
                  /\ HandleMessage(h, m, ns).msgs = Append(h.msgs, Trimmed(m, ns))
                  /\ HandleMessage(h, m, ns).states = h.states
           /\ ~(h.gotFirst \/ Reached(m, ns)) /\ ~Straddles(m, ns) =>
                  /\ ~HandleMessage(h, m, ns).gotFirst
                  /\ HandleMessage(h, m, ns).msgs = h.msgs
                  /\ HandleMessage(h, m, ns).states = SkipMessage(h.states, m)
<1>1. PICK g \in BOOLEAN, q \in Seq(Sent), ss \in SeekStates :
          h = [gotFirst |-> g, msgs |-> q, states |-> ss]
  BY DEF Handles
<1>2. CASE g \/ Reached(m, ns)
  <2>1. PICK r \in Seq(Sent), f \in BOOLEAN : r = Append(q, m) /\ f = TRUE
    BY AppendProperties, ZenonT(30)
  <2>2. HandleMessage(h, m, ns) = [gotFirst |-> f, msgs |-> r, states |-> ss]
    BY <1>1, <1>2, <2>1, ZenonT(30) DEF HandleMessage, Reached
  <2>3. HandleMessage(h, m, ns) \in Handles
    BY <2>2 DEF Handles
  <2> QED
    BY <1>1, <1>2, <2>1, <2>2, <2>3
<1>3. CASE ~(g \/ Reached(m, ns)) /\ Straddles(m, ns)
  <2>1. HandleMessage(h, m, ns) = [gotFirst |-> g, msgs |-> Append(q, Trimmed(m, ns)), states |-> ss]
    BY <1>1, <1>3, ZenonT(30) DEF HandleMessage, Reached, Trimmed
  <2>2. Append(q, Trimmed(m, ns)) \in Seq(Sent)
    BY <1>3, TrimmedType, AppendProperties
  <2> QED
    BY <1>1, <1>3, <2>1, <2>2 DEF Handles
<1>4. CASE ~(g \/ Reached(m, ns)) /\ ~Straddles(m, ns)
  <2>1. HandleMessage(h, m, ns) = [gotFirst |-> g, msgs |-> q, states |-> SkipMessage(ss, m)]
    BY <1>1, <1>4 DEF HandleMessage, Reached
  <2>2. SkipMessage(ss, m) \in SeekStates
    BY SkipStep
  <2> QED
    BY <1>1, <1>4, <2>1, <2>2 DEF Handles
<1> QED
  BY <1>2, <1>3, <1>4

\* What HandleFrom() computes, by its turns.
HandledBy(c, b, ns, n) ==
    \E f \in [0 .. n -> Handles] :
        /\ f[0] = c
        /\ \A i \in 1 .. n : f[i] = HandleMessage(f[i - 1], b[i], ns)
        /\ HandleFrom(c, b, ns) = f[n]

\* The fold of the fast-forward over a batch is a recursive function with one step per message.
LEMMA HandleTurns ==
    ASSUME NEW c \in Handles, NEW ns \in Times, NEW b \in Seq(Sent), NEW n \in Nat, n = Len(b)
    PROVE  HandledBy(c, b, ns, n)
<1> DEFINE h[i \in 0 .. Len(b)] == IF i = 0 THEN c ELSE HandleMessage(h[i - 1], b[i], ns)
<1>1. PICK g : g = [i \in 1 .. n |-> [x \in Handles |-> HandleMessage(x, b[i], ns)]]
  BY ZenonT(30)
<1>2. \A i \in 1 .. n : b[i] \in Sent
  BY ElementOfSeq
<1>3. g \in [1 .. n -> [Handles -> Handles]]
  <2>1. ASSUME NEW i \in 1 .. n PROVE [x \in Handles |-> HandleMessage(x, b[i], ns)] \in [Handles -> Handles]
    BY <1>2, HandleStep
  <2> QED
    BY <1>1, <2>1
<1> HIDE DEF h
<1>4. PICK f \in [0 .. n -> Handles] : f[0] = c /\ \A i \in 1 .. n : f[i] = g[i][f[i - 1]]
  <2>1. Iterates(n, Handles, c, g)
    BY <1>3, Recursion, SMTT(30)
  <2> QED
    BY <2>1 DEF Iterates
<1>5. ASSUME NEW i \in 1 .. n PROVE f[i] = HandleMessage(f[i - 1], b[i], ns)
  <2>1. f[i - 1] \in Handles /\ f[i] = g[i][f[i - 1]]
    BY <1>4
  <2> QED
    BY <1>1, <2>1
<1>6. f = [i \in 0 .. Len(b) |-> IF i = 0 THEN c ELSE HandleMessage(f[i - 1], b[i], ns)]
  BY <1>4, <1>5
<1>7. h = [i \in 0 .. Len(b) |-> IF i = 0 THEN c ELSE HandleMessage(h[i - 1], b[i], ns)]
  BY <1>6, ZenonT(30) DEF h
<1>8. h[0] = f[0]
  BY <1>4, <1>7
<1>9. ASSUME NEW i \in 1 .. n, h[i - 1] = f[i - 1] PROVE h[i] = f[i]
  BY <1>5, <1>7, <1>9
<1>10. h[n] = f[n]
  <2>1. StepwiseAgree(h, f, n)
    BY <1>8, <1>9 DEF StepwiseAgree
  <2> QED
    BY <2>1, Agreement DEF Agree
<1>11. HandleFrom(c, b, ns) = h[n]
  BY DEF HandleFrom, h
<1> QED
  BY <1>4, <1>5, <1>10, <1>11 DEF HandledBy

\* Fast-forwarding over no message changes nothing.
LEMMA HandleNone ==
    ASSUME NEW c \in Handles, NEW ns \in Times
    PROVE  HandleFrom(c, <<>>, ns) = c
<1>1. PICK b \in Seq(Sent), n \in Nat : b = <<>> /\ n = 0 /\ n = Len(b)
  BY EmptySeq, ZenonT(30)
<1>2. n = Len(b)
  BY <1>1
<1>3. PICK f \in [0 .. n -> Handles] :
          /\ f[0] = c
          /\ \A i \in 1 .. n : f[i] = HandleMessage(f[i - 1], b[i], ns)
          /\ HandleFrom(c, b, ns) = f[n]
  <2>1. HandledBy(c, b, ns, n)
    BY <1>2, HandleTurns
  <2> QED
    BY <2>1 DEF HandledBy
<1>4. HandleFrom(c, b, ns) = c
  BY <1>1, <1>3
<1> QED
  BY <1>1, <1>4

\* Fast-forwarding over a batch is doing it message by message.
LEMMA HandleAppend ==
    ASSUME NEW c \in Handles, NEW ns \in Times, NEW b \in Seq(Sent), NEW m \in Sent
    PROVE  /\ HandleFrom(c, b, ns) \in Handles
           /\ HandleFrom(c, Append(b, m), ns) = HandleMessage(HandleFrom(c, b, ns), m, ns)
<1>1. PICK n \in Nat : n = Len(b)
  BY LenProperties
<1>2. PICK a : a = Append(b, m)
  BY ZenonT(30)
<1>3. /\ a \in Seq(Sent) /\ Len(a) = n + 1
      /\ \A i \in 1 .. n : a[i] = b[i]
      /\ a[n + 1] = m
  BY <1>1, <1>2, AppendProperties
<1>4. PICK f \in [0 .. n -> Handles] :
          /\ f[0] = c
          /\ \A i \in 1 .. n : f[i] = HandleMessage(f[i - 1], b[i], ns)
          /\ HandleFrom(c, b, ns) = f[n]
  <2>1. HandledBy(c, b, ns, n)
    BY <1>1, HandleTurns
  <2> QED
    BY <2>1 DEF HandledBy
<1>5. PICK k \in Nat : k = n + 1
  OBVIOUS
<1>6. PICK g \in [0 .. k -> Handles] :
          /\ g[0] = c
          /\ \A i \in 1 .. k : g[i] = HandleMessage(g[i - 1], a[i], ns)
          /\ HandleFrom(c, a, ns) = g[k]
  <2>1. HandledBy(c, a, ns, k)
    BY <1>3, <1>5, HandleTurns
  <2> QED
    BY <2>1 DEF HandledBy
<1>7. f[0] = g[0]
  BY <1>4, <1>6
<1>8. ASSUME NEW i \in 1 .. n, f[i - 1] = g[i - 1] PROVE f[i] = g[i]
  BY <1>3, <1>4, <1>5, <1>6, <1>8
<1>9. f[n] = g[n]
  <2>1. StepwiseAgree(f, g, n)
    BY <1>7, <1>8 DEF StepwiseAgree
  <2> QED
    BY <2>1, Agreement DEF Agree
<1>10. g[k] = HandleMessage(g[n], m, ns)
  BY <1>3, <1>5, <1>6
<1> QED
  BY <1>2, <1>4, <1>6, <1>9, <1>10

\* The fast-forward's state stays well-typed over a batch.
LEMMA HandleType ==
    ASSUME NEW c \in Handles, NEW ns \in Times, NEW b \in Seq(Sent)
    PROVE  HandleFrom(c, b, ns) \in Handles
<1>1. PICK n \in Nat : n = Len(b)
  BY LenProperties
<1>2. PICK f \in [0 .. n -> Handles] : HandleFrom(c, b, ns) = f[n]
  <2>1. HandledBy(c, b, ns, n)
    BY <1>1, HandleTurns
  <2> QED
    BY <2>1 DEF HandledBy
<1> QED
  BY <1>2

---------------------------------------------------------------------------
(* The clock snapshots *)

\* The messages which don't begin before the time ns, or at no known time.
Late(ns) == {m \in Sent : m.ts >= ns}

\* The clock snapshots which the checker lets pass don't go back: after a
\* message at or after the time ns there is none before it.
LEMMA LateAfter ==
    ASSUME NEW c \in Checks, NEW ns \in Times, NEW r \in Seq(Sent), CheckFrom(c, r).ok,
           r # <<>> => Reached(r[1], ns)
    PROVE  /\ r \in Seq(Late(ns))
           /\ r # <<>> => CheckFrom(c, r).last >= ns
<1> DEFINE P(q) == /\ q \in Seq(Late(ns))
                   /\ q # <<>> => CheckFrom(c, q).last >= ns
<1>1. PICK S : S = {q \in Seq(Sent) :
                      CheckFrom(c, q).ok /\ (q # <<>> => Reached(q[1], ns)) => P(q)}
  BY ZenonT(30)
<1>2. <<>> \in S
  BY <1>1, EmptySeq
<1>3. ASSUME NEW q \in Seq(Sent), NEW m \in Sent, q \in S PROVE Append(q, m) \in S
  <2>1. PICK a \in Seq(Sent) : a = Append(q, m)
    BY AppendProperties, ZenonT(30)
  <2>2. PICK x \in Checks : x = CheckFrom(c, q)
    BY CheckType
  <2>3. CheckFrom(c, a) = CheckMessage(x, m)
    BY <2>1, <2>2, CheckAppend
  <2>4. ASSUME CheckMessage(x, m).ok, Reached(a[1], ns) PROVE P(a)
    <3>1. x.ok /\ (m.ts = NoTime \/ m.ts >= x.last)
      BY <2>4, CheckStep, ZenonT(30)
    <3>2. m.ts \in Nat /\ ns \in Nat /\ NoTime >= ns /\ x.last \in Nat
      BY SequenceAssumption DEF Sent, Message, Times, NoTime, Checks
    <3>3. q \in Seq(Late(ns)) /\ m.ts >= ns /\ (m.ts = NoTime => x.last >= ns)
      <4>1. CASE q = <<>>
        <5>1. a[1] = m
          BY <2>1, <4>1
        <5> QED
          BY <2>4, <4>1, <5>1, EmptySeq DEF Reached
      <4>2. CASE q # <<>>
        <5>1. a[1] = q[1]
          BY <2>1, <4>2
        <5>2. P(q)
          BY <1>1, <1>3, <2>2, <2>4, <3>1, <5>1
        <5>3. x.last >= ns
          BY <2>2, <4>2, <5>2
        <5> QED
          BY <3>1, <3>2, <5>2, <5>3
      <4> QED
        BY <4>1, <4>2
    <3>4. m \in Late(ns)
      BY <3>3 DEF Late
    <3>5. a \in Seq(Late(ns))
      BY <2>1, <3>3, <3>4, AppendProperties
    <3>6. CheckMessage(x, m).last = IF m.ts = NoTime THEN x.last ELSE m.ts
      BY CheckStep
    <3> QED
      BY <2>3, <3>3, <3>5, <3>6
  <2>5. a # <<>>
    BY <2>1
  <2> HIDE DEF P
  <2> QED
    BY <1>1, <2>1, <2>3, <2>4, <2>5, ZenonT(30)
<1>4. r \in S
  BY <1>2, <1>3, AppendInduction
<1> QED
  BY <1>1, <1>4

LastIs(b, t) ==
    LET timed == {i \in DOMAIN b : b[i].ts # NoTime}
    IN  \/ timed = {} /\ t = 0
        \/ \E i \in timed : (\A j \in timed : j <= i) /\ b[i].ts = t

\* The last clock snapshot which the checker has seen is that of the last
\* message which has one.
LEMMA LastChecked ==
    ASSUME NEW b \in Seq(Sent)
    PROVE  LastIs(b, CheckFrom(Start, b).last)
<1>1. PICK S : S = {q \in Seq(Sent) : LastIs(q, CheckFrom(Start, q).last)}
  BY ZenonT(30)
<1>2. <<>> \in S
  <2>1. PICK e \in Seq(Sent) : e = <<>>
    BY EmptySeq, ZenonT(30)
  <2>2. CheckFrom(Start, e) = Start /\ DOMAIN e = {}
    BY <2>1, CheckNone, StartIsSound
  <2> QED
    BY <1>1, <2>1, <2>2 DEF LastIs, Start
<1>3. ASSUME NEW q \in Seq(Sent), NEW m \in Sent, q \in S PROVE Append(q, m) \in S
  <2>1. PICK a \in Seq(Sent) : a = Append(q, m)
    BY AppendProperties, ZenonT(30)
  <2>2. PICK n \in Nat : n = Len(q)
    BY LenProperties
  <2>3. DOMAIN q = 1 .. n /\ DOMAIN a = 1 .. n + 1 /\ a[n + 1] = m /\ \A i \in 1 .. n : a[i] = q[i]
    BY <2>1, <2>2, AppendProperties, LenProperties
  <2>4. PICK x \in Checks : x = CheckFrom(Start, q)
    BY CheckType, StartIsSound
  <2>5. CheckFrom(Start, a).last = IF m.ts = NoTime THEN x.last ELSE m.ts
    BY <2>1, <2>4, CheckAppend, CheckStep, StartIsSound
  <2>6. PICK T : T = {i \in 1 .. n : q[i].ts # NoTime}
    BY ZenonT(30)
  <2>7. LastIs(q, x.last) /\ T = {i \in DOMAIN q : q[i].ts # NoTime}
    BY <1>1, <1>3, <2>3, <2>4, <2>6
  <2>8. {i \in DOMAIN a : a[i].ts # NoTime} = IF m.ts = NoTime THEN T ELSE T \cup {n + 1}
    BY <2>3, <2>6
  <2>9. CASE m.ts = NoTime
    BY <1>1, <2>1, <2>3, <2>5, <2>6, <2>7, <2>8, <2>9, ZenonT(30) DEF LastIs
  <2>10. CASE m.ts # NoTime
    <3>1. \A j \in T \cup {n + 1} : j <= n + 1
      BY <2>6
    <3>2. LastIs(a, m.ts)
      BY <2>3, <2>8, <2>10, <3>1 DEF LastIs
    <3> QED
      BY <1>1, <2>1, <2>5, <2>10, <3>2
  <2> QED
    BY <2>9, <2>10
<1>4. b \in S
  BY <1>2, <1>3, AppendInduction
<1> QED
  BY <1>1, <1>4

\* The last time of the content is the one a checker which saw all of it remembers.
LEMMA LastTimeChecked ==
    ASSUME content \in Seq(Sent)
    PROVE  LastTime = CheckFrom(Start, content).last
<1>1. PICK t : t = CheckFrom(Start, content).last
  BY ZenonT(30)
<1>2. LastIs(content, t)
  BY <1>1, LastChecked
<1>3. PICK T : T = {i \in DOMAIN content : content[i].ts # NoTime}
  BY ZenonT(30)
<1>4. LastTime = IF T = {} THEN 0 ELSE content[CHOOSE i \in T : \A j \in T : j <= i].ts
  BY <1>3 DEF LastTime
<1>5. CASE T = {}
  BY <1>1, <1>2, <1>3, <1>4, <1>5 DEF LastIs
<1>6. CASE T # {}
  <2>1. PICK i \in T : (\A j \in T : j <= i) /\ content[i].ts = t
    BY <1>2, <1>3, <1>6 DEF LastIs
  <2>2. T \subseteq Nat
    BY <1>3, LenProperties
  <2>3. \A k \in T : (\A j \in T : j <= k) => k = i
    BY <2>1, <2>2
  <2>4. (CHOOSE k \in T : \A j \in T : j <= k) = i
    BY <2>1, <2>3
  <2> QED
    BY <1>1, <1>4, <1>6, <2>1, <2>4, ZenonT(30)
<1> QED
  BY <1>5, <1>6

\* There is a first message at or after a time, or none.
LEMMA FirstAtFound ==
    ASSUME content \in Seq(Sent), NEW ns \in Times
    PROVE  /\ FirstAt(ns) \in 1 .. Len(content) + 1
           /\ FirstAt(ns) <= Len(content) => Reached(content[FirstAt(ns)], ns)
           /\ \A i \in 1 .. FirstAt(ns) - 1 : ~Reached(content[i], ns)
<1> DEFINE P(k) == /\ k <= Len(content) => Reaches(k, ns)
                   /\ \A i \in 1 .. k - 1 : ~Reaches(i, ns)
<1>1. PICK n \in Nat : n = Len(content)
  BY LenProperties
<1>2. PICK T : T = {k \in 1 .. n + 1 : k = n + 1 \/ Reaches(k, ns)}
  BY ZenonT(30)
<1>3. T \subseteq Nat /\ n + 1 \in T
  BY <1>2
<1>4. PICK k \in T : \A y \in T : ~(y < k)
  BY <1>3, Least, ZenonT(30)
<1>5. k \in 1 .. Len(content) + 1 /\ P(k)
  BY <1>1, <1>2, <1>4
<1>6. FirstAt(ns) = CHOOSE j \in 1 .. Len(content) + 1 : P(j)
  BY DEF FirstAt
<1> HIDE DEF P
<1>7. FirstAt(ns) \in 1 .. Len(content) + 1 /\ P(FirstAt(ns))
  BY <1>5, <1>6
<1> QED
  BY <1>7 DEF P, Reaches, Reached

---------------------------------------------------------------------------
(* The events among messages *)

Wanted(m, from) == m.type = "EV" /\ m.ts >= from

\* q with the message m if it is an event at or after the time.
AddWanted(q, m, from) == IF Wanted(m, from) THEN Append(q, m) ELSE q

EventsBy(b, from, n) ==
    \E f \in [0 .. n -> Seq(Sent)] :
        /\ f[0] = <<>>
        /\ \A i \in 1 .. n : f[i] = AddWanted(f[i - 1], b[i], from)
        /\ Events(b, from) = f[n]

\* Selecting the events of a batch is a recursive function with one step per message.
LEMMA EventsTurns ==
    ASSUME NEW b \in Seq(Sent), NEW from \in Times, NEW n \in Nat, n = Len(b)
    PROVE  EventsBy(b, from, n)
<1> DEFINE T(x, i) == AddWanted(x, b[i], from)
<1> DEFINE h[i \in 0 .. Len(b)] == IF i = 0 THEN <<>> ELSE T(h[i - 1], i)
<1>1. PICK g : g = [i \in 1 .. n |-> [x \in Seq(Sent) |-> AddWanted(x, b[i], from)]]
  BY ZenonT(30)
<1>2. \A i \in 1 .. n : b[i] \in Sent
  BY ElementOfSeq
<1>3. g \in [1 .. n -> [Seq(Sent) -> Seq(Sent)]]
  <2>1. ASSUME NEW i \in 1 .. n, NEW x \in Seq(Sent) PROVE AddWanted(x, b[i], from) \in Seq(Sent)
    BY <1>2, AppendProperties DEF AddWanted
  <2>2. ASSUME NEW i \in 1 .. n
        PROVE  [x \in Seq(Sent) |-> AddWanted(x, b[i], from)] \in [Seq(Sent) -> Seq(Sent)]
    BY <2>1
  <2> QED
    BY <1>1, <2>2
<1> HIDE DEF h, T
<1>4. PICK f \in [0 .. n -> Seq(Sent)] : f[0] = <<>> /\ \A i \in 1 .. n : f[i] = g[i][f[i - 1]]
  <2>1. <<>> \in Seq(Sent)
    BY EmptySeq
  <2>2. Iterates(n, Seq(Sent), <<>>, g)
    BY <1>3, <2>1, Recursion, ZenonT(30)
  <2> QED
    BY <2>2, ZenonT(30) DEF Iterates
<1>5. ASSUME NEW i \in 1 .. n PROVE f[i] = T(f[i - 1], i)
  <2>1. f[i - 1] \in Seq(Sent) /\ f[i] = g[i][f[i - 1]]
    BY <1>4, SMTT(30)
  <2> QED
    BY <1>1, <2>1, ZenonT(30) DEF T
<1>6. f = [i \in 0 .. Len(b) |-> IF i = 0 THEN <<>> ELSE T(f[i - 1], i)]
  BY <1>4, <1>5
<1>7. h = [i \in 0 .. Len(b) |-> IF i = 0 THEN <<>> ELSE T(h[i - 1], i)]
  BY <1>6, SMTT(30) DEF h
<1>8. h[0] = f[0]
  BY <1>4, <1>7
<1>9. ASSUME NEW i \in 1 .. n, h[i - 1] = f[i - 1] PROVE h[i] = f[i]
  BY <1>5, <1>7, <1>9
<1>10. h[n] = f[n]
  <2>1. StepwiseAgree(h, f, n)
    BY <1>8, <1>9 DEF StepwiseAgree
  <2>2. Agree(h, f, n)
    BY <2>1, Agreement
  <2> QED
    BY <2>2 DEF Agree
<1>11. Events(b, from) = h[n]
  BY DEF Events, h, T, AddWanted, Wanted
<1> QED
  BY <1>4, <1>5, <1>10, <1>11, ZenonT(30) DEF EventsBy, T

\* No message, no event.
LEMMA EventsNone ==
    ASSUME NEW from \in Times
    PROVE  Events(<<>>, from) = <<>>
<1>1. PICK b \in Seq(Sent), n \in Nat : b = <<>> /\ n = 0 /\ n = Len(b)
  BY EmptySeq, ZenonT(30)
<1>2. EventsBy(b, from, n)
  BY <1>1, EventsTurns, ZenonT(30)
<1>3. PICK f \in [0 .. n -> Seq(Sent)] : f[0] = <<>> /\ Events(b, from) = f[n]
  BY <1>2, ZenonT(30) DEF EventsBy
<1> QED
  BY <1>1, <1>3

\* The events of a batch are selected message by message.
LEMMA EventsAppend ==
    ASSUME NEW b \in Seq(Sent), NEW m \in Sent, NEW from \in Times
    PROVE  /\ Events(b, from) \in Seq(Sent)
           /\ Events(Append(b, m), from) = AddWanted(Events(b, from), m, from)
<1>1. PICK n \in Nat : n = Len(b)
  BY LenProperties
<1>2. PICK a : a = Append(b, m)
  BY ZenonT(30)
<1>3. /\ a \in Seq(Sent) /\ Len(a) = n + 1
      /\ \A i \in 1 .. n : a[i] = b[i]
      /\ a[n + 1] = m
  BY <1>1, <1>2, AppendProperties
<1>4. PICK f \in [0 .. n -> Seq(Sent)] :
          /\ f[0] = <<>>
          /\ \A i \in 1 .. n : f[i] = AddWanted(f[i - 1], b[i], from)
          /\ Events(b, from) = f[n]
  <2>1. EventsBy(b, from, n)
    BY <1>1, EventsTurns
  <2> QED
    BY <2>1, ZenonT(30) DEF EventsBy
<1>5. PICK k \in Nat : k = n + 1
  OBVIOUS
<1>6. PICK g \in [0 .. k -> Seq(Sent)] :
          /\ g[0] = <<>>
          /\ \A i \in 1 .. k : g[i] = AddWanted(g[i - 1], a[i], from)
          /\ Events(a, from) = g[k]
  <2>1. EventsBy(a, from, k)
    BY <1>3, <1>5, EventsTurns
  <2> QED
    BY <2>1, ZenonT(30) DEF EventsBy
<1>7. f[0] = g[0]
  BY <1>4, <1>6
<1>8. ASSUME NEW i \in 1 .. n, f[i - 1] = g[i - 1] PROVE f[i] = g[i]
  BY <1>3, <1>4, <1>5, <1>6, <1>8
<1>9. f[n] = g[n]
  <2>1. StepwiseAgree(f, g, n)
    BY <1>7, <1>8 DEF StepwiseAgree
  <2>2. Agree(f, g, n)
    BY <2>1, Agreement
  <2> QED
    BY <2>2 DEF Agree
<1>10. g[k] = AddWanted(g[n], m, from)
  BY <1>3, <1>5, <1>6
<1>11. f[n] \in Seq(Sent)
  BY <1>4
<1> QED
  BY <1>2, <1>4, <1>6, <1>9, <1>10, <1>11

\* The events of two batches one after the other.
LEMMA EventsConcat ==
    ASSUME NEW a \in Seq(Sent), NEW b \in Seq(Sent), NEW from \in Times
    PROVE  Events(a \o b, from) = Events(a, from) \o Events(b, from)
<1>0. PICK ea \in Seq(Sent) : ea = Events(a, from)
  <2>1. Events(a, from) \in Seq(Sent)
    <3>1. PICK n \in Nat : n = Len(a)
      BY LenProperties
    <3>2. EventsBy(a, from, n)
      BY <3>1, EventsTurns
    <3>3. PICK f \in [0 .. n -> Seq(Sent)] : Events(a, from) = f[n]
      BY <3>2, ZenonT(30) DEF EventsBy
    <3> QED
      BY <3>3
  <2> QED
    BY <2>1, Zenon
<1>1. PICK S : S = {q \in Seq(Sent) : Events(a \o q, from) = ea \o Events(q, from)}
  BY ZenonT(30)
<1>2. <<>> \in S
  <2>1. <<>> \in Seq(Sent) /\ a \o <<>> = a /\ ea \o <<>> = ea
    BY EmptySeq, ConcatEmptySeq
  <2>2. Events(<<>>, from) = <<>>
    BY EventsNone
  <2> QED
    BY <1>0, <1>1, <2>1, <2>2, Zenon
<1>3. ASSUME NEW q \in Seq(Sent), NEW m \in Sent, q \in S PROVE Append(q, m) \in S
  <2>1. a \o Append(q, m) = Append(a \o q, m) /\ a \o q \in Seq(Sent) /\ Append(q, m) \in Seq(Sent)
    BY ConcatAppend
  <2>2. PICK aq \in Seq(Sent), eq \in Seq(Sent) : aq = a \o q /\ eq = Events(q, from)
    BY <2>1, EventsAppend, ZenonT(30)
  <2>3. Events(aq, from) = ea \o eq
    BY <1>1, <1>3, <2>2
  <2>4. Events(Append(aq, m), from) = AddWanted(ea \o eq, m, from)
    BY <2>3, EventsAppend, ZenonT(30)
  <2>5. Events(Append(q, m), from) = AddWanted(eq, m, from)
    BY <2>2, EventsAppend
  <2>6. ea \o Append(eq, m) = Append(ea \o eq, m)
    BY ConcatAppend
  <2>7. ea \o AddWanted(eq, m, from) = AddWanted(ea \o eq, m, from)
    BY <2>6, Zenon DEF AddWanted
  <2> QED
    BY <1>1, <2>1, <2>2, <2>4, <2>5, <2>7, Zenon
<1>4. b \in S
  BY <1>2, <1>3, AppendInduction
<1> QED
  BY <1>0, <1>1, <1>4

\* Messages of which none is such an event.
Other(from) == {m \in Sent : ~Wanted(m, from)}

\* Messages which are no event, or too early, contribute no event.
LEMMA EventsOther ==
    ASSUME NEW from \in Times, NEW b \in Seq(Other(from))
    PROVE  Events(b, from) = <<>>
<1>1. PICK S : S = {q \in Seq(Sent) : Events(q, from) = <<>>}
  BY ZenonT(30)
<1>2. <<>> \in S
  BY <1>1, EmptySeq, EventsNone
<1>3. ASSUME NEW q \in Seq(Other(from)), NEW m \in Other(from), q \in S PROVE Append(q, m) \in S
  <2>1. q \in Seq(Sent) /\ m \in Sent /\ ~Wanted(m, from)
    BY <1>1, <1>3 DEF Other
  <2>2. Append(q, m) \in Seq(Sent)
    BY <2>1, AppendProperties
  <2>3. Events(Append(q, m), from) = AddWanted(Events(q, from), m, from)
    BY <2>1, EventsAppend
  <2> QED
    BY <1>1, <1>3, <2>1, <2>2, <2>3 DEF AddWanted
<1>4. b \in S
  BY <1>2, <1>3, AppendInduction
<1> QED
  BY <1>1, <1>4

\* Among messages which are all late enough, every event is selected.
LEMMA EventsLate ==
    ASSUME NEW from \in Times, NEW b \in Seq(Late(from))
    PROVE  Events(b, 0) = Events(b, from)
<1>0. 0 \in Times
  BY SequenceAssumption DEF Times
<1>1. PICK S : S = {q \in Seq(Sent) : Events(q, 0) = Events(q, from)}
  BY ZenonT(30)
<1>2. <<>> \in S
  BY <1>0, <1>1, EmptySeq, EventsNone
<1>3. ASSUME NEW q \in Seq(Late(from)), NEW m \in Late(from), q \in S PROVE Append(q, m) \in S
  <2>1. q \in Seq(Sent) /\ m \in Sent /\ m.ts >= from
    BY <1>1, <1>3 DEF Late
  <2>2. Append(q, m) \in Seq(Sent)
    BY <2>1, AppendProperties
  <2>3. /\ Events(Append(q, m), from) = AddWanted(Events(q, from), m, from)
        /\ Events(Append(q, m), 0) = AddWanted(Events(q, 0), m, 0)
    BY <1>0, <2>1, EventsAppend
  <2>4. m.ts >= 0
    BY <2>1, SequenceAssumption DEF Sent, Message, NoTime
  <2>5. Wanted(m, 0) <=> Wanted(m, from)
    BY <2>1, <2>4 DEF Wanted
  <2> QED
    BY <1>1, <1>3, <2>2, <2>3, <2>5, SMTT(30) DEF AddWanted
<1>4. b \in S
  BY <1>2, <1>3, AppendInduction
<1> QED
  BY <1>1, <1>4
===========================================================================
