--------------------------- MODULE FairQueueProofs ---------------------------
(***************************************************************************)
(* The fair queue, for any number of principals, tasks, caps and quotas:   *)
(* what fq_enqueue and fq_take leave behind, and the queue at work         *)
(* (FairRotation).  Its rotation and FIFOs stay in step, and no principal  *)
(* that could be served is overtaken twice by another.                     *)
(***************************************************************************)
EXTENDS FairRotation, FiniteSetTheorems, SequenceTheorems, WellFoundedInduction, TLAPS

\* The provers a leaf that names none is given, in order: the solver again after
\* Zenon, for a leaf whose translation was too slow the first time.
USE SMTT(30), ZenonT(30), SMTT(31), SMTT(32), SMTT(33)

\* A nonempty set of naturals has a least element.
LEMMA LeastNat ==
  ASSUME NEW S \in SUBSET Nat, S # {}
  PROVE  \E i \in S : \A j \in S : i <= j
<1> DEFINE R == OpToRel(<, Nat)
<1>1. IsWellFoundedOn(R, Nat)
  BY NatLessThanWellFounded, ZenonT(30)
<1> HIDE DEF R
<1>2. PICK i \in S : \A j \in S : ~(<<j, i>> \in R)
  BY <1>1, WFMin, ZenonT(30)
<1>3. \A j \in S : j < i => <<j, i>> \in R
  BY DEF R, OpToRel
<1>4. \A j \in S : ~(j < i)
  BY <1>2, <1>3, ZenonT(30)
<1>5. \A j \in S : j \in Nat /\ i \in Nat
  OBVIOUS
<1> QED
  BY <1>4, <1>5

\* The rotation after the principal at i is taken out and those before it have
\* gone to the back.
Rest(s, i) == SubSeq(s, i + 1, Len(s)) \o SubSeq(s, 1, i - 1)

\* Which place each principal of that rotation has.
LEMMA RestIs ==
  ASSUME NEW s \in Seq(Principals), NEW i \in 1 .. Len(s)
  PROVE  /\ Rest(s, i) \in Seq(Principals)
         /\ Len(Rest(s, i)) = Len(s) - 1
         /\ \A k \in 1 .. (Len(s) - i) : Rest(s, i)[k] = s[i + k]
         /\ \A k \in (Len(s) - i + 1) .. (Len(s) - 1) : Rest(s, i)[k] = s[k - (Len(s) - i)]
<1> DEFINE a == SubSeq(s, i + 1, Len(s))
           b == SubSeq(s, 1, i - 1)
<1>1. /\ a \in Seq(Principals) /\ Len(a) = Len(s) - i
      /\ \A k \in 1 .. (Len(s) - i) : a[k] = s[i + k]
  OBVIOUS
<1>2. /\ b \in Seq(Principals) /\ Len(b) = i - 1
      /\ \A k \in 1 .. (i - 1) : b[k] = s[k]
  OBVIOUS
<1> HIDE DEF a, b
<1>3. /\ a \o b \in Seq(Principals)
      /\ Len(a \o b) = Len(a) + Len(b)
      /\ \A k \in 1 .. (Len(a) + Len(b)) :
           (a \o b)[k] = IF k <= Len(a) THEN a[k] ELSE b[k - Len(a)]
  BY <1>1, <1>2, ConcatProperties, ZenonT(30)
<1>4. Rest(s, i) = a \o b
  BY DEF Rest, a, b
<1>5. Len(s) \in Nat /\ i \in Nat /\ i <= Len(s) /\ 1 <= i
  OBVIOUS
<1>6. Len(a \o b) = Len(s) - 1
  BY <1>1, <1>2, <1>3, <1>5
<1>7. ASSUME NEW k \in 1 .. (Len(s) - i) PROVE (a \o b)[k] = s[i + k]
  <2>1. k \in 1 .. (Len(a) + Len(b)) /\ k <= Len(a)
    BY <1>1, <1>2, <1>5
  <2> QED
    BY <2>1, <1>1, <1>3
<1>8. ASSUME NEW k \in (Len(s) - i + 1) .. (Len(s) - 1)
      PROVE  (a \o b)[k] = s[k - (Len(s) - i)]
  <2>1. k \in 1 .. (Len(a) + Len(b)) /\ ~(k <= Len(a)) /\ k - Len(a) \in 1 .. (i - 1)
    BY <1>1, <1>2, <1>5
  <2> QED
    BY <2>1, <1>1, <1>2, <1>3
<1> QED
  BY <1>3, <1>4, <1>6, <1>7, <1>8, ZenonT(30)

\* fq_take when the principal at i is served.
Taken(q, i) ==
  LET pr == q.rotation[i]
  IN  [task |-> Head(q.fifos[pr]), pr |-> pr,
       fq |-> [fifos |-> [q.fifos EXCEPT ![pr] = Tail(@)],
               rotation |-> IF Tail(q.fifos[pr]) = <<>> THEN Rest(q.rotation, i)
                            ELSE Append(Rest(q.rotation, i), pr)]]

\* fq_take serves the first servable principal of the rotation.
LEMMA TakeFirst ==
  ASSUME NEW W, NEW q \in Queues(W), NEW S \in SUBSET FqPrincipals(q), S # {}
  PROVE  \E i \in 1 .. Len(q.rotation) :
           /\ q.rotation[i] \in S
           /\ \A j \in 1 .. (i - 1) : q.rotation[j] \notin S
           /\ FqTake(q, S) = Taken(q, i)
<1> DEFINE s == q.rotation
           I == {j \in 1 .. Len(s) : s[j] \in S}
           First(j) == s[j] \in S /\ \A k \in 1 .. (j - 1) : s[k] \notin S
           i == CHOOSE j \in DOMAIN s : First(j)
<1>1. s \in Seq(Principals) /\ DOMAIN s = 1 .. Len(s) /\ Len(s) \in Nat
  BY DEF Queues
<1>2. I # {}
  BY <1>1 DEF FqPrincipals, Range
<1>3. I \in SUBSET Nat
  BY <1>1
<1>4. PICK j \in I : \A k \in I : j <= k
  BY <1>2, <1>3, LeastNat, ZenonT(30)
<1>5. j \in DOMAIN s /\ First(j)
  BY <1>1, <1>4
<1>6. i \in DOMAIN s /\ First(i)
  BY <1>5
<1>7. FqTake(q, S) = Taken(q, i)
  BY DEF FqTake, Rest, Taken
<1> HIDE DEF i
<1>8. i \in 1 .. Len(q.rotation)
  BY <1>1, <1>6
<1> WITNESS i \in 1 .. Len(q.rotation)
<1> QED
  BY <1>6, <1>7

\* Where the principal at place k of the rotation was before the take at i.
Old(n, i, k) == IF k <= n - i THEN i + k ELSE IF k < n THEN k - (n - i) ELSE i

\* r is the rotation of q with that permutation, without the principal served when
\* it has no other task.
Permuted(q, i, r) ==
  LET n == Len(q.rotation)
  IN  /\ r \in Seq(Principals)
      /\ Len(r) = IF Tail(q.fifos[q.rotation[i]]) = <<>> THEN n - 1 ELSE n
      /\ \A k \in 1 .. Len(r) : r[k] = q.rotation[Old(n, i, k)]

\* A take permutes the rotation, or drops the principal it served.
LEMMA TakenRotation ==
  ASSUME NEW W, NEW q \in Queues(W), NEW i \in 1 .. Len(q.rotation)
  PROVE  Permuted(q, i, Taken(q, i).fq.rotation)
<1> DEFINE s == q.rotation
           n == Len(s)
           t == Rest(s, i)
           r == Taken(q, i).fq.rotation
<1>1. s \in Seq(Principals) /\ n \in Nat /\ s[i] \in Principals
  BY DEF Queues
<1>2. /\ t \in Seq(Principals) /\ Len(t) = n - 1
      /\ \A k \in 1 .. (n - i) : t[k] = s[i + k]
      /\ \A k \in (n - i + 1) .. (n - 1) : t[k] = s[k - (n - i)]
  BY <1>1, RestIs, ZenonT(30)
<1>3. r = IF Tail(q.fifos[s[i]]) = <<>> THEN t ELSE Append(t, s[i])
  BY DEF Taken
<1> HIDE DEF t, r
<1>4. \A k \in 1 .. (n - 1) : t[k] = s[Old(n, i, k)]
  <2> TAKE k \in 1 .. (n - 1)
  <2>1. CASE k <= n - i
    BY <2>1, <1>1, <1>2 DEF Old
  <2>2. CASE ~(k <= n - i)
    BY <2>2, <1>1, <1>2 DEF Old
  <2> QED
    BY <2>1, <2>2
<1> DEFINE Facts == /\ r \in Seq(Principals)
                    /\ Len(r) = IF Tail(q.fifos[s[i]]) = <<>> THEN n - 1 ELSE n
                    /\ \A k \in 1 .. Len(r) : r[k] = s[Old(n, i, k)]
<1>5. Facts
  <2>1. CASE Tail(q.fifos[s[i]]) = <<>>
    <3>1. r = t
      BY <1>3, <2>1
    <3> QED
      BY <3>1, <1>2, <1>4, <2>1
  <2>2. CASE Tail(q.fifos[s[i]]) # <<>>
    <3>1. /\ r \in Seq(Principals) /\ Len(r) = n
          /\ \A k \in 1 .. (n - 1) : r[k] = t[k]
          /\ r[n] = s[i]
      <4>1. r = Append(t, s[i])
        BY <1>3, <2>2
      <4>2. /\ Append(t, s[i]) \in Seq(Principals)
            /\ Len(Append(t, s[i])) = Len(t) + 1
            /\ \A k \in 1 .. Len(t) : Append(t, s[i])[k] = t[k]
            /\ Append(t, s[i])[Len(t) + 1] = s[i]
        BY <1>1, <1>2, AppendProperties
      <4>3. Len(t) = n - 1 /\ Len(t) + 1 = n
        BY <1>1, <1>2
      <4> QED
        BY <4>1, <4>2, <4>3
    <3>2. ~(n <= n - i) /\ ~(n < n)
      BY <1>1
    <3>3. Old(n, i, n) = i
      BY <3>2 DEF Old
    <3>4. \A k \in 1 .. n : k \in 1 .. (n - 1) \/ k = n
      BY <1>1
    <3>5. \A k \in 1 .. n : r[k] = s[Old(n, i, k)]
      BY <3>1, <3>3, <3>4, <1>4
    <3> QED
      BY <3>1, <3>5, <2>2
  <2> QED
    BY <2>1, <2>2
<1> QED
  BY <1>5, ZenonT(30) DEF Permuted, r

\* That permutation: one to one, the principal served last, and the order of those
\* behind it kept, with no other before them.
Permutation(n, i) ==
  /\ \A k \in 1 .. n : Old(n, i, k) \in 1 .. n
  /\ \A k \in 1 .. n : Old(n, i, k) = i <=> k = n
  /\ \A j, k \in 1 .. n : Old(n, i, j) = Old(n, i, k) => j = k
  /\ \A j, k \in 1 .. n : j < k /\ Old(n, i, k) > i =>
       Old(n, i, j) < Old(n, i, k) /\ Old(n, i, j) > i
  /\ \A m \in 1 .. n : \E k \in 1 .. n : Old(n, i, k) = m

\* Places of the rotation before and after a take at i.
LEMMA OldPlaces ==
  ASSUME NEW n \in Nat, NEW i \in 1 .. n
  PROVE  Permutation(n, i)
<1>1. \A m \in 1 .. n : \E k \in 1 .. n : Old(n, i, k) = m
  <2> TAKE m \in 1 .. n
  <2> DEFINE k == IF m > i THEN m - i ELSE IF m < i THEN m + (n - i) ELSE n
  <2>1. k \in 1 .. n /\ Old(n, i, k) = m
    BY DEF Old
  <2> QED
    BY <2>1
<1> QED
  BY <1>1 DEF Old, Permutation

\* fq_take keeps rotation and FIFOs in step.
LEMMA TakenQueue ==
  ASSUME NEW W, NEW q \in Queues(W), RotationMatchesFifos(q), NEW i \in 1 .. Len(q.rotation)
  PROVE  /\ q.rotation[i] \in Principals /\ q.fifos[q.rotation[i]] # <<>>
         /\ Taken(q, i).fq \in Queues(W)
         /\ RotationMatchesFifos(Taken(q, i).fq)
<1> DEFINE n == Len(q.rotation)
           pr == q.rotation[i]
           f == [q.fifos EXCEPT ![pr] = Tail(@)]
           r == Taken(q, i).fq.rotation
<1>1. /\ q.rotation \in Seq(Principals) /\ n \in Nat /\ DOMAIN q.rotation = 1 .. n
      /\ q.fifos \in [Principals -> Seq(W)]
      /\ pr \in Principals
  BY DEF Queues
<1>2. q.fifos[pr] # <<>>
  <2>1. Range(q.rotation) = {p \in Principals : q.fifos[p] # <<>>}
    BY DEF RotationMatchesFifos, FqPrincipals
  <2>2. pr \in Range(q.rotation)
    BY <1>1 DEF Range
  <2> QED
    BY <2>1, <2>2
<1>3. Tail(q.fifos[pr]) \in Seq(W)
  BY <1>1, <1>2, HeadTailProperties
<1>4. f \in [Principals -> Seq(W)]
  BY <1>1, <1>3
<1>5. Taken(q, i).fq = [fifos |-> f, rotation |-> r]
  BY ZenonT(30) DEF Taken
<1>r. r = Taken(q, i).fq.rotation /\ n = Len(q.rotation)
  OBVIOUS
<1> HIDE DEF r, f, n
<1>6. /\ r \in Seq(Principals)
      /\ Len(r) = IF Tail(q.fifos[pr]) = <<>> THEN n - 1 ELSE n
      /\ \A k \in 1 .. Len(r) : r[k] = q.rotation[Old(n, i, k)]
  <2>1. Permuted(q, i, r)
    BY <1>r, TakenRotation
  <2> QED
    BY <2>1, <1>r, ZenonT(30) DEF Permuted
<1>i. n \in Nat /\ i \in 1 .. n
  BY <1>1, <1>r
<1>7. Taken(q, i).fq \in Queues(W)
  BY <1>4, <1>5, <1>6 DEF Queues
<1>l. Len(r) \in Nat /\ Len(r) <= n
  BY <1>i, <1>6
<1>8. DOMAIN r = 1 .. Len(r) /\ 1 .. Len(r) \subseteq 1 .. n
  <2>0. r \in Seq(Principals)
    BY <1>6
  <2>1. DOMAIN r = 1 .. Len(r)
    BY <2>0
  <2>2. 1 .. Len(r) \subseteq 1 .. n
    BY <1>i, <1>l
  <2> QED
    BY <2>1, <2>2
<1>d. DOMAIN q.rotation = 1 .. n
  BY <1>1, <1>r
<1>u. \A j, k \in 1 .. n : q.rotation[j] = q.rotation[k] => j = k
  BY <1>d DEF RotationMatchesFifos
<1>p. Permutation(n, i)
  BY <1>i, OldPlaces
<1>o. /\ \A k \in 1 .. n : Old(n, i, k) \in 1 .. n
      /\ \A k \in 1 .. n : Old(n, i, k) = i <=> k = n
      /\ \A j, k \in 1 .. n : Old(n, i, j) = Old(n, i, k) => j = k
      /\ \A m \in 1 .. n : \E k \in 1 .. n : Old(n, i, k) = m
  BY <1>p DEF Permutation
<1>e. \A k \in 1 .. Len(r) : r[k] = q.rotation[Old(n, i, k)] /\ k \in 1 .. n
  BY <1>6, <1>8, ZenonT(30)
<1>9. ASSUME NEW j \in DOMAIN r, NEW k \in DOMAIN r, r[j] = r[k]
      PROVE  j = k
  <2>1. j \in 1 .. n /\ k \in 1 .. n
    BY <1>8
  <2>2. q.rotation[Old(n, i, j)] = q.rotation[Old(n, i, k)]
    BY <1>9, <1>e, <1>8
  <2>3. Old(n, i, j) \in 1 .. n /\ Old(n, i, k) \in 1 .. n
    BY <2>1, <1>o
  <2>4. Old(n, i, j) = Old(n, i, k)
    BY <2>2, <2>3, <1>u
  <2> QED
    BY <2>1, <2>4, <1>o
<1>10. Range(r) = {p \in Principals : f[p] # <<>>}
  <2>1. Range(q.rotation) = {p \in Principals : q.fifos[p] # <<>>}
    BY DEF RotationMatchesFifos, FqPrincipals
  <2>2. \A p \in Principals : f[p] = IF p = pr THEN Tail(q.fifos[pr]) ELSE q.fifos[p]
    BY <1>1 DEF f
  <2>3. ASSUME NEW p \in Range(r) PROVE p \in Principals /\ f[p] # <<>>
    <3>1. PICK k \in 1 .. Len(r) : p = r[k]
      BY <1>8 DEF Range
    <3>2. p = q.rotation[Old(n, i, k)] /\ Old(n, i, k) \in 1 .. n
      BY <3>1, <1>o, <1>6, <1>8, ZenonT(30)
    <3>3. p \in Range(q.rotation)
      BY <3>2, <1>1 DEF Range
    <3>4. CASE p = pr
      <4>1. Old(n, i, k) = i
        BY <3>2, <3>4, <1>u, <1>i, ZenonT(30)
      <4>2. k = n
        BY <4>1, <1>o, <1>8
      <4>3. Tail(q.fifos[pr]) # <<>>
        BY <4>2, <1>1, <1>6
      <4> QED
        BY <4>3, <3>4, <2>2, <1>1, ZenonT(30)
    <3> QED
      BY <3>3, <3>4, <2>1, <2>2
  <2>4. ASSUME NEW p \in Principals, f[p] # <<>> PROVE p \in Range(r)
    <3>1. q.fifos[p] # <<>>
      BY <2>2, <2>4, <1>2
    <3>2. PICK m \in 1 .. n : p = q.rotation[m]
      BY <3>1, <2>1, <1>1 DEF Range
    <3>3. PICK k \in 1 .. n : Old(n, i, k) = m
      BY <1>o
    <3>4. k \in 1 .. Len(r)
      <4>1. CASE Tail(q.fifos[pr]) = <<>>
        <5>1. p # pr
          BY <4>1, <2>2, <2>4, ZenonT(30)
        <5>2. m # i
          BY <5>1, <3>2
        <5>3. k # n
          BY <5>2, <3>3, <1>o, <1>i
        <5> QED
          BY <5>3, <4>1, <1>1, <1>6
      <4>2. CASE Tail(q.fifos[pr]) # <<>>
        BY <4>2, <1>6
      <4> QED
        BY <4>1, <4>2
    <3> QED
      BY <3>2, <3>3, <3>4, <1>6, <1>8, ZenonT(30) DEF Range
  <2> QED
    BY <2>3, <2>4
<1> QED
  BY <1>1, <1>2, <1>5, <1>7, <1>9, <1>10 DEF RotationMatchesFifos, FqPrincipals

-----------------------------------------------------------------------------
(* The FIFOs *)

\* A sequence without repetitions is as long as its range is large.
LEMMA OnceCounts ==
  ASSUME NEW W, NEW s \in Seq(W), Once(s)
  PROVE  IsFiniteSet(Range(s)) /\ Len(s) = Cardinality(Range(s))
<1>1. DOMAIN s = 1 .. Len(s) /\ Len(s) \in Nat
  OBVIOUS
<1>2. s \in [1 .. Len(s) -> Range(s)]
  BY <1>1 DEF Range
<1>3. ExistsBijection(1 .. Len(s), Range(s))
  <2>1. s \in Bijection(1 .. Len(s), Range(s))
    BY <1>1, <1>2 DEF Bijection, Injection, Surjection, IsInjective, Once, Range
  <2> QED
    BY <2>1 DEF ExistsBijection
<1>4. IsFiniteSet(Range(s)) /\ Cardinality(Range(s)) = Len(s)
  BY <1>1, <1>3, FS_CountingElements, FS_NatBijection
<1> QED
  BY <1>4

\* Queueing a task that is not in the FIFO.
LEMMA OnceAppend ==
  ASSUME NEW W, NEW s \in Seq(W), Once(s), NEW t \in W, t \notin Range(s)
  PROVE  /\ Append(s, t) \in Seq(W) /\ Append(s, t) # <<>>
         /\ Once(Append(s, t))
         /\ Range(Append(s, t)) = Range(s) \cup {t}
<1> DEFINE a == Append(s, t)
           n == Len(s)
<1>1. DOMAIN s = 1 .. n /\ n \in Nat
  OBVIOUS
<1>2. /\ a \in Seq(W) /\ a # <<>> /\ Len(a) = n + 1
      /\ \A k \in 1 .. n : a[k] = s[k]
      /\ a[n + 1] = t
  BY AppendProperties
<1>3. DOMAIN a = 1 .. (n + 1)
  BY <1>2
<1>4. \A k \in 1 .. (n + 1) : k \in 1 .. n \/ k = n + 1
  BY <1>1
<1>5. \A k \in 1 .. n : k \in 1 .. (n + 1) /\ n + 1 \in 1 .. (n + 1)
  BY <1>1
<1>6. n + 1 \in 1 .. (n + 1)
  BY <1>1
<1> HIDE DEF a
<1>7. \A k \in 1 .. n : a[k] # t
  BY <1>1, <1>2 DEF Range
<1>8. Range(a) = Range(s) \cup {t}
  BY <1>1, <1>2, <1>3, <1>4, <1>5, <1>6 DEF Range
<1>9. Once(a)
  BY <1>1, <1>2, <1>4, <1>7 DEF Once
<1> QED
  BY <1>2, <1>8, <1>9 DEF a

\* Taking the oldest task of a FIFO.
LEMMA OnceTail ==
  ASSUME NEW W, NEW s \in Seq(W), Once(s), s # <<>>
  PROVE  /\ Head(s) \in Range(s) /\ Head(s) \in W
         /\ Tail(s) \in Seq(W)
         /\ Once(Tail(s))
         /\ Range(Tail(s)) = Range(s) \ {Head(s)}
<1> DEFINE b == Tail(s)
           n == Len(s)
<1>1. DOMAIN s = 1 .. n /\ n \in Nat /\ n # 0
  BY EmptySeq
<1>2. /\ Head(s) = s[1] /\ Head(s) \in W
      /\ b \in Seq(W) /\ Len(b) = n - 1
      /\ \A k \in 1 .. (n - 1) : b[k] = s[k + 1]
  BY HeadTailProperties
<1>3. DOMAIN b = 1 .. (n - 1)
  BY <1>2
<1> HIDE DEF b
<1>4. /\ 1 \in 1 .. n
      /\ \A k \in 1 .. (n - 1) : k + 1 \in 1 .. n /\ k + 1 # 1
      /\ \A k \in 1 .. n : k = 1 \/ (k - 1 \in 1 .. (n - 1) /\ (k - 1) + 1 = k)
      /\ \A j, k \in 1 .. (n - 1) : j + 1 = k + 1 => j = k
  BY <1>1
<1> HIDE DEF n
<1>n. n = Len(s)
  BY DEF n
<1>5. \A k \in 1 .. (n - 1) : s[k + 1] # s[1]
  BY <1>4, <1>n DEF Once
<1>6. Range(b) \subseteq Range(s) \ {s[1]}
  BY <1>1, <1>2, <1>3, <1>4, <1>5 DEF Range
<1>7. ASSUME NEW x \in Range(s), x # s[1] PROVE x \in Range(b)
  <2>1. PICK k \in 1 .. n : x = s[k]
    BY <1>1 DEF Range
  <2>2. k - 1 \in 1 .. (n - 1) /\ (k - 1) + 1 = k
    BY <2>1, <1>4, <1>7
  <2>3. b[k - 1] = x
    BY <2>1, <2>2, <1>2
  <2> QED
    BY <2>2, <2>3, <1>3 DEF Range
<1>8. Once(b)
  <2>1. \A j, k \in 1 .. (n - 1) : s[j + 1] = s[k + 1] => j = k
    BY <1>4, <1>n DEF Once
  <2> QED
    BY <2>1, <1>2 DEF Once
<1>9. Head(s) \in Range(s)
  BY <1>1, <1>2, <1>4 DEF Range
<1> QED
  BY <1>2, <1>6, <1>7, <1>8, <1>9 DEF b

\* fq_enqueue keeps rotation and FIFOs in step.
LEMMA EnqueuedQueue ==
  ASSUME NEW W, NEW q \in Queues(W), RotationMatchesFifos(q),
         NEW pr \in Principals, NEW t \in W
  PROVE  /\ FqEnqueue(q, pr, t) \in Queues(W)
         /\ RotationMatchesFifos(FqEnqueue(q, pr, t))
<1> DEFINE f == [q.fifos EXCEPT ![pr] = Append(@, t)]
           s == q.rotation
           r == IF pr \in Range(s) THEN s ELSE Append(s, pr)
           n == Len(s)
<1>1. /\ s \in Seq(Principals) /\ n \in Nat /\ DOMAIN s = 1 .. n
      /\ q.fifos \in [Principals -> Seq(W)]
  BY DEF Queues
<1>2. Append(q.fifos[pr], t) \in Seq(W) /\ Append(q.fifos[pr], t) # <<>>
  <2> DEFINE u == q.fifos[pr]
  <2>1. u \in Seq(W)
    BY <1>1
  <2> HIDE DEF u
  <2>2. Append(u, t) \in Seq(W) /\ Append(u, t) # <<>>
    BY <2>1, AppendProperties
  <2> QED
    BY <2>2 DEF u
<1>3. /\ f \in [Principals -> Seq(W)]
      /\ f[pr] # <<>>
      /\ \A p \in Principals \ {pr} : f[p] = q.fifos[p]
  BY <1>1, <1>2
<1>4. FqEnqueue(q, pr, t) = [fifos |-> f, rotation |-> r]
  BY DEF FqEnqueue, FqPrincipals
<1>5. /\ Range(s) = {p \in Principals : q.fifos[p] # <<>>}
      /\ \A j, k \in DOMAIN s : s[j] = s[k] => j = k
  BY DEF RotationMatchesFifos, FqPrincipals
<1> HIDE DEF f
<1>6. /\ r \in Seq(Principals)
      /\ Range(r) = {p \in Principals : f[p] # <<>>}
      /\ \A j, k \in DOMAIN r : r[j] = r[k] => j = k
  <2>1. CASE pr \in Range(s)
    BY <2>1, <1>1, <1>3, <1>5, ZenonT(30)
  <2>2. CASE pr \notin Range(s)
    <3> DEFINE a == Append(s, pr)
    <3>1. /\ a \in Seq(Principals) /\ Len(a) = n + 1
          /\ \A k \in 1 .. n : a[k] = s[k]
          /\ a[n + 1] = pr
      BY <1>1, AppendProperties
    <3>2. DOMAIN a = 1 .. (n + 1)
      BY <3>1
    <3>3. /\ \A k \in 1 .. (n + 1) : k \in 1 .. n \/ k = n + 1
          /\ \A k \in 1 .. n : k \in 1 .. (n + 1)
          /\ n + 1 \in 1 .. (n + 1)
      BY <1>1
    <3>4. r = a
      BY <2>2
    <3> HIDE DEF a, r
    <3>5. \A k \in 1 .. n : a[k] # pr
      BY <2>2, <3>1, <1>1, ZenonT(30) DEF Range
    <3>6. Range(a) = Range(s) \cup {pr}
      BY <1>1, <3>1, <3>2, <3>3 DEF Range
    <3>7. \A j, k \in DOMAIN a : a[j] = a[k] => j = k
      BY <1>1, <1>5, <3>1, <3>2, <3>3, <3>5, ZenonT(30)
    <3> QED
      BY <3>1, <3>4, <3>6, <3>7, <1>3, <1>5
  <2> QED
    BY <2>1, <2>2
<1> HIDE DEF r
<1> DEFINE g == FqEnqueue(q, pr, t)
<1>7. g.rotation = r /\ g.fifos = f
  <2>1. g = [fifos |-> f, rotation |-> r]
    BY <1>4
  <2> HIDE DEF g
  <2> QED
    BY <2>1
<1>8. g \in Queues(W)
  BY <1>3, <1>4, <1>6 DEF Queues
<1> HIDE DEF g
<1>9. RotationMatchesFifos(g)
  BY <1>6, <1>7 DEF RotationMatchesFifos, FqPrincipals
<1> QED
  BY <1>8, <1>9 DEF g

-----------------------------------------------------------------------------
(* The queue at work: the inductive invariant *)

\* The tasks of a principal, and those of them in flight.
Mine(p) == {t \in Waiting : Tenant[t] = p}

InFlight(p) == {t \in running : Tenant[t] = p}

\* The queue holds each task that is neither outside nor running, once, in its
\* owner's FIFO; the counters count the running ones.
QueueInv ==
  /\ queue \in Queues(Waiting)
  /\ RotationMatchesFifos(queue)
  /\ outside \in SUBSET Waiting /\ running \in SUBSET Waiting
  /\ outside \cap running = {} /\ IsFiniteSet(running)
  /\ \A p \in Principals : Once(queue.fifos[p])
  /\ \A p \in Principals : Mine(p) \ (outside \cup running) = Range(queue.fifos[p])
  /\ inflight \in [Principals -> Nat]
  /\ \A p \in Principals : inflight[p] = Cardinality(InFlight(p))

\* A principal has not been overtaken by one before it in the rotation.
TurnInv ==
  /\ overtaken \in [Principals \X Principals -> Nat]
  /\ \A j, k \in DOMAIN queue.rotation :
       j < k => overtaken[<<queue.rotation[k], queue.rotation[j]>>] = 0
  /\ OvertakenOnce

\* fq_enqueue of a task from outside.
LEMMA EnqueueQueueInv ==
  ASSUME QueueInv, NEW t \in Waiting, Enqueue(t)
  PROVE  QueueInv'
<1> DEFINE pr == Tenant[t]
<1>1. pr \in Principals
  BY RotationAssumption
<1>2. /\ t \in outside /\ outside' = outside \ {t} /\ running' = running
      /\ inflight' = inflight /\ queue' = FqEnqueue(queue, pr, t)
  BY DEF Enqueue
<1>3. queue' \in Queues(Waiting) /\ RotationMatchesFifos(queue')
  BY <1>1, <1>2, EnqueuedQueue DEF QueueInv
<1>4. /\ queue.fifos \in [Principals -> Seq(Waiting)]
      /\ queue'.fifos = [queue.fifos EXCEPT ![pr] = Append(@, t)]
  BY <1>2 DEF QueueInv, Queues, FqEnqueue
<1>5. t \notin Range(queue.fifos[pr])
  BY <1>1, <1>2 DEF QueueInv
<1>6. /\ Once(Append(queue.fifos[pr], t))
      /\ Range(Append(queue.fifos[pr], t)) = Range(queue.fifos[pr]) \cup {t}
  BY <1>1, <1>4, <1>5, OnceAppend DEF QueueInv
<1>7. /\ queue'.fifos[pr] = Append(queue.fifos[pr], t)
      /\ \A p \in Principals \ {pr} : queue'.fifos[p] = queue.fifos[p]
  BY <1>1, <1>4
<1>8. \A p \in Principals : Once(queue'.fifos[p])
  BY <1>6, <1>7, ZenonT(30) DEF QueueInv
<1>9. \A p \in Principals : Mine(p) \ (outside' \cup running') = Range(queue'.fifos[p])
  <2> TAKE p \in Principals
  <2>0. Mine(p) \ (outside \cup running) = Range(queue.fifos[p])
    BY DEF QueueInv
  <2>1. CASE p = pr
    BY <2>0, <2>1, <1>2, <1>6, <1>7 DEF QueueInv, Mine
  <2>2. CASE p # pr
    BY <2>0, <2>2, <1>2, <1>7 DEF QueueInv, Mine
  <2> QED
    BY <2>1, <2>2
<1>10. \A p \in Principals : InFlight(p)' = InFlight(p)
  BY <1>2 DEF InFlight
<1> QED
  BY <1>2, <1>3, <1>8, <1>9, <1>10 DEF QueueInv, Mine

\* finish_worker of a running task.
LEMMA FinishQueueInv ==
  ASSUME QueueInv, NEW t \in Waiting, Finish(t)
  PROVE  QueueInv'
<1> DEFINE pr == Tenant[t]
<1>1. pr \in Principals
  BY RotationAssumption
<1>2. /\ t \in running /\ running' = running \ {t} /\ outside' = outside \cup {t}
      /\ inflight' = [inflight EXCEPT ![pr] = @ - 1] /\ queue' = queue
  BY DEF Finish
<1>3. IsFiniteSet(running')
  BY <1>2, FS_RemoveElement DEF QueueInv
<1>4. \A p \in Principals : Mine(p) \ (outside' \cup running') = Range(queue'.fifos[p])
  BY <1>2 DEF QueueInv
<1>5. ASSUME NEW p \in Principals
      PROVE  inflight'[p] = Cardinality(InFlight(p)') /\ inflight'[p] \in Nat
  <2>0. inflight[p] = Cardinality(InFlight(p)) /\ inflight \in [Principals -> Nat]
    BY DEF QueueInv
  <2>1. IsFiniteSet(InFlight(p))
    BY FS_Subset DEF InFlight, QueueInv
  <2>2. CASE p = pr
    <3>1. InFlight(p)' = InFlight(p) \ {t} /\ t \in InFlight(p)
      BY <1>2, <2>2 DEF InFlight
    <3>2. /\ IsFiniteSet(InFlight(p) \ {t})
          /\ Cardinality(InFlight(p) \ {t}) = Cardinality(InFlight(p)) - 1
      BY <2>1, <3>1, FS_RemoveElement
    <3>3. Cardinality(InFlight(p) \ {t}) \in Nat
      BY <3>2, FS_CardinalityType
    <3> QED
      BY <3>1, <3>2, <3>3, <2>0, <2>2, <1>2
  <2>3. CASE p # pr
    <3>1. InFlight(p)' = InFlight(p)
      BY <1>2, <2>3 DEF InFlight
    <3> QED
      BY <3>1, <2>0, <2>3, <1>2
  <2> QED
    BY <2>2, <2>3
<1>6. inflight' \in [Principals -> Nat]
  BY <1>2, <1>5, ZenonT(30) DEF QueueInv
<1> QED
  BY <1>2, <1>3, <1>4, <1>5, <1>6 DEF QueueInv

\* Where drain_loop's take falls: the first servable place of the rotation.
Served(i, S) ==
  /\ i \in 1 .. Len(queue.rotation)
  /\ queue.rotation[i] \in S
  /\ \A j \in 1 .. (i - 1) : queue.rotation[j] \notin S

\* The principals drain_loop may serve when quotas block these.
Blocking(blocked) == Servable(queue, ShareCap(queue, inflight), inflight, blocked)

\* What one turn of drain_loop does to the state.
DispatchAt(i, S) ==
  LET pr == queue.rotation[i]
      t == Head(queue.fifos[pr])
  IN  /\ S \subseteq FqPrincipals(queue)
      /\ Served(i, S)
      /\ queue' = Taken(queue, i).fq
      /\ inflight' = [inflight EXCEPT ![pr] = @ + 1]
      /\ running' = running \cup {t}
      /\ outside' = outside
      /\ overtaken' = [pq \in Principals \X Principals |->
                         IF pq[1] \in S \ {pr}
                         THEN overtaken[pq] + (IF pq[2] = pr THEN 1 ELSE 0)
                         ELSE 0]

\* Every turn of drain_loop that takes a task serves the first servable place.
LEMMA DispatchServes ==
  ASSUME QueueInv, NEW blocked, Dispatch(blocked)
  PROVE  \E i \in 1 .. Len(queue.rotation) : DispatchAt(i, Blocking(blocked))
<1> DEFINE S == Blocking(blocked)
<1>1. S \subseteq FqPrincipals(queue)
  BY DEF Blocking, Servable
<1>2. /\ S # {}
      /\ queue' = FqTake(queue, S).fq
      /\ inflight' = [inflight EXCEPT ![FqTake(queue, S).pr] = @ + 1]
      /\ running' = running \cup {FqTake(queue, S).task}
      /\ outside' = outside
      /\ overtaken' = [pq \in Principals \X Principals |->
                         IF pq[1] \in S \ {FqTake(queue, S).pr}
                         THEN overtaken[pq] + (IF pq[2] = FqTake(queue, S).pr THEN 1 ELSE 0)
                         ELSE 0]
  BY DEF Dispatch, Blocking
<1> HIDE DEF S
<1>3. queue \in Queues(Waiting)
  BY DEF QueueInv
<1>4. PICK i \in 1 .. Len(queue.rotation) :
           /\ queue.rotation[i] \in S
           /\ \A j \in 1 .. (i - 1) : queue.rotation[j] \notin S
           /\ FqTake(queue, S) = Taken(queue, i)
  BY <1>1, <1>2, <1>3, TakeFirst
<1>5. Taken(queue, i).pr = queue.rotation[i] /\ Taken(queue, i).task = Head(queue.fifos[queue.rotation[i]])
  BY DEF Taken
<1>6. DispatchAt(i, S)
  BY <1>1, <1>2, <1>4, <1>5 DEF DispatchAt, Served
<1> QED
  BY <1>6 DEF S

\* dispatch_one of the task at the head of the served principal's FIFO.
LEMMA DispatchQueueInv ==
  ASSUME QueueInv, NEW S, NEW i \in 1 .. Len(queue.rotation), DispatchAt(i, S)
  PROVE  QueueInv'
<1> DEFINE pr == queue.rotation[i]
           t == Head(queue.fifos[pr])
<1>1. /\ queue' = Taken(queue, i).fq /\ outside' = outside
      /\ inflight' = [inflight EXCEPT ![pr] = @ + 1]
      /\ running' = running \cup {t}
  BY DEF DispatchAt
<1>2. /\ pr \in Principals /\ queue.fifos[pr] # <<>>
      /\ queue' \in Queues(Waiting) /\ RotationMatchesFifos(queue')
  BY <1>1, TakenQueue DEF QueueInv
<1>3. /\ queue.fifos \in [Principals -> Seq(Waiting)]
      /\ queue'.fifos = [queue.fifos EXCEPT ![pr] = Tail(@)]
  BY <1>1, ZenonT(30) DEF QueueInv, Queues, Taken
<1>4. queue.fifos[pr] \in Seq(Waiting) /\ Once(queue.fifos[pr])
  BY <1>2, <1>3 DEF QueueInv
<1> HIDE DEF pr
<1>5. /\ t \in Range(queue.fifos[pr]) /\ t \in Waiting
      /\ Once(Tail(queue.fifos[pr]))
      /\ Range(Tail(queue.fifos[pr])) = Range(queue.fifos[pr]) \ {t}
  BY <1>2, <1>4, OnceTail
<1>6. /\ queue'.fifos[pr] = Tail(queue.fifos[pr])
      /\ \A p \in Principals \ {pr} : queue'.fifos[p] = queue.fifos[p]
  BY <1>2, <1>3
<1> HIDE DEF t
<1>7. Mine(pr) \ (outside \cup running) = Range(queue.fifos[pr])
  BY <1>2 DEF QueueInv
<1>8. Tenant[t] = pr /\ t \notin outside /\ t \notin running
  BY <1>5, <1>7 DEF Mine
<1>9. \A p \in Principals : Once(queue'.fifos[p])
  BY <1>5, <1>6 DEF QueueInv
<1>10. \A p \in Principals : Mine(p) \ (outside' \cup running') = Range(queue'.fifos[p])
  <2> TAKE p \in Principals
  <2>0. Mine(p) \ (outside \cup running) = Range(queue.fifos[p])
    BY DEF QueueInv
  <2>1. CASE p = pr
    BY <2>0, <2>1, <1>1, <1>5, <1>6
  <2>2. CASE p # pr
    BY <2>0, <2>2, <1>1, <1>6, <1>8 DEF Mine
  <2> QED
    BY <2>1, <2>2
<1>11. IsFiniteSet(running')
  BY <1>1, FS_AddElement DEF QueueInv
<1>12. ASSUME NEW p \in Principals
       PROVE  inflight'[p] = Cardinality(InFlight(p)') /\ inflight'[p] \in Nat
  <2>0. inflight[p] = Cardinality(InFlight(p)) /\ inflight \in [Principals -> Nat]
    BY DEF QueueInv
  <2>1. IsFiniteSet(InFlight(p))
    BY FS_Subset DEF InFlight, QueueInv
  <2>2. CASE p = pr
    <3>1. InFlight(p)' = InFlight(p) \cup {t} /\ t \notin InFlight(p)
      BY <1>1, <1>8, <2>2 DEF InFlight
    <3>2. Cardinality(InFlight(p) \cup {t}) = Cardinality(InFlight(p)) + 1
      BY <2>1, <3>1, FS_AddElement
    <3> QED
      BY <3>1, <3>2, <2>0, <2>2, <1>1
  <2>3. CASE p # pr
    <3>1. InFlight(p)' = InFlight(p)
      BY <1>1, <1>8, <2>3 DEF InFlight
    <3> QED
      BY <3>1, <2>0, <2>3, <1>1
  <2> QED
    BY <2>2, <2>3
<1>13. inflight' \in [Principals -> Nat]
  BY <1>1, <1>12, ZenonT(30) DEF QueueInv
<1>14. running' \in SUBSET Waiting /\ outside' \in SUBSET Waiting /\ outside' \cap running' = {}
  BY <1>1, <1>5, <1>8 DEF QueueInv
<1> QED
  BY <1>2, <1>9, <1>10, <1>11, <1>12, <1>13, <1>14 DEF QueueInv, Mine

\* A principal joins the rotation at the back, not overtaken.
LEMMA EnqueueTurnInv ==
  ASSUME QueueInv, TurnInv, NEW t \in Waiting, Enqueue(t)
  PROVE  TurnInv'
<1> DEFINE pr == Tenant[t]
           s == queue.rotation
           r == queue'.rotation
           n == Len(s)
<1>1. pr \in Principals
  BY RotationAssumption
<1>2. r = IF pr \in Range(s) THEN s ELSE Append(s, pr)
  BY DEF Enqueue, FqEnqueue, FqPrincipals
<1>3. overtaken' = IF pr \in Range(s) THEN overtaken
                   ELSE [pq \in Principals \X Principals |->
                           IF pq[1] = pr THEN 0 ELSE overtaken[pq]]
  BY DEF Enqueue, FqPrincipals
<1>4. /\ overtaken \in [Principals \X Principals -> Nat]
      /\ \A j, k \in DOMAIN s : j < k => overtaken[<<s[k], s[j]>>] = 0
      /\ \A p, q \in Principals : p \in Range(s) => overtaken[<<p, q>>] <= 1
  BY DEF TurnInv, OvertakenOnce, FqPrincipals
<1>5. s \in Seq(Principals) /\ n \in Nat /\ DOMAIN s = 1 .. n
  BY DEF QueueInv, Queues
<1> SUFFICES /\ overtaken' \in [Principals \X Principals -> Nat]
             /\ \A j, k \in DOMAIN r : j < k => overtaken'[<<r[k], r[j]>>] = 0
             /\ \A p, q \in Principals : p \in Range(r) => overtaken'[<<p, q>>] <= 1
  BY DEF TurnInv, OvertakenOnce, FqPrincipals
<1> HIDE DEF r
<1>6. CASE pr \in Range(s)
  BY <1>2, <1>3, <1>4, <1>6
<1>7. CASE pr \notin Range(s)
  <2>1. /\ r = Append(s, pr)
        /\ overtaken' = [pq \in Principals \X Principals |->
                           IF pq[1] = pr THEN 0 ELSE overtaken[pq]]
    BY <1>2, <1>3, <1>7
  <2>2. /\ r \in Seq(Principals) /\ Len(r) = n + 1
        /\ \A k \in 1 .. n : r[k] = s[k]
        /\ r[n + 1] = pr
    <3> HIDE DEF s
    <3>1. /\ Append(s, pr) \in Seq(Principals) /\ Len(Append(s, pr)) = Len(s) + 1
          /\ \A k \in 1 .. Len(s) : Append(s, pr)[k] = s[k]
          /\ Append(s, pr)[Len(s) + 1] = pr
      BY <1>1, <1>5, AppendProperties
    <3> QED
      BY <3>1, <2>1
  <2>3. DOMAIN r = 1 .. (n + 1)
    BY <2>2
  <2>4. /\ \A k \in 1 .. (n + 1) : k \in 1 .. n \/ k = n + 1
        /\ \A j, k \in 1 .. (n + 1) : j < k => j \in 1 .. n
    BY <1>5
  <2>5. \A p, q \in Principals :
          overtaken'[<<p, q>>] = IF p = pr THEN 0 ELSE overtaken[<<p, q>>]
    BY <2>1
  <2>6. \A k \in 1 .. n : s[k] \in Principals /\ s[k] # pr
    BY <1>5, <1>7 DEF Range
  <2>7. \A p \in Range(r) : p = pr \/ p \in Range(s)
    BY <1>5, <2>2, <2>3, <2>4 DEF Range
  <2>8. ASSUME NEW j \in 1 .. (n + 1), NEW k \in 1 .. (n + 1), j < k
        PROVE  overtaken'[<<r[k], r[j]>>] = 0
    <3>1. j \in 1 .. n /\ r[j] = s[j] /\ s[j] \in Principals
      BY <2>2, <2>4, <2>6, <2>8
    <3>2. CASE k = n + 1
      BY <3>1, <3>2, <2>2, <2>5, <1>1
    <3>3. CASE k \in 1 .. n
      <4>1. r[k] = s[k] /\ s[k] \in Principals /\ s[k] # pr
        BY <3>3, <2>2, <2>6
      <4>2. overtaken[<<s[k], s[j]>>] = 0
        BY <3>1, <3>3, <2>8, <1>4, <1>5, ZenonT(30)
      <4> QED
        BY <4>1, <4>2, <3>1, <2>5
    <3> QED
      BY <3>2, <3>3, <2>4
  <2>9. \A p, q \in Principals : p \in Range(r) => overtaken'[<<p, q>>] <= 1
    BY <2>5, <2>7, <1>4
  <2>10. overtaken' \in [Principals \X Principals -> Nat]
    BY <2>1, <1>4
  <2> QED
    BY <2>3, <2>8, <2>9, <2>10
<1> QED
  BY <1>6, <1>7

\* The principal served goes behind all it has overtaken, and a principal skipped
\* starts afresh at the back.
LEMMA DispatchTurnInv ==
  ASSUME QueueInv, TurnInv, NEW S, NEW i \in 1 .. Len(queue.rotation), DispatchAt(i, S)
  PROVE  TurnInv'
<1> DEFINE s == queue.rotation
           n == Len(s)
           pr == s[i]
           r == queue'.rotation
<1>1. s \in Seq(Principals) /\ n \in Nat /\ DOMAIN s = 1 .. n /\ i \in 1 .. n
  BY DEF QueueInv, Queues
<1>2. /\ overtaken \in [Principals \X Principals -> Nat]
      /\ \A j, k \in DOMAIN s : j < k => overtaken[<<s[k], s[j]>>] = 0
      /\ \A p, q \in Principals : p \in Range(s) => overtaken[<<p, q>>] <= 1
  BY DEF TurnInv, OvertakenOnce, FqPrincipals
<1>3. /\ S \subseteq Range(s)
      /\ \A j \in 1 .. (i - 1) : s[j] \notin S
      /\ overtaken' = [pq \in Principals \X Principals |->
                         IF pq[1] \in S \ {pr}
                         THEN overtaken[pq] + (IF pq[2] = pr THEN 1 ELSE 0)
                         ELSE 0]
  BY DEF DispatchAt, Served, FqPrincipals
<1>4. \A j, k \in 1 .. n : s[j] = s[k] => j = k
  BY <1>1, ZenonT(30) DEF QueueInv, RotationMatchesFifos
<1>5. Permuted(queue, i, r)
  BY TakenRotation DEF DispatchAt, QueueInv
<1>6. /\ r \in Seq(Principals) /\ Len(r) <= n
      /\ \A k \in 1 .. Len(r) : r[k] = s[Old(n, i, k)]
  <2>1. r \in Seq(Principals) /\ Len(r) \in {n - 1, n}
    BY <1>5 DEF Permuted
  <2>2. \A k \in 1 .. Len(r) : r[k] = s[Old(n, i, k)]
    BY <1>5, ZenonT(30) DEF Permuted
  <2>3. Len(r) <= n
    <3> HIDE DEF n, r
    <3> QED
      BY <2>1, <1>1
  <2> QED
    BY <2>1, <2>2, <2>3
<1>7. /\ r \in Seq(Principals)
      /\ \A k \in DOMAIN r : k \in 1 .. n /\ r[k] = s[Old(n, i, k)]
  BY <1>1, <1>6
<1> SUFFICES /\ overtaken' \in [Principals \X Principals -> Nat]
             /\ \A j, k \in DOMAIN r : j < k => overtaken'[<<r[k], r[j]>>] = 0
             /\ \A p, q \in Principals : overtaken'[<<p, q>>] <= 1
  BY DEF TurnInv, OvertakenOnce
<1> HIDE DEF r, pr, n, s
<1>pr. pr = s[i] /\ pr \in Principals
  BY <1>1 DEF pr
<1>8. Permutation(n, i)
  BY <1>1, OldPlaces
<1>9. /\ \A k \in 1 .. n : Old(n, i, k) \in 1 .. n
      /\ \A j, k \in 1 .. n : j < k /\ Old(n, i, k) > i =>
           Old(n, i, j) < Old(n, i, k) /\ Old(n, i, j) > i
  BY <1>8 DEF Permutation
<1>10. \A p, q \in Principals :
         overtaken'[<<p, q>>] = IF p \in S \ {pr}
                                THEN overtaken[<<p, q>>] + (IF q = pr THEN 1 ELSE 0)
                                ELSE 0
  BY <1>3
<1>11. \A k \in 1 .. n : s[k] \in Principals /\ s[k] \in Range(s)
  BY <1>1 DEF Range
<1>12. \A k \in 1 .. n : s[k] \in S \ {pr} => k > i
  <2> TAKE k \in 1 .. n
  <2>1. k \in 1 .. (i - 1) \/ k = i \/ k > i
    BY <1>1
  <2> QED
    BY <2>1, <1>3, <1>pr
<1>13. ASSUME NEW j \in DOMAIN r, NEW k \in DOMAIN r, j < k
       PROVE  overtaken'[<<r[k], r[j]>>] = 0
  <2> DEFINE oj == Old(n, i, j)
             ok == Old(n, i, k)
  <2>1. /\ oj \in 1 .. n /\ ok \in 1 .. n /\ r[j] = s[oj] /\ r[k] = s[ok]
        /\ s[oj] \in Principals /\ s[ok] \in Principals
    BY <1>7, <1>9, <1>11
  <2>2. ok > i => oj < ok /\ oj > i
    BY <1>7, <1>9, <1>13
  <2> HIDE DEF oj, ok
  <2>3. CASE s[ok] \in S \ {pr}
    <3>1. oj < ok /\ oj > i
      BY <2>1, <2>2, <2>3, <1>12
    <3>2. s[oj] # pr
      BY <3>1, <2>1, <1>1, <1>4, <1>pr
    <3>3. overtaken[<<s[ok], s[oj]>>] = 0
      BY <3>1, <2>1, <1>1, <1>2, ZenonT(30)
    <3> QED
      BY <3>2, <3>3, <2>1, <2>3, <1>10
  <2>4. CASE s[ok] \notin S \ {pr}
    BY <2>1, <2>4, <1>10
  <2> QED
    BY <2>3, <2>4
<1>14. ASSUME NEW p \in Principals, NEW q \in Principals
       PROVE  overtaken'[<<p, q>>] <= 1
  <2>1. CASE p \in S \ {pr}
    <3>1. p \in Range(s)
      BY <2>1, <1>3
    <3>2. PICK k \in 1 .. n : p = s[k]
      BY <3>1, <1>1 DEF Range
    <3>3. k > i
      BY <2>1, <3>2, <1>12
    <3>4. overtaken[<<p, pr>>] = 0
      BY <3>2, <3>3, <1>1, <1>2, <1>pr, ZenonT(30)
    <3>5. overtaken[<<p, q>>] <= 1
      BY <3>1, <1>2
    <3>6. overtaken'[<<p, q>>] = overtaken[<<p, q>>] + (IF q = pr THEN 1 ELSE 0)
      BY <2>1, <1>10
    <3>7. overtaken[<<p, q>>] \in Nat
      BY <1>2
    <3> QED
      BY <3>4, <3>5, <3>6, <3>7
  <2>2. CASE p \notin S \ {pr}
    BY <2>2, <1>10
  <2> QED
    BY <2>1, <2>2
<1>15. overtaken' \in [Principals \X Principals -> Nat]
  BY <1>2, <1>3
<1> QED
  BY <1>13, <1>14, <1>15

-----------------------------------------------------------------------------
(* The theorems. *)

\* The dispatcher starts with an empty queue.
LEMMA RotationInitInv ==
  RotationInit => QueueInv /\ TurnInv
<1> SUFFICES ASSUME RotationInit PROVE QueueInv /\ TurnInv
  OBVIOUS
<1>1. queue = [rotation |-> <<>>, fifos |-> [p \in Principals |-> <<>>]]
  BY DEF RotationInit, NewFq
<1>2. queue \in Queues(Waiting) /\ \A p \in Principals : queue.fifos[p] = <<>> /\ Once(queue.fifos[p])
  BY <1>1 DEF Queues, Once
<1>3. queue.rotation = <<>> /\ DOMAIN queue.rotation = {}
  BY <1>1
<1>4. Range(queue.rotation) = {} /\ \A p \in Principals : Range(queue.fifos[p]) = {}
  BY <1>2, <1>3 DEF Range
<1>5. RotationMatchesFifos(queue)
  BY <1>2, <1>3, <1>4 DEF RotationMatchesFifos, FqPrincipals
<1>6. IsFiniteSet(running) /\ running = {} /\ outside = Waiting
  BY FS_EmptySet DEF RotationInit
<1>7. \A p \in Principals : InFlight(p) = {} /\ Cardinality({}) = 0
  BY <1>6, FS_EmptySet DEF InFlight
<1>8. inflight \in [Principals -> Nat] /\ \A p \in Principals : inflight[p] = 0
  BY DEF RotationInit
<1>9. QueueInv
  BY <1>2, <1>4, <1>5, <1>6, <1>7, <1>8, ZenonT(30) DEF QueueInv, Mine
<1>10. TurnInv
  BY <1>3 DEF RotationInit, TurnInv, OvertakenOnce
<1> QED
  BY <1>9, <1>10

\* Every step keeps both invariants.
LEMMA RotationNextInv ==
  QueueInv /\ TurnInv /\ [RotationNext]_rvars => QueueInv' /\ TurnInv'
<1> SUFFICES ASSUME QueueInv, TurnInv, [RotationNext]_rvars PROVE QueueInv' /\ TurnInv'
  OBVIOUS
<1>1. ASSUME NEW t \in Waiting, Enqueue(t) PROVE QueueInv' /\ TurnInv'
  BY <1>1, EnqueueQueueInv, EnqueueTurnInv
<1>2. ASSUME NEW t \in Waiting, Finish(t) PROVE QueueInv' /\ TurnInv'
  <2>1. QueueInv'
    BY <1>2, FinishQueueInv
  <2>2. queue' = queue /\ overtaken' = overtaken
    BY <1>2 DEF Finish
  <2> QED
    BY <2>1, <2>2 DEF TurnInv, OvertakenOnce
<1>3. ASSUME NEW blocked \in SUBSET Metered, Dispatch(blocked) PROVE QueueInv' /\ TurnInv'
  <2>1. PICK i \in 1 .. Len(queue.rotation) : DispatchAt(i, Blocking(blocked))
    BY <1>3, DispatchServes
  <2> QED
    BY <2>1, DispatchQueueInv, DispatchTurnInv
<1>4. CASE UNCHANGED rvars
  BY <1>4 DEF rvars, QueueInv, TurnInv, OvertakenOnce, Mine, InFlight
<1> QED
  BY <1>1, <1>2, <1>3, <1>4 DEF RotationNext

\* Tasks counted by their FIFO's length.
LEMMA QueueInvConsistent ==
  QueueInv => QueueConsistent
<1> SUFFICES ASSUME QueueInv PROVE QueueConsistent
  OBVIOUS
<1>1. ASSUME NEW p \in Principals
      PROVE  Len(queue.fifos[p]) = Cardinality(Range(queue.fifos[p]))
  <2>1. queue.fifos[p] \in Seq(Waiting) /\ Once(queue.fifos[p])
    BY DEF QueueInv, Queues
  <2> QED
    BY <2>1, OnceCounts
<1> QED
  BY <1>1 DEF QueueInv, QueueConsistent, Mine, InFlight

\* fq_enqueue, fq_take and finish_worker keep the fair queue consistent, for every
\* number of principals and tasks, cap, share and quota.
THEOREM QueueSafe == RotationSpec => []QueueConsistent
<1>1. RotationInit => QueueInv /\ TurnInv
  BY RotationInitInv
<1>2. QueueInv /\ TurnInv /\ [RotationNext]_rvars => (QueueInv /\ TurnInv)'
  BY RotationNextInv
<1>3. QueueInv => QueueConsistent
  BY QueueInvConsistent
<1> QED
  BY <1>1, <1>2, <1>3, PTL DEF RotationSpec

\* Round-robin, for the same: fq_take never lets one principal be served twice while
\* another that could have been served waits its turn.
THEOREM RoundRobin == RotationSpec => []OvertakenOnce
<1>1. RotationInit => QueueInv /\ TurnInv
  BY RotationInitInv
<1>2. QueueInv /\ TurnInv /\ [RotationNext]_rvars => (QueueInv /\ TurnInv)'
  BY RotationNextInv
<1>3. TurnInv => OvertakenOnce
  BY DEF TurnInv
<1> QED
  BY <1>1, <1>2, <1>3, PTL DEF RotationSpec
=============================================================================
