---------------------------- MODULE PositionLemmas ----------------------------
(***************************************************************************)
(* Facts about positions and sequences that the proofs share.              *)
(***************************************************************************)
EXTENDS Naturals, Sequences, FiniteSetTheorems, SequenceTheorems, WellFoundedInduction, TLAPS

\* Of some positions up to a bound one is the greatest.
LEMMA GreatestExists ==
  ASSUME NEW n \in Nat, NEW ps, \A q \in ps : q \in 0 .. n, ps # {}
  PROVE  \E p \in ps : \A q \in ps : q <= p
<1> DEFINE Later(q) == q .. n
           T == {Later(q) : q \in ps}
<1>1. T \subseteq FiniteSubsetsOf(0 .. n) /\ T # {}
  <2>1. ASSUME NEW q \in ps PROVE Later(q) \in FiniteSubsetsOf(0 .. n)
    <3>1. q \in Int /\ n \in Int /\ 0 <= q
      OBVIOUS
    <3>2. IsFiniteSet(q .. n) /\ q .. n \subseteq 0 .. n
      BY <3>1, FS_Interval
    <3>3. QED
      BY <3>2 DEF FiniteSubsetsOf
  <2>2. QED
    BY <2>1
<1>2. IsWellFoundedOn(StrictSubsetOrdering(0 .. n), FiniteSubsetsOf(0 .. n))
  BY FS_StrictSubsetOrderingWellFounded
<1>3. PICK x \in T : \A y \in T : <<y, x>> \notin StrictSubsetOrdering(0 .. n)
  <2> HIDE DEF T
  <2>1. QED
    BY <1>1, <1>2, WFMin
<1>4. PICK p \in ps : x = Later(p)
  OBVIOUS
<1>5. ASSUME NEW q \in ps, p < q PROVE FALSE
  <2>1. /\ Later(q) \in T
        /\ Later(q) \subseteq Later(p)
        /\ Later(p) \subseteq 0 .. n
        /\ p \in Later(p) /\ p \notin Later(q)
    BY <1>5
  <2>2. <<Later(q), x>> \in StrictSubsetOrdering(0 .. n)
    BY <1>4, <2>1 DEF StrictSubsetOrdering
  <2>3. QED
    BY <1>3, <2>1, <2>2
<1>6. QED
  BY <1>5

\* ... and one is the least.
LEMMA LeastExists ==
  ASSUME NEW n \in Nat, NEW ps, \A q \in ps : q \in 0 .. n, ps # {}
  PROVE  \E p \in ps : \A q \in ps : p <= q
<1> DEFINE FromTop == {n - q : q \in ps}
<1>1. (\A r \in FromTop : r \in 0 .. n) /\ FromTop # {}
  OBVIOUS
<1>2. PICK top \in FromTop : \A r \in FromTop : r <= top
  <2> HIDE DEF FromTop
  <2>1. QED
    BY <1>1, GreatestExists
<1>3. PICK p \in ps : top = n - p
  OBVIOUS
<1>4. ASSUME NEW q \in ps PROVE p <= q
  <2>1. n - q \in FromTop
    OBVIOUS
  <2>2. n - q <= n - p
    BY <1>2, <1>3, <2>1
  <2>3. QED
    BY <2>2
<1>5. QED
  BY <1>4

\* What holds of zero and is carried on holds up to the bound.
LEMMA UpToBound ==
  ASSUME NEW n \in Nat, NEW Good, 0 \in Good,
         \A k \in 0 .. n - 1 : k \in Good => k + 1 \in Good
  PROVE  \A k \in 0 .. n : k \in Good
<1> DEFINE Bad == {k \in 0 .. n : k \notin Good}
<1>1. SUFFICES ASSUME Bad # {} PROVE FALSE
  OBVIOUS
<1>2. PICK p \in Bad : \A q \in Bad : p <= q
  <2>1. \A q \in Bad : q \in 0 .. n
    OBVIOUS
  <2> HIDE DEF Bad
  <2>2. QED
    BY <1>1, <2>1, LeastExists
<1>3. p - 1 \in 0 .. n - 1 /\ p - 1 \notin Bad /\ p = (p - 1) + 1
  <2>1. p # 0 /\ p \in 0 .. n
    OBVIOUS
  <2>2. p - 1 \notin Bad
    BY <1>2, <2>1
  <2>3. QED
    BY <2>1, <2>2
<1>4. QED
  BY <1>3

\* A function on positions can be given step by step: at zero, and at each
\* position from the one before.
GoesBySteps(g, n, base, step) == g[0] = base /\ \A k \in 1 .. n : g[k] = step[k][g[k - 1]]

LEMMA StepByStep ==
  ASSUME NEW n \in Nat, NEW T, NEW base \in T, NEW step \in [1 .. n -> [T -> T]]
  PROVE  \E g \in [0 .. n -> T] : GoesBySteps(g, n, base, step)
<1> DEFINE Good == {m \in 0 .. n : \E g \in [0 .. m -> T] : GoesBySteps(g, m, base, step)}
<1>1. 0 \in Good
  <2>1. PICK g : g = [k \in 0 .. 0 |-> base]
    OBVIOUS
  <2>2. g \in [0 .. 0 -> T] /\ GoesBySteps(g, 0, base, step)
    BY <2>1 DEF GoesBySteps
  <2>3. 0 \in 0 .. n
    OBVIOUS
  <2>4. QED
    BY <2>2, <2>3
<1>2. ASSUME NEW m \in 0 .. n - 1, m \in Good PROVE m + 1 \in Good
  <2>1. PICK g \in [0 .. m -> T] : GoesBySteps(g, m, base, step)
    BY <1>2
  <2>2. step[m + 1] \in [T -> T] /\ g[m] \in T
    OBVIOUS
  <2> DEFINE h == [k \in 0 .. m + 1 |-> IF k = m + 1 THEN step[m + 1][g[m]] ELSE g[k]]
  <2>3. h \in [0 .. m + 1 -> T]
    BY <2>2
  <2>4. h[0] = base
    BY <2>1 DEF GoesBySteps
  <2>5. ASSUME NEW k \in 1 .. m + 1 PROVE h[k] = step[k][h[k - 1]]
    <3>1. CASE k = m + 1
      BY <3>1
    <3>2. CASE k # m + 1
      <4>1. k \in 1 .. m /\ k - 1 \in 0 .. m /\ k - 1 # m + 1
        BY <3>2
      <4>2. h[k] = g[k] /\ h[k - 1] = g[k - 1]
        BY <4>1
      <4>3. QED
        BY <2>1, <4>1, <4>2 DEF GoesBySteps
    <3>3. QED
      BY <3>1, <3>2
  <2>6. GoesBySteps(h, m + 1, base, step)
    BY <2>4, <2>5 DEF GoesBySteps
  <2>7. m + 1 \in 0 .. n
    OBVIOUS
  <2>8. QED
    BY <2>3, <2>6, <2>7
<1>3. n \in Good
  <2> HIDE DEF Good
  <2>1. \A k \in 0 .. n : k \in Good
    BY <1>1, <1>2, UpToBound
  <2>2. QED
    BY <2>1
<1>4. QED
  BY <1>3

\* The elements of a sequence after an append.
LEMMA AfterAppend ==
  ASSUME NEW S, NEW s \in Seq(S), NEW e \in S
  PROVE  /\ Append(s, e) \in Seq(S)
         /\ DOMAIN s = 1 .. Len(s) /\ Len(s) \in Nat
         /\ DOMAIN Append(s, e) = 1 .. Len(s) + 1
         /\ \A k \in DOMAIN s : Append(s, e)[k] = s[k]
         /\ Append(s, e)[Len(s) + 1] = e
OBVIOUS

\* The elements of a sequence after its head was taken.
LEMMA AfterTail ==
  ASSUME NEW S, NEW s \in Seq(S), s # <<>>
  PROVE  /\ Tail(s) \in Seq(S)
         /\ Head(s) \in S /\ Head(s) = s[1]
         /\ DOMAIN s = 1 .. Len(s) /\ Len(s) \in Nat \ {0}
         /\ Len(Tail(s)) = Len(s) - 1
         /\ DOMAIN Tail(s) = 1 .. Len(s) - 1
         /\ \A k \in DOMAIN Tail(s) : Tail(s)[k] = s[k + 1]
OBVIOUS

\* The rank of a position among some, ...
RankIn(ps, p) == Cardinality({k \in ps : k <= p})

\* ... which tells them apart ...
LEMMA RankTells ==
  ASSUME NEW n \in Nat, NEW ps \in SUBSET (1 .. n), NEW a \in ps, NEW b \in ps, a # b
  PROVE  RankIn(ps, a) # RankIn(ps, b)
<1>1. ASSUME NEW c \in ps, NEW d \in ps, c < d
      PROVE  Cardinality({k \in ps : k <= c}) # Cardinality({k \in ps : k <= d})
  <2> DEFINE L == {k \in ps : k <= c}
             U == {k \in ps : k <= d}
  <2>1. IsFiniteSet(U)
    <3>1. IsFiniteSet(1 .. n)
      BY FS_Interval
    <3>2. U \in SUBSET (1 .. n)
      OBVIOUS
    <3>3. QED
      BY <3>1, <3>2, FS_Subset
  <2>2. L \in SUBSET U
    <3>1. \A k \in ps : k \in Nat
      OBVIOUS
    <3>2. c \in Nat /\ d \in Nat
      BY <3>1
    <3>3. ASSUME NEW k \in ps, k <= c PROVE k <= d
      BY <1>1, <3>1, <3>2, <3>3
    <3>4. QED
      BY <3>3
  <2>3. d \in U /\ d \notin L
    BY <1>1
  <2> HIDE DEF L, U
  <2>4. Cardinality(U) # Cardinality(L)
    BY <2>1, <2>2, <2>3, FS_Subset
  <2>5. QED
    BY <2>4 DEF L, U
<1>2. a \in 1 .. n /\ b \in 1 .. n
  OBVIOUS
<1>3. CASE a < b
  BY <1>1, <1>3 DEF RankIn
<1>4. CASE b < a
  BY <1>1, <1>4 DEF RankIn
<1>5. QED
  BY <1>2, <1>3, <1>4

\* ... and counts up from one.
LEMMA RankCounts ==
  ASSUME NEW n \in Nat, NEW ps \in SUBSET (1 .. n), NEW b \in ps
  PROVE  /\ RankIn(ps, b) \in 1 .. Cardinality(ps)
         /\ Cardinality(ps) \in Nat
         /\ (\A k \in ps : b <= k) => RankIn(ps, b) = 1
<1> DEFINE U == {k \in ps : k <= b}
<1>n. \A k \in ps : k \in Nat
  OBVIOUS
<1>1. IsFiniteSet(ps)
  <2>1. IsFiniteSet(1 .. n)
    BY FS_Interval
  <2>2. QED
    BY <2>1, FS_Subset
<1>2. U \in SUBSET ps /\ b \in U
  OBVIOUS
<1>3. IsFiniteSet(U) /\ Cardinality(U) <= Cardinality(ps) /\ Cardinality(U) # 0
      /\ Cardinality(U) \in Nat /\ Cardinality(ps) \in Nat
  <2> HIDE DEF U
  <2>1. IsFiniteSet(U) /\ Cardinality(U) <= Cardinality(ps)
    BY <1>1, <1>2, FS_Subset
  <2>2. Cardinality(U) # 0
    BY <1>2, <2>1, FS_EmptySet
  <2>3. QED
    BY <1>1, <2>1, <2>2, FS_CardinalityType
<1>4. ASSUME \A k \in ps : b <= k PROVE Cardinality(U) = 1
  <2>1. U = {b}
    <3>1. \A k \in ps : k <= b <=> k = b
      BY <1>4, <1>n
    <3>2. QED
      BY <3>1
  <2>2. Cardinality({b}) = 1
    BY FS_Singleton
  <2>3. QED
    BY <2>1, <2>2
<1>5. QED
  <2>1. RankIn(ps, b) = Cardinality(U)
    BY DEF RankIn
  <2> HIDE DEF U
  <2>2. QED
    BY <1>3, <1>4, <2>1

LEMMA RankSucceeds ==
  ASSUME NEW n \in Nat, NEW ps \in SUBSET (1 .. n), NEW a \in ps, NEW b \in ps,
         a < b, \A k \in ps : k <= a \/ b <= k
  PROVE  RankIn(ps, b) = RankIn(ps, a) + 1
<1> DEFINE L == {k \in ps : k <= a}
           U == {k \in ps : k <= b}
<1>1. \A k \in ps : k \in Nat
  OBVIOUS
<1>2. L \in SUBSET ps /\ b \notin L
  BY <1>1
<1>3. U = L \cup {b}
  <2>1. \A k \in ps : k <= b <=> k <= a \/ k = b
    BY <1>1
  <2>2. QED
    BY <2>1
<1>4. IsFiniteSet(L)
  <2>1. IsFiniteSet(1 .. n)
    BY FS_Interval
  <2>2. L \in SUBSET (1 .. n)
    OBVIOUS
  <2> HIDE DEF L
  <2>3. QED
    BY <2>1, <2>2, FS_Subset
<1> HIDE DEF L, U
<1>5. Cardinality(L \cup {b}) = Cardinality(L) + 1
  BY <1>2, <1>4, FS_AddElement
<1>6. QED
  BY <1>3, <1>5 DEF L, U, RankIn

\* Short stretches of a sequence.
LEMMA StretchOfOne ==
  ASSUME NEW S, NEW s \in Seq(S), NEW m \in 1 .. Len(s)
  PROVE  SubSeq(s, m, m) = <<s[m]>>
<1>1. m \in Int /\ \A i \in m .. m : s[i] \in S
  OBVIOUS
<1>2. PICK t : t = SubSeq(s, m, m)
  OBVIOUS
<1>3. /\ t \in Seq(S) /\ Len(t) = (IF m <= m THEN m - m + 1 ELSE 0)
      /\ \A i \in 1 .. m - m + 1 : t[i] = s[m + i - 1]
  BY <1>1, <1>2, SubSeqProperties
<1>4. t \in Seq(S) /\ Len(t) = 1 /\ t[1] = s[m]
  BY <1>1, <1>3
<1>5. /\ <<s[m]>> \in Seq(S) /\ Len(<<s[m]>>) = 1
      /\ \A i \in 1 .. 1 : t[i] = <<s[m]>>[i]
  BY <1>1, <1>4
<1>6. QED
  BY <1>2, <1>4, <1>5, SeqEqual

LEMMA StretchOfTwo ==
  ASSUME NEW S, NEW s \in Seq(S), NEW m \in 1 .. Len(s), m + 1 \in 1 .. Len(s)
  PROVE  SubSeq(s, m, m + 1) = <<s[m], s[m + 1]>>
<1>1. m \in Int /\ m + 1 \in Int /\ \A i \in m .. m + 1 : s[i] \in S
  OBVIOUS
<1>2. PICK t : t = SubSeq(s, m, m + 1)
  OBVIOUS
<1>3. /\ t \in Seq(S) /\ Len(t) = (IF m <= m + 1 THEN (m + 1) - m + 1 ELSE 0)
      /\ \A i \in 1 .. (m + 1) - m + 1 : t[i] = s[m + i - 1]
  BY <1>1, <1>2, SubSeqProperties
<1>4. t \in Seq(S) /\ Len(t) = 2 /\ t[1] = s[m] /\ t[2] = s[m + 1]
  <2>1. m + 2 - 1 = m + 1 /\ m + 1 - 1 = m /\ (m + 1) - m + 1 = 2
    BY <1>1
  <2>2. QED
    BY <1>1, <1>3, <2>1
<1>5. /\ <<s[m], s[m + 1]>> \in Seq(S) /\ Len(<<s[m], s[m + 1]>>) = 2
      /\ \A i \in 1 .. 2 : t[i] = <<s[m], s[m + 1]>>[i]
  BY <1>1, <1>4
<1>6. QED
  BY <1>2, <1>4, <1>5, SeqEqual

\* A sequence, of whatever elements.
Listing(s) == s \in Seq({s[n] : n \in DOMAIN s})

LEMMA TailLists ==
  ASSUME NEW s, Listing(s), s # <<>>
  PROVE  /\ Listing(Tail(s)) /\ 1 \in DOMAIN s /\ Head(s) = s[1]
         /\ \A n \in DOMAIN s : n # 1 => n - 1 \in DOMAIN Tail(s) /\ Tail(s)[n - 1] = s[n]
<1> DEFINE S == {s[n] : n \in DOMAIN s}
<1>1. s \in Seq(S)
  BY DEF Listing
<1> HIDE DEF S
<1>2. /\ Tail(s) \in Seq(S) /\ Head(s) = s[1]
      /\ DOMAIN s = 1 .. Len(s) /\ Len(s) \in Nat \ {0}
      /\ Len(Tail(s)) = Len(s) - 1
      /\ DOMAIN Tail(s) = 1 .. Len(s) - 1
      /\ \A k \in DOMAIN Tail(s) : Tail(s)[k] = s[k + 1]
  BY <1>1, AfterTail
<1>3. PICK t : t = Tail(s)
  OBVIOUS
<1>4. t \in Seq({t[n] : n \in DOMAIN t})
  <2>1. t \in Seq(S)
    BY <1>2, <1>3
  <2>2. Len(t) \in Nat /\ t = [n \in 1 .. Len(t) |-> t[n]] /\ DOMAIN t = 1 .. Len(t)
    BY <2>1
  <2>3. QED
    BY <2>2
<1>5. ASSUME NEW n \in DOMAIN s, n # 1
      PROVE  n - 1 \in DOMAIN Tail(s) /\ Tail(s)[n - 1] = s[n]
  BY <1>2, <1>5
<1>6. Listing(Tail(s))
  BY <1>3, <1>4 DEF Listing
<1>7. 1 \in DOMAIN s /\ Head(s) = s[1]
  BY <1>2
<1>8. QED
  BY <1>5, <1>6, <1>7

\* A product grows with its factor.
LEMMA ProductGrows ==
  ASSUME NEW k \in Nat, NEW a \in Nat, NEW b \in Nat, a <= b
  PROVE  a * k <= b * k
<1>1. PICK d \in Nat : b = a + d
  <2>1. b - a \in Nat /\ b = a + (b - a)
    OBVIOUS
  <2>2. QED
    BY <2>1
<1>2. b * k = a * k + d * k
  BY <1>1
<1>3. a * k \in Nat /\ d * k \in Nat
  OBVIOUS
<1>4. QED
  BY <1>2, <1>3

\* Division with remainder, ...
LEMMA Division ==
  ASSUME NEW a \in Nat, NEW k \in Nat \ {0}
  PROVE  a \div k \in Nat /\ a % k \in 0 .. k - 1 /\ a = (a \div k) * k + (a % k)
OBVIOUS

\* ... of which there is one.
LEMMA DivisionIsUnique ==
  ASSUME NEW k \in Nat \ {0}, NEW q \in Nat, NEW r \in 0 .. k - 1
  PROVE  (q * k + r) \div k = q /\ (q * k + r) % k = r
<1>1. PICK a \in Nat : a = q * k + r
  <2>1. q * k \in Nat /\ r \in Nat
    OBVIOUS
  <2>2. QED
    BY <2>1
<1>2. PICK p \in Nat, s \in Nat : p = a \div k /\ s = a % k
  <2>1. a \div k \in Nat /\ a % k \in Nat
    BY Division
  <2>2. QED
    BY <2>1
<1>3. a = p * k + s /\ s < k
  BY <1>1, <1>2, Division
<1>4. p * k \in Nat /\ q * k \in Nat
  OBVIOUS
<1>5. CASE p < q
  <2>1. (p + 1) * k <= q * k
    BY <1>5, ProductGrows
  <2>2. (p + 1) * k = p * k + k
    OBVIOUS
  <2>3. QED
    BY <1>1, <1>3, <1>4, <2>1, <2>2
<1>6. CASE q < p
  <2>1. (q + 1) * k <= p * k
    BY <1>6, ProductGrows
  <2>2. (q + 1) * k = q * k + k
    OBVIOUS
  <2>3. QED
    BY <1>1, <1>3, <1>4, <2>1, <2>2
<1>7. CASE p = q
  BY <1>1, <1>2, <1>3, <1>4, <1>7
<1>8. QED
  BY <1>5, <1>6, <1>7

\* The front of a sequence grows by its next element.
LEMMA FrontGrows ==
  ASSUME NEW S, NEW s \in Seq(S), NEW k \in 0 .. Len(s), k + 1 \in 1 .. Len(s)
  PROVE  SubSeq(s, 1, k + 1) = Append(SubSeq(s, 1, k), s[k + 1])
<1>1. PICK t, u : t = SubSeq(s, 1, k) /\ u = SubSeq(s, 1, k + 1)
  OBVIOUS
<1>2. 1 \in Int /\ k \in Int /\ k + 1 \in Int /\ \A i \in 1 .. k + 1 : s[i] \in S
  OBVIOUS
<1>3. /\ t \in Seq(S) /\ Len(t) = (IF 1 <= k THEN k - 1 + 1 ELSE 0)
      /\ \A i \in 1 .. k - 1 + 1 : t[i] = s[1 + i - 1]
  <2>1. \A i \in 1 .. k : s[i] \in S
    BY <1>2
  <2>2. QED
    BY <1>1, <1>2, <2>1, SubSeqProperties
<1>4. /\ u \in Seq(S) /\ Len(u) = (IF 1 <= k + 1 THEN (k + 1) - 1 + 1 ELSE 0)
      /\ \A i \in 1 .. (k + 1) - 1 + 1 : u[i] = s[1 + i - 1]
  BY <1>1, <1>2, SubSeqProperties
<1>5. /\ Len(t) = k /\ Len(u) = k + 1
      /\ (\A i \in 1 .. k : t[i] = s[i]) /\ (\A i \in 1 .. k + 1 : u[i] = s[i])
  <2>1. k - 1 + 1 = k /\ (k + 1) - 1 + 1 = k + 1 /\ \A i \in 1 .. k + 1 : 1 + i - 1 = i
    BY <1>2
  <2>2. QED
    BY <1>2, <1>3, <1>4, <2>1
<1>6. PICK v : v = Append(t, s[k + 1])
  OBVIOUS
<1>7. /\ v \in Seq(S) /\ Len(v) = k + 1 /\ v[k + 1] = s[k + 1]
      /\ \A i \in 1 .. k : v[i] = t[i]
  BY <1>2, <1>3, <1>5, <1>6, AfterAppend
<1>8. \A i \in 1 .. k + 1 : u[i] = v[i]
  BY <1>5, <1>7
<1>9. u = v
  BY <1>4, <1>5, <1>7, <1>8, SeqEqual
<1>10. QED
  BY <1>1, <1>6, <1>9

LEMMA WholeFront ==
  ASSUME NEW S, NEW s \in Seq(S)
  PROVE  SubSeq(s, 1, Len(s)) = s
<1>1. PICK t : t = SubSeq(s, 1, Len(s))
  OBVIOUS
<1>2. 1 \in Int /\ Len(s) \in Nat /\ \A i \in 1 .. Len(s) : s[i] \in S
  OBVIOUS
<1>3. /\ t \in Seq(S) /\ Len(t) = (IF 1 <= Len(s) THEN Len(s) - 1 + 1 ELSE 0)
      /\ \A i \in 1 .. Len(s) - 1 + 1 : t[i] = s[1 + i - 1]
  BY <1>1, <1>2, SubSeqProperties
<1>4. Len(t) = Len(s) /\ \A i \in 1 .. Len(s) : t[i] = s[i]
  <2>1. Len(s) - 1 + 1 = Len(s) /\ \A i \in 1 .. Len(s) : 1 + i - 1 = i
    BY <1>2
  <2>2. QED
    BY <1>2, <1>3, <2>1
<1>5. QED
  BY <1>1, <1>3, <1>4, SeqEqual

LEMMA ConcatAppend ==
  ASSUME NEW S, NEW s \in Seq(S), NEW t \in Seq(S), NEW e \in S
  PROVE  s \o Append(t, e) = Append(s \o t, e)
<1>1. PICK u, v : u = s \o Append(t, e) /\ v = Append(s \o t, e)
  OBVIOUS
<1>2. PICK w : w = Append(t, e)
  OBVIOUS
<1>3. w \in Seq(S) /\ Len(w) = Len(t) + 1 /\ w[Len(t) + 1] = e /\ \A i \in 1 .. Len(t) : w[i] = t[i]
  BY <1>2, AfterAppend
<1>4. Len(s) \in Nat /\ Len(t) \in Nat
  OBVIOUS
<1>5. /\ u \in Seq(S) /\ Len(u) = Len(s) + Len(w)
      /\ \A i \in 1 .. Len(s) + Len(w) : u[i] = IF i <= Len(s) THEN s[i] ELSE w[i - Len(s)]
  BY <1>1, <1>2, <1>3, ConcatProperties
<1>6. PICK x : x = s \o t
  OBVIOUS
<1>7. /\ x \in Seq(S) /\ Len(x) = Len(s) + Len(t)
      /\ \A i \in 1 .. Len(s) + Len(t) : x[i] = IF i <= Len(s) THEN s[i] ELSE t[i - Len(s)]
  BY <1>6, ConcatProperties
<1>8. v \in Seq(S) /\ Len(v) = Len(x) + 1 /\ v[Len(x) + 1] = e /\ \A i \in 1 .. Len(x) : v[i] = x[i]
  BY <1>1, <1>6, <1>7, AfterAppend
<1>9. ASSUME NEW i \in 1 .. Len(u) PROVE u[i] = v[i]
  <2>1. i \in 1 .. Len(s) + Len(t) + 1 /\ Len(u) = Len(s) + Len(t) + 1
    BY <1>3, <1>4, <1>5
  <2>2. CASE i = Len(s) + Len(t) + 1
    <3>1. ~(i <= Len(s)) /\ i - Len(s) = Len(t) + 1 /\ i = Len(x) + 1
      BY <1>4, <1>7, <2>2
    <3>2. QED
      BY <1>3, <1>5, <1>8, <3>1
  <2>3. CASE i # Len(s) + Len(t) + 1
    <3>1. i \in 1 .. Len(s) + Len(t) /\ (~(i <= Len(s)) => i - Len(s) \in 1 .. Len(t))
      BY <1>4, <2>1, <2>3
    <3>2. QED
      BY <1>3, <1>5, <1>7, <1>8, <3>1
  <2>4. QED
    BY <2>2, <2>3
<1>10. Len(u) = Len(v)
  BY <1>3, <1>4, <1>5, <1>7, <1>8
<1>11. QED
  BY <1>1, <1>5, <1>8, <1>9, <1>10, SeqEqual


LEMMA Regroup ==
  ASSUME NEW S
  PROVE  \A a, b, c \in Seq(S) : (a \o b) \o c = a \o (b \o c)
OBVIOUS

\* In a finite set of numbers each rank is one element's.
LEMMA RankIsTaken ==
  ASSUME NEW S \in SUBSET Nat, IsFiniteSet(S), NEW k \in 1 .. Cardinality(S)
  PROVE  \E i \in S : Cardinality({j \in S : j <= i}) = k
<1> DEFINE UpTo(i) == {j \in S : j <= i}
<1>1. PICK n \in Nat : n = Cardinality(S)
  BY FS_CardinalityType
<1>2. ASSUME NEW i \in S
      PROVE  /\ IsFiniteSet(UpTo(i)) /\ Cardinality(UpTo(i)) \in 1 .. n
  <2>1. PICK T : T = UpTo(i)
    OBVIOUS
  <2>2. T \in SUBSET S /\ T # {}
    BY <2>1
  <2>3. IsFiniteSet(T) /\ Cardinality(T) \in Nat /\ Cardinality(T) <= n
    BY <1>1, <2>2, FS_Subset, FS_CardinalityType
  <2>4. Cardinality(T) # 0
    BY <2>2, <2>3, FS_EmptySet
  <2>5. QED
    BY <2>1, <2>3, <2>4
<1>3. ASSUME NEW i \in S, NEW m \in S, i < m
      PROVE  Cardinality(UpTo(i)) # Cardinality(UpTo(m))
  <2>1. PICK T, U : T = UpTo(i) /\ U = UpTo(m)
    OBVIOUS
  <2>2. /\ IsFiniteSet(T) /\ IsFiniteSet(U) /\ Cardinality(T) \in Nat /\ Cardinality(U) \in Nat
    <3>1. Cardinality(UpTo(i)) \in 1 .. n /\ Cardinality(UpTo(m)) \in 1 .. n
          /\ IsFiniteSet(UpTo(i)) /\ IsFiniteSet(UpTo(m))
      BY <1>2
    <3>2. QED
      BY <2>1, <3>1
  <2>3. T \in SUBSET (U \ {m}) /\ m \in U
    <3>1. i \in Nat /\ m \in Nat /\ \A j \in S : j \in Nat
      OBVIOUS
    <3>2. \A j \in S : j <= i => j <= m /\ j # m
      BY <1>3, <3>1
    <3>3. m <= m
      BY <3>1
    <3>4. QED
      BY <2>1, <3>2, <3>3
  <2>4. IsFiniteSet(U \ {m}) /\ Cardinality(U \ {m}) = Cardinality(U) - 1
    BY <2>2, <2>3, FS_RemoveElement
  <2>5. Cardinality(T) <= Cardinality(U \ {m})
    BY <2>3, <2>4, FS_Subset
  <2>6. QED
    BY <2>1, <2>2, <2>4, <2>5
<1>4. SUFFICES ASSUME \A i \in S : Cardinality(UpTo(i)) # k PROVE FALSE
  OBVIOUS
<1>5. PICK T : T = (1 .. n) \ {k}
  OBVIOUS
<1>6. IsFiniteSet(T) /\ Cardinality(T) < Cardinality(S)
  <2>1. IsFiniteSet(1 .. n) /\ Cardinality(1 .. n) = n
    <3>1. 1 \in Int /\ n \in Int
      OBVIOUS
    <3>2. IsFiniteSet(1 .. n) /\ Cardinality(1 .. n) = IF 1 > n THEN 0 ELSE n - 1 + 1
      BY <3>1, FS_Interval
    <3>3. QED
      BY <1>1, <3>2
  <2>2. IsFiniteSet(T) /\ Cardinality(T) = n - 1
    BY <1>1, <1>5, <2>1, FS_RemoveElement
  <2>3. QED
    BY <1>1, <2>2
<1>7. PICK rank \in [S -> T] : \A i \in S : rank[i] = Cardinality(UpTo(i))
  <2>1. \A i \in S : Cardinality(UpTo(i)) \in T
    BY <1>2, <1>4, <1>5
  <2> DEFINE r == [i \in S |-> Cardinality(UpTo(i))]
  <2>2. r \in [S -> T] /\ \A i \in S : r[i] = Cardinality(UpTo(i))
    <3> HIDE DEF UpTo
    <3>1. QED
      BY <2>1
  <2> HIDE DEF r
  <2>3. QED
    BY <2>2
<1>8. PICK i \in S, m \in S : i # m /\ rank[i] = rank[m]
  BY <1>6, FS_PigeonHole
<1>9. Cardinality(UpTo(i)) = Cardinality(UpTo(m))
  BY <1>7, <1>8
<1>10. i < m \/ m < i
  BY <1>8
<1>11. QED
  BY <1>3, <1>9, <1>10

=============================================================================
