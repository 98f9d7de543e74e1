------------------------------ MODULE ListLemmas ------------------------------
(***************************************************************************)
(* Facts that the library's theorems do not state.  About lists: what the  *)
(* erase of one element (g_clients.erase) leaves behind, what an element   *)
(* added at the end, or taken from the front, does to the rest, and what a *)
(* concatenation holds.  About numbers: induction over a set of them,      *)
(* functions defined by recursion, quotients and remainders.               *)
(***************************************************************************)
EXTENDS SequencesExt, SequenceTheorems, WellFoundedInduction, TLAPS

\* A set of numbers that is not empty has a least one.
LEMMA MinInSet ==
  ASSUME NEW I \in SUBSET Nat, I # {}
  PROVE  Min(I) \in I
<1> DEFINE R == OpToRel(<, Nat)
<1>1. PICK m \in I : \A k \in I : <<k, m>> \notin R
  BY WFMin, NatLessThanWellFounded
<1>2. ASSUME NEW k \in I PROVE m <= k
  <2>1. k < m => <<k, m>> \in R
    BY DEF OpToRel
  <2>2. ~ (k < m)
    BY <1>1, <2>1
  <2> QED
    BY <2>2
<1> QED
  BY <1>2 DEF Min

\* Erasing element k leaves the ones before it where they are and moves the others up.
LEMMA RemoveAtSpec ==
  ASSUME NEW S, NEW s \in Seq(S), NEW k \in 1..Len(s)
  PROVE  /\ RemoveAt(s, k) \in Seq(S)
         /\ Len(RemoveAt(s, k)) = Len(s) - 1
         /\ \A i \in 1..(Len(s) - 1) :
              RemoveAt(s, k)[i] = IF i < k THEN s[i] ELSE s[i + 1]
<1> DEFINE a == SubSeq(s, 1, k - 1)
           b == SubSeq(s, k + 1, Len(s))
<1>0. Len(s) \in Nat /\ \A i \in 1..Len(s) : s[i] \in S
  BY LenProperties
<1>1. /\ a \in Seq(S) /\ Len(a) = k - 1
      /\ \A i \in 1..(k - 1) : a[i] = s[i]
  <2>1. \A i \in 1..(k - 1) : s[i] \in S
    BY <1>0
  <2> QED
    BY <1>0, <2>1, SubSeqProperties, SMTT(20)
<1>2. /\ b \in Seq(S) /\ Len(b) = Len(s) - k
      /\ \A i \in 1..(Len(s) - k) : b[i] = s[k + i]
  <2>1. \A i \in (k + 1)..Len(s) : s[i] \in S
    BY <1>0
  <2> QED
    BY <1>0, <2>1, SubSeqProperties, SMTT(20)
<1>3. /\ a \o b \in Seq(S)
      /\ Len(a \o b) = Len(a) + Len(b)
      /\ \A i \in 1..(Len(a) + Len(b)) :
           (a \o b)[i] = IF i <= Len(a) THEN a[i] ELSE b[i - Len(a)]
  <2> HIDE DEF a, b
  <2> QED
    BY <1>1, <1>2, ConcatProperties
<1>4. RemoveAt(s, k) = a \o b
  BY DEF RemoveAt
<1> HIDE DEF a, b
<1>5. Len(a) + Len(b) = Len(s) - 1
  BY <1>0, <1>1, <1>2
<1>6. ASSUME NEW i \in 1..(Len(s) - 1)
      PROVE  (a \o b)[i] = IF i < k THEN s[i] ELSE s[i + 1]
  <2>1. CASE i < k
    BY <1>0, <1>1, <1>3, <1>5, <2>1
  <2>2. CASE ~ (i < k)
    <3>1. i - Len(a) \in 1..(Len(s) - k) /\ ~ (i <= Len(a)) /\ k + (i - Len(a)) = i + 1
      BY <1>0, <1>1, <2>2
    <3> QED
      BY <1>2, <1>3, <1>5, <2>2, <3>1
  <2> QED
    BY <2>1, <2>2
<1> QED
  BY <1>3, <1>4, <1>5, <1>6

\* What Tail leaves was there before, one place further on.
LEMMA TailElements ==
  ASSUME NEW S, NEW s \in Seq(S), s # <<>>
  PROVE  /\ Tail(s) \in Seq(S) /\ Len(Tail(s)) = Len(s) - 1
         /\ \A k \in DOMAIN Tail(s) : k + 1 \in DOMAIN s /\ Tail(s)[k] = s[k + 1]
         /\ 1 \in DOMAIN s /\ Head(s) = s[1]
<1>1. /\ Tail(s) \in Seq(S) /\ Len(Tail(s)) = Len(s) - 1
      /\ \A i \in 1..Len(Tail(s)) : Tail(s)[i] = s[i + 1]
      /\ Head(s) = s[1]
  BY HeadTailProperties
<1>2. Len(s) \in Nat /\ Len(s) # 0 /\ DOMAIN s = 1..Len(s)
  BY LenProperties, EmptySeq
<1>3. DOMAIN Tail(s) = 1..(Len(s) - 1)
  BY <1>1, LenProperties
<1> QED
  BY <1>1, <1>2, <1>3

\* What Append makes longer keeps what it had, and ends with what was appended.
LEMMA AppendElements ==
  ASSUME NEW S, NEW s \in Seq(S), NEW e \in S
  PROVE  /\ Append(s, e) \in Seq(S) /\ Len(Append(s, e)) = Len(s) + 1
         /\ DOMAIN Append(s, e) = DOMAIN s \cup {Len(s) + 1}
         /\ Len(s) \in Nat /\ DOMAIN s = 1..Len(s)
         /\ \A k \in DOMAIN s : Append(s, e)[k] = s[k]
         /\ Append(s, e)[Len(s) + 1] = e
         /\ \A k \in DOMAIN Append(s, e) :
              \/ k \in DOMAIN s /\ Append(s, e)[k] = s[k]
              \/ k = Len(s) + 1 /\ Append(s, e)[k] = e
<1>1. /\ Append(s, e) \in Seq(S) /\ Len(Append(s, e)) = Len(s) + 1
      /\ \A i \in 1..Len(s) : Append(s, e)[i] = s[i]
      /\ Append(s, e)[Len(s) + 1] = e
  BY AppendProperties
<1>2. Len(s) \in Nat /\ DOMAIN s = 1..Len(s)
  BY LenProperties
<1>3. DOMAIN Append(s, e) = 1..(Len(s) + 1)
  BY <1>1, LenProperties
<1> QED
  BY <1>1, <1>2, <1>3

\* What a list holds is of its type, and Append adds one element to it.
LEMMA RangeAppend ==
  ASSUME NEW S, NEW s \in Seq(S), NEW e \in S
  PROVE  Range(s) \subseteq S /\ Range(Append(s, e)) = Range(s) \cup {e}
<1>1. Range(s) \subseteq S
  <2>1. \A k \in DOMAIN s : s[k] \in S
    BY ElementOfSeq, LenProperties
  <2> QED
    BY <2>1 DEF Range
<1>2. Range(Append(s, e)) \subseteq Range(s) \cup {e}
  BY AppendElements DEF Range
<1>3. Range(s) \cup {e} \subseteq Range(Append(s, e))
  <2>1. \A k \in DOMAIN s : k \in DOMAIN Append(s, e) /\ Append(s, e)[k] = s[k]
    BY AppendElements
  <2>2. Len(s) + 1 \in DOMAIN Append(s, e) /\ Append(s, e)[Len(s) + 1] = e
    BY AppendElements
  <2> QED
    BY <2>1, <2>2 DEF Range
<1> QED
  BY <1>1, <1>2, <1>3

\* Tail adds nothing to what a list holds.
LEMMA RangeTail ==
  ASSUME NEW S, NEW s \in Seq(S), s # <<>>
  PROVE  Range(Tail(s)) \subseteq Range(s)
<1>1. \A k \in DOMAIN Tail(s) : k + 1 \in DOMAIN s /\ Tail(s)[k] = s[k + 1]
  BY TailElements
<1> QED
  BY <1>1 DEF Range

\* A list of one element grows to one of two.
LEMMA AppendToOne ==
  ASSUME NEW S, NEW x \in S, NEW y \in S
  PROVE  Append(<<x>>, y) = <<x, y>>
<1> DEFINE s == <<x>>  t == <<x, y>>
<1>1. s \in Seq(S) /\ t \in Seq(S) /\ Len(s) = 1 /\ Len(t) = 2
  OBVIOUS
<1>2. s[1] = x /\ t[1] = x /\ t[2] = y
  OBVIOUS
<1> HIDE DEF s, t
<1>3. Len(Append(s, y)) = 2 /\ Append(s, y)[1] = x /\ Append(s, y)[2] = y
  BY <1>1, <1>2, AppendElements
<1>4. Append(s, y) = t
  BY <1>1, <1>2, <1>3, AppendElements, SeqEqual
<1> QED
  BY <1>4 DEF s, t

\* Induction: a set of numbers that has 0 and the successor of each of its elements has all.
LEMMA SetInduction ==
  ASSUME NEW S, 0 \in S, \A n \in Nat : n \in S => n + 1 \in S
  PROVE  Nat \subseteq S
<1> DEFINE T == Nat \ S
<1>1. ASSUME T # {} PROVE FALSE
  <2>1. \E x \in T : \A y \in T : ~ (<<y, x>> \in OpToRel(<, Nat))
    <3> HIDE DEF T
    <3>1. T \subseteq Nat
      BY DEF T
    <3> QED
      BY <1>1, <3>1, NatLessThanWellFounded, WFMin
  <2>2. PICK x \in T : \A y \in T : ~ (<<y, x>> \in OpToRel(<, Nat))
    BY <2>1
  <2>3. x # 0 /\ x - 1 \in Nat
    OBVIOUS
  <2>4. x - 1 \in T
    BY <2>3
  <2>5. <<x - 1, x>> \in OpToRel(<, Nat)
    BY <2>3 DEF OpToRel
  <2> QED
    BY <2>2, <2>4, <2>5
<1> QED
  BY <1>1

\* What quotient and remainder are.
LEMMA DivProperties ==
  ASSUME NEW n \in Nat, NEW w \in Nat \ {0}
  PROVE  n \div w \in Nat /\ n % w \in Nat /\ n % w < w /\ n = w * (n \div w) + (n % w)
<1>1. n \div w \in Nat
  OBVIOUS
<1>2. n % w \in Nat /\ n % w < w
  OBVIOUS
<1>3. n = w * (n \div w) + (n % w)
  OBVIOUS
<1> QED
  BY <1>1, <1>2, <1>3

\* They are unique.
LEMMA DivUnique ==
  ASSUME NEW n \in Nat, NEW w \in Nat \ {0}, NEW q \in Nat, NEW r \in Nat, r < w, n = w * q + r
  PROVE  n \div w = q
<1> DEFINE p == n \div w  t == n % w
<1>1. p \in Nat /\ t \in Nat /\ t < w /\ n = w * p + t
  OBVIOUS
<1> HIDE DEF p, t
<1>2. ASSUME p < q PROVE FALSE
  <2>1. w * (p + 1) <= w * q
    BY <1>1, <1>2
  <2>2. w * (p + 1) = w * p + w
    BY <1>1
  <2> QED
    BY <1>1, <2>1, <2>2
<1>3. ASSUME q < p PROVE FALSE
  <2>1. w * (q + 1) <= w * p
    BY <1>1, <1>3
  <2>2. w * (q + 1) = w * q + w
    OBVIOUS
  <2> QED
    BY <1>1, <2>1, <2>2
<1>4. p = q
  BY <1>1, <1>2, <1>3
<1> QED
  BY <1>4 DEF p

\* Dividing by a product is dividing twice.
LEMMA DivTwice ==
  ASSUME NEW n \in Nat, NEW w \in Nat \ {0}, NEW B \in Nat \ {0}
  PROVE  n \div (B * w) = (n \div w) \div B
<1> DEFINE q == n \div w  r == n % w
           p == q \div B  s == q % B
<1>1. q \in Nat /\ r \in Nat /\ r < w /\ n = w * q + r
  OBVIOUS
<1>2. p \in Nat /\ s \in Nat /\ s < B /\ q = B * p + s
  <2> HIDE DEF q
  <2> QED
    BY <1>1
<1> HIDE DEF q, r, p, s
<1>3. n = (B * w) * p + (w * s + r)
  <2>1. w * (B * p + s) = (B * w) * p + w * s
    BY <1>2
  <2> QED
    BY <1>1, <1>2, <2>1
<1>4. w * s + r \in Nat /\ w * s + r < B * w
  <2>1. w * (s + 1) <= w * B
    BY <1>2
  <2>2. w * (s + 1) = w * s + w /\ w * B = B * w /\ w * s \in Nat
    BY <1>2
  <2> QED
    BY <1>1, <2>1, <2>2
<1>5. B * w \in Nat \ {0}
  OBVIOUS
<1>6. n \div (B * w) = p
  <2> DEFINE d == B * w  e == w * s + r
  <2>1. d \in Nat \ {0} /\ e \in Nat /\ e < d /\ n = d * p + e
    BY <1>3, <1>4, <1>5
  <2> HIDE DEF d, e
  <2>2. n \div d = p
    BY <1>2, <2>1, DivUnique
  <2> QED
    BY <2>2 DEF d
<1> QED
  BY <1>6 DEF p, q

\* A value for each number, each computed from the one before.
LEMMA FunctionByRecursion ==
  ASSUME NEW V, NEW v0 \in V, NEW N \in Nat, NEW step \in [1..N -> [V -> V]]
  PROVE  \E f \in [0..N -> V] : f[0] = v0 /\ \A k \in 1..N : f[k] = step[k][f[k - 1]]
<1> DEFINE Good(n, f) == f[0] = v0 /\ \A k \in 1..n : f[k] = step[k][f[k - 1]]
           S == {n \in Nat : n <= N => \E f \in [0..n -> V] : Good(n, f)}
<1>1. 0 \in S
  <2>1. [k \in 0..0 |-> v0] \in [0..0 -> V] /\ Good(0, [k \in 0..0 |-> v0])
    OBVIOUS
  <2> QED
    BY <2>1
<1>2. ASSUME NEW n \in Nat, n \in S
      PROVE  n + 1 \in S
  <2> SUFFICES ASSUME n + 1 <= N
               PROVE  \E g \in [0..(n + 1) -> V] : Good(n + 1, g)
    OBVIOUS
  <2>1. PICK f \in [0..n -> V] : Good(n, f)
    BY <1>2
  <2> DEFINE g == [k \in 0..(n + 1) |-> IF k <= n THEN f[k] ELSE step[n + 1][f[n]]]
  <2>2. n + 1 \in 1..N /\ f[n] \in V
    OBVIOUS
  <2>3. step[n + 1][f[n]] \in V
    BY <2>2
  <2>4. g \in [0..(n + 1) -> V]
    BY <2>3
  <2>5. \A k \in 0..n : g[k] = f[k]
    OBVIOUS
  <2>6. g[n + 1] = step[n + 1][f[n]]
    OBVIOUS
  <2> HIDE DEF g
  <2>7. ASSUME NEW k \in 1..(n + 1)
        PROVE  g[k] = step[k][g[k - 1]]
    <3>1. CASE k <= n
      BY <2>1, <2>5, <3>1
    <3>2. CASE k = n + 1
      BY <2>5, <2>6, <3>2
    <3> QED
      BY <3>1, <3>2
  <2>8. g[0] = v0
    BY <2>1, <2>5
  <2> QED
    BY <2>4, <2>7, <2>8
<1>3. N \in S
  <2> HIDE DEF S
  <2> QED
    BY <1>1, <1>2, SetInduction
<1> QED
  BY <1>3

\* What a concatenation holds.
LEMMA ConcatElements ==
  ASSUME NEW S, NEW s \in Seq(S), NEW t \in Seq(S)
  PROVE  /\ s \o t \in Seq(S) /\ Len(s \o t) = Len(s) + Len(t)
         /\ Len(s) \in Nat /\ Len(t) \in Nat
         /\ \A i \in 1..Len(s) : (s \o t)[i] = s[i]
         /\ \A i \in 1..Len(t) : (s \o t)[Len(s) + i] = t[i]
<1>1. /\ s \o t \in Seq(S) /\ Len(s \o t) = Len(s) + Len(t)
      /\ \A i \in 1..Len(s) + Len(t) :
           (s \o t)[i] = IF i <= Len(s) THEN s[i] ELSE t[i - Len(s)]
  BY ConcatProperties
<1>2. Len(s) \in Nat /\ Len(t) \in Nat
  BY LenProperties
<1>3. \A i \in 1..Len(s) : i \in 1..Len(s) + Len(t) /\ i <= Len(s)
  BY <1>2
<1>4. \A i \in 1..Len(t) : /\ Len(s) + i \in 1..Len(s) + Len(t)
                           /\ ~ (Len(s) + i <= Len(s)) /\ (Len(s) + i) - Len(s) = i
  BY <1>2
<1>5. \A i \in 1..Len(s) : (s \o t)[i] = s[i]
  BY <1>1, <1>3
<1>6. \A i \in 1..Len(t) : (s \o t)[Len(s) + i] = t[i]
  BY <1>1, <1>4
<1> QED
  BY <1>1, <1>2, <1>5, <1>6

=============================================================================
