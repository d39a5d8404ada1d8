------------------------------ MODULE ListLemmas ------------------------------
(***************************************************************************)
(* What the proofs use of sequences: the operators that both lists, that   *)
(* of the end points and that of the commands, are modelled with, and the  *)
(* parts of a string; the first and the last position of a set of them,    *)
(* and recursion on a position.                                            *)
(***************************************************************************)
EXTENDS Integers, SequencesExt, SequenceTheorems, WellFoundedInduction, TLAPS

\* Removing position i shifts the items behind it by one.
LEMMA RemoveAtShifts ==
  ASSUME NEW S, NEW s \in Seq(S), NEW i \in 1..Len(s)
  PROVE  /\ RemoveAt(s, i) \in Seq(S)
         /\ Len(RemoveAt(s, i)) = Len(s) - 1
         /\ \A j \in 1..(Len(s) - 1) : RemoveAt(s, i)[j] = IF j < i THEN s[j] ELSE s[j + 1]
<1> DEFINE front == SubSeq(s, 1, i - 1)
           back == SubSeq(s, i + 1, Len(s))
<1>1. front \in Seq(S) /\ Len(front) = i - 1 /\ \A j \in 1..(i - 1) : front[j] = s[j]
  OBVIOUS
<1>2. back \in Seq(S) /\ Len(back) = Len(s) - i /\ \A j \in 1..(Len(s) - i) : back[j] = s[i + j]
  OBVIOUS
<1>3. RemoveAt(s, i) = front \o back
  BY DEF RemoveAt
<1> HIDE DEF front, back
<1>4. /\ front \o back \in Seq(S)
      /\ Len(front \o back) = Len(front) + Len(back)
      /\ \A j \in 1..(Len(front) + Len(back)) :
           (front \o back)[j] = IF j <= Len(front) THEN front[j] ELSE back[j - Len(front)]
  BY <1>1, <1>2, ConcatProperties
<1>5. Len(s) \in Nat
  OBVIOUS
<1> QED
  BY <1>1, <1>2, <1>3, <1>4, <1>5

\* In a list without repetitions it takes out the item, and no other.
LEMMA RemoveAtTakesOne ==
  ASSUME NEW S, NEW s \in Seq(S), IsInjective(s), NEW i \in 1..Len(s)
  PROVE  ToSet(RemoveAt(s, i)) = ToSet(s) \ {s[i]}
<1> DEFINE n == Len(s)
           t == RemoveAt(s, i)
<1>1. n \in Nat /\ DOMAIN s = 1..n
  OBVIOUS
<1>2. /\ DOMAIN t = 1..(n - 1)
      /\ \A j \in 1..(n - 1) : t[j] = IF j < i THEN s[j] ELSE s[j + 1]
  <2>1. /\ t \in Seq(S) /\ Len(t) = n - 1
        /\ \A j \in 1..(n - 1) : t[j] = IF j < i THEN s[j] ELSE s[j + 1]
    BY RemoveAtShifts
  <2> HIDE DEF t
  <2> QED
    BY <2>1
<1>3. \A j, k \in 1..n : s[j] = s[k] => j = k
  BY <1>1 DEF IsInjective
<1>4. ToSet(s) = {s[j] : j \in 1..n} /\ ToSet(t) = {t[j] : j \in 1..(n - 1)}
  BY <1>1, <1>2 DEF ToSet
<1>5. i \in 1..n
  OBVIOUS
<1> HIDE DEF n, t
<1>6. ASSUME NEW j \in 1..(n - 1) PROVE t[j] \in ToSet(s) \ {s[i]}
  <2>1. CASE j < i
    BY <1>1, <1>2, <1>3, <1>4, <1>5, <2>1
  <2>2. CASE ~(j < i)
    <3>1. j + 1 \in 1..n /\ j + 1 # i
      BY <1>1, <1>5, <2>2
    <3> QED
      BY <1>2, <1>3, <1>4, <1>5, <2>2, <3>1
  <2> QED
    BY <2>1, <2>2
<1>7. ASSUME NEW k \in 1..n, k # i PROVE s[k] \in ToSet(t)
  <2>1. CASE k < i
    <3>1. k \in 1..(n - 1)
      BY <1>1, <1>5, <2>1
    <3> QED
      BY <1>2, <1>4, <2>1, <3>1
  <2>2. CASE k > i
    <3>1. k - 1 \in 1..(n - 1) /\ ~(k - 1 < i) /\ (k - 1) + 1 = k
      BY <1>1, <1>5, <2>2
    <3>2. t[k - 1] = s[k]
      BY <1>2, <3>1
    <3> QED
      BY <1>4, <3>1, <3>2
  <2> QED
    BY <1>1, <1>5, <1>7, <2>1, <2>2
<1>8. ToSet(t) = ToSet(s) \ {s[i]}
  BY <1>4, <1>5, <1>6, <1>7
<1> QED
  BY <1>8 DEF t

\* Min of a set of positions is one of them, and no other is before it.
LEMMA MinOfPositions ==
  ASSUME NEW T \in SUBSET Nat, T # {}
  PROVE  Min(T) \in T /\ \A j \in T : Min(T) <= j
<1> DEFINE R == OpToRel(<, Nat)
<1>1. \A j, k \in Nat : j < k => <<j, k>> \in R
  BY DEF OpToRel
<1>2. IsWellFoundedOn(R, Nat)
  BY NatLessThanWellFounded
<1> HIDE DEF R
<1>3. PICK m \in T : \A j \in T : ~(<<j, m>> \in R)
  BY <1>2, WFMin
<1>4. ASSUME NEW j \in T
      PROVE  m <= j
  <2>1. j \in Nat /\ m \in Nat
    OBVIOUS
  <2>2. ~(j < m)
    BY <1>1, <1>3, <2>1
  <2> QED
    BY <2>1, <2>2
<1> QED
  BY <1>4 DEF Min
\* Min and Max of a set of positions are what their names say.
LEMMA MinIs ==
  ASSUME NEW T \in SUBSET Nat, NEW m \in T, \A j \in T : m <= j
  PROVE  Min(T) = m
<1>1. Min(T) \in T /\ Min(T) <= m
  BY MinOfPositions
<1>2. m <= Min(T) /\ m \in Nat /\ Min(T) \in Nat
  BY <1>1
<1> QED
  BY <1>1, <1>2

\* Max of a bounded set of positions is one of them, and no other is behind it.
LEMMA MaxOfPositions ==
  ASSUME NEW n \in Nat, NEW T \in SUBSET (0..n), T # {}
  PROVE  Max(T) \in T /\ \A j \in T : Max(T) >= j
<1> DEFINE bounds == {k \in 0..n : \A j \in T : j <= k}
           m == Min(bounds)
<1>1. n \in bounds
  OBVIOUS
<1>2. m \in bounds /\ \A k \in bounds : m <= k
  <2>1. bounds \in SUBSET Nat /\ bounds # {}
    BY <1>1
  <2> QED
    BY <2>1, MinOfPositions
<1>3. m \in T
  <2> SUFFICES ASSUME m \notin T PROVE FALSE
    OBVIOUS
  <2> HIDE DEF m
  <2>1. \A j \in T : j <= m - 1
    BY <1>2
  <2>2. PICK j \in T : j <= m - 1
    BY <2>1
  <2>3. m - 1 \in 0..n
    BY <1>2, <2>2
  <2>4. m - 1 \in bounds
    BY <2>1, <2>3
  <2> QED
    BY <1>2, <2>3, <2>4
<1>4. \E k \in T : \A j \in T : k >= j
  BY <1>2, <1>3
<1> HIDE DEF m, bounds
<1> QED
  BY <1>4 DEF Max

\* And it is the one that is not before any other.
LEMMA MaxIs ==
  ASSUME NEW n \in Nat, NEW T \in SUBSET (0..n), NEW m \in T, \A j \in T : m >= j
  PROVE  Max(T) = m
<1>1. Max(T) \in T /\ Max(T) >= m
  <2>1. T # {}
    OBVIOUS
  <2> QED
    BY <2>1, MaxOfPositions
<1>2. m >= Max(T)
  BY <1>1
<1>3. T \subseteq Nat
  OBVIOUS
<1>4. m \in Nat /\ Max(T) \in Nat
  BY <1>1, <1>3
<1> QED
  BY <1>1, <1>2, <1>4

\* Induction up to n, stated of a set.
LEMMA CountingUp ==
  ASSUME NEW n \in Nat, NEW T, 0 \in T, \A k \in 0..n : k < n /\ k \in T => k + 1 \in T
  PROVE  \A k \in 0..n : k \in T
<1> DEFINE missed == {k \in 0..n : k \notin T}
<1> SUFFICES ASSUME missed # {} PROVE FALSE
  OBVIOUS
<1> DEFINE m == Min(missed)
<1>1. m \in missed /\ \A k \in missed : m <= k
  BY MinOfPositions
<1> HIDE DEF m
<1>2. m \in 0..n /\ m \notin T /\ m # 0
  BY <1>1
<1>2a. m - 1 \in 0..n /\ m - 1 < n /\ ~(m <= m - 1)
  BY <1>2
<1>2b. m - 1 \in T
  BY <1>1, <1>2a
<1>3. (m - 1) + 1 \in T /\ (m - 1) + 1 = m
  BY <1>2, <1>2a, <1>2b
<1> QED
  BY <1>2, <1>3

\* A function may be defined by recursion on a position.
Iterations(n, S, base, F) ==
  {g \in [0..n -> S] : g[0] = base /\ \A k \in 1..n : g[k] = F[k][g[k - 1]]}

\* There is always such a function.
LEMMA RecursiveFunction ==
  ASSUME NEW n \in Nat, NEW S, NEW base \in S, NEW F \in [1..n -> [S -> S]]
  PROVE  Iterations(n, S, base, F) # {}
<1> DEFINE Upto(m, g) == g[0] = base /\ \A k \in 1..m : g[k] = F[k][g[k - 1]]
           T == {m \in 0..n : \E g \in [0..m -> S] : Upto(m, g)}
<1>1. 0 \in T
  <2> DEFINE g == [k \in 0..0 |-> base]
  <2>1. g \in [0..0 -> S] /\ g[0] = base /\ 1..0 = {} /\ 0 \in 0..n
    OBVIOUS
  <2> HIDE DEF g
  <2> QED
    BY <2>1
<1>2. ASSUME NEW m \in 0..n, m < n, m \in T PROVE m + 1 \in T
  <2>1. PICK g \in [0..m -> S] : Upto(m, g)
    BY <1>2
  <2> DEFINE h == [k \in 0..(m + 1) |-> IF k = m + 1 THEN F[m + 1][g[m]] ELSE g[k]]
  <2>2. m \in 0..m /\ m + 1 \in 1..n /\ m + 1 \in 0..n /\ m + 1 \in 0..(m + 1)
    BY <1>2
  <2>3. F[m + 1][g[m]] \in S
    BY <2>2
  <2>4. h \in [0..(m + 1) -> S]
    BY <2>3
  <2>5. h[m + 1] = F[m + 1][g[m]] /\ \A k \in 0..m : h[k] = g[k]
    BY <2>2
  <2> HIDE DEF h
  <2>6. h[0] = base
    BY <2>1, <2>5
  <2>7. ASSUME NEW k \in 1..(m + 1) PROVE h[k] = F[k][h[k - 1]]
    <3>1. CASE k = m + 1
      <4>1. k - 1 = m
        BY <3>1
      <4> QED
        BY <2>2, <2>5, <3>1, <4>1
    <3>2. CASE k # m + 1
      <4>1. k \in 1..m /\ k \in 0..m /\ k - 1 \in 0..m
        BY <3>2
      <4> QED
        BY <2>1, <2>5, <4>1
    <3> QED
      BY <3>1, <3>2
  <2> QED
    BY <2>2, <2>4, <2>6, <2>7
<1> HIDE DEF T
<1>3. n \in T
  <2>1. \A m \in 0..n : m \in T
    BY <1>1, <1>2, CountingUp
  <2> QED
    BY <2>1
<1> QED
  BY <1>3 DEF T, Iterations

\* A part of a sequence: its items and their places.
LEMMA Part ==
  ASSUME NEW S, NEW s \in Seq(S), NEW m \in Nat \ {0}, NEW n \in 0..Len(s)
  PROVE  /\ SubSeq(s, m, n) \in Seq(S)
         /\ Len(SubSeq(s, m, n)) = IF m <= n THEN n - m + 1 ELSE 0
         /\ \A i \in 1..(n - m + 1) : SubSeq(s, m, n)[i] = s[m + i - 1]
<1>1. m \in Int /\ n \in Int /\ Len(s) \in Nat
  OBVIOUS
<1>2. \A i \in m..n : s[i] \in S
  BY <1>1, ElementOfSeq
<1> QED
  BY <1>1, <1>2, SubSeqProperties

\* A copy of the beginning of a string.
LEMMA Beginning ==
  ASSUME NEW S, NEW s \in Seq(S), NEW x \in Seq(S), Len(x) <= Len(s), \A i \in 1..Len(x) : s[i] = x[i]
  PROVE  SubSeq(s, 1, Len(x)) = x
<1> DEFINE v == SubSeq(s, 1, Len(x))
<1>1. Len(s) \in Nat /\ Len(x) \in Nat /\ Len(x) \in 0..Len(s)
  OBVIOUS
<1>2. /\ v \in Seq(S) /\ Len(v) = IF 1 <= Len(x) THEN Len(x) - 1 + 1 ELSE 0
      /\ \A i \in 1..(Len(x) - 1 + 1) : v[i] = s[1 + i - 1]
  BY <1>1, Part
<1> HIDE DEF v
<1>3. Len(v) = Len(x) /\ \A i \in 1..Len(v) : v[i] = x[i]
  BY <1>1, <1>2
<1>4. v = x
  BY <1>2, <1>3, SeqEqual
<1> QED
  BY <1>4 DEF v

\* A sequence put together comes apart again.
LEMMA ConcatSplits ==
  ASSUME NEW S, NEW s \in Seq(S), NEW t \in Seq(S)
  PROVE  SubSeq(s \o t, 1, Len(s)) = s /\ SubSeq(s \o t, Len(s) + 1, Len(s \o t)) = t
<1> DEFINE u == s \o t
<1>1. Len(s) \in Nat /\ Len(t) \in Nat
  OBVIOUS
<1>2. /\ u \in Seq(S) /\ Len(u) = Len(s) + Len(t)
      /\ \A i \in 1..(Len(s) + Len(t)) : u[i] = IF i <= Len(s) THEN s[i] ELSE t[i - Len(s)]
  BY ConcatProperties
<1> HIDE DEF u
<1>3. SubSeq(u, 1, Len(s)) = s
  <2> DEFINE v == SubSeq(u, 1, Len(s))
  <2>1. 1 \in Nat \ {0} /\ Len(s) \in 0..Len(u)
    BY <1>1, <1>2
  <2>2. /\ v \in Seq(S) /\ Len(v) = IF 1 <= Len(s) THEN Len(s) - 1 + 1 ELSE 0
        /\ \A i \in 1..(Len(s) - 1 + 1) : v[i] = u[1 + i - 1]
    BY <1>2, <2>1, Part
  <2> HIDE DEF v
  <2>3. Len(v) = Len(s)
    BY <1>1, <2>2
  <2>4. ASSUME NEW i \in 1..Len(v) PROVE v[i] = s[i]
    <3>1. i \in 1..(Len(s) - 1 + 1) /\ 1 + i - 1 = i /\ i \in 1..(Len(s) + Len(t)) /\ i <= Len(s)
      BY <1>1, <2>3
    <3> QED
      BY <1>2, <2>2, <3>1
  <2>5. v = s
    BY <2>2, <2>3, <2>4, SeqEqual
  <2> QED
    BY <2>5 DEF v
<1>4. SubSeq(u, Len(s) + 1, Len(u)) = t
  <2> DEFINE m == Len(s) + 1
             v == SubSeq(u, m, Len(u))
  <2>1. m \in Nat \ {0} /\ Len(u) \in 0..Len(u)
    BY <1>1, <1>2
  <2>2. /\ v \in Seq(S) /\ Len(v) = IF m <= Len(u) THEN Len(u) - m + 1 ELSE 0
        /\ \A i \in 1..(Len(u) - m + 1) : v[i] = u[m + i - 1]
    BY <1>2, <2>1, Part
  <2> HIDE DEF v
  <2>3. Len(v) = Len(t)
    BY <1>1, <1>2, <2>2
  <2>4. ASSUME NEW i \in 1..Len(v) PROVE v[i] = t[i]
    <3>1. i \in 1..(Len(u) - m + 1) /\ m + i - 1 \in 1..(Len(s) + Len(t)) /\ ~(m + i - 1 <= Len(s)) /\ (m + i - 1) - Len(s) = i
      BY <1>1, <1>2, <2>3
    <3> QED
      BY <1>2, <2>2, <3>1
  <2>5. v = t
    BY <2>2, <2>3, <2>4, SeqEqual
  <2> QED
    BY <2>5 DEF v
<1> QED
  BY <1>3, <1>4 DEF u

\* What is left without the last item.
LEMMA FrontIs ==
  ASSUME NEW S, NEW s \in Seq(S), s # <<>>
  PROVE  /\ Front(s) \in Seq(S) /\ Len(Front(s)) = Len(s) - 1
         /\ \A i \in 1..(Len(s) - 1) : Front(s)[i] = s[i]
<1> DEFINE n == Len(s) - 1
<1>1. Len(s) \in Nat \ {0}
  BY EmptySeq
<1>2. 1 \in Nat \ {0} /\ n \in 0..Len(s)
  BY <1>1
<1>3. Front(s) = SubSeq(s, 1, n)
  BY DEF Front
<1> HIDE DEF n
<1>4. /\ SubSeq(s, 1, n) \in Seq(S) /\ Len(SubSeq(s, 1, n)) = IF 1 <= n THEN n - 1 + 1 ELSE 0
      /\ \A i \in 1..(n - 1 + 1) : SubSeq(s, 1, n)[i] = s[1 + i - 1]
  BY <1>2, Part
<1>5. Len(SubSeq(s, 1, n)) = n /\ \A i \in 1..n : SubSeq(s, 1, n)[i] = s[i]
  BY <1>1, <1>2, <1>4
<1> QED
  BY <1>3, <1>4, <1>5 DEF n

\* The last item of two sequences is that of the second.
LEMMA FrontOfConcat ==
  ASSUME NEW S, NEW s \in Seq(S), NEW t \in Seq(S), t # <<>>
  PROVE  Front(s \o t) = s \o Front(t)
<1> DEFINE u == s \o t
           v == s \o Front(t)
<1>1. Len(s) \in Nat /\ Len(t) \in Nat \ {0}
  OBVIOUS
<1>2. /\ u \in Seq(S) /\ Len(u) = Len(s) + Len(t)
      /\ \A i \in 1..(Len(s) + Len(t)) : u[i] = IF i <= Len(s) THEN s[i] ELSE t[i - Len(s)]
  BY ConcatProperties
<1>3. /\ Front(t) \in Seq(S) /\ Len(Front(t)) = Len(t) - 1
      /\ \A i \in 1..(Len(t) - 1) : Front(t)[i] = t[i]
  BY FrontIs
<1>4. /\ v \in Seq(S) /\ Len(v) = Len(s) + Len(Front(t))
      /\ \A i \in 1..(Len(s) + Len(Front(t))) : v[i] = IF i <= Len(s) THEN s[i] ELSE Front(t)[i - Len(s)]
  BY <1>3, ConcatProperties
<1> HIDE DEF u, v
<1>5. u # <<>>
  BY <1>1, <1>2
<1>6. /\ Front(u) \in Seq(S) /\ Len(Front(u)) = Len(u) - 1
      /\ \A i \in 1..(Len(u) - 1) : Front(u)[i] = u[i]
  BY <1>2, <1>5, FrontIs
<1>7. Len(Front(u)) = Len(v)
  BY <1>1, <1>2, <1>3, <1>4, <1>6
<1>8. ASSUME NEW i \in 1..Len(Front(u)) PROVE Front(u)[i] = v[i]
  <2>1. i \in 1..(Len(u) - 1) /\ i \in 1..(Len(s) + Len(t)) /\ i \in 1..(Len(s) + Len(Front(t)))
    BY <1>1, <1>2, <1>3, <1>6
  <2>2. CASE i <= Len(s)
    BY <1>2, <1>4, <1>6, <2>1, <2>2
  <2>3. CASE ~(i <= Len(s))
    <3>1. i - Len(s) \in 1..(Len(t) - 1)
      BY <1>1, <1>2, <1>6, <2>3
    <3> QED
      BY <1>2, <1>3, <1>4, <1>6, <2>1, <2>3, <3>1
  <2> QED
    BY <2>2, <2>3
<1>9. Front(u) = v
  BY <1>4, <1>6, <1>7, <1>8, SeqEqual
<1> QED
  BY <1>9 DEF u, v

\* Taking off the item that was added.
LEMMA FrontOfAppend ==
  ASSUME NEW S, NEW s \in Seq(S), NEW e \in S
  PROVE  Front(Append(s, e)) = s
<1> DEFINE u == Append(s, e)
<1>1. /\ u \in Seq(S) /\ Len(u) = Len(s) + 1 /\ \A i \in 1..Len(s) : u[i] = s[i]
  BY AppendProperties
<1>2. Len(s) \in Nat
  OBVIOUS
<1> HIDE DEF u
<1>3. u # <<>>
  BY <1>1, <1>2
<1>4. /\ Front(u) \in Seq(S) /\ Len(Front(u)) = Len(u) - 1
      /\ \A i \in 1..(Len(u) - 1) : Front(u)[i] = u[i]
  BY <1>1, <1>3, FrontIs
<1>5. Len(Front(u)) = Len(s) /\ \A i \in 1..Len(Front(u)) : Front(u)[i] = s[i]
  BY <1>1, <1>2, <1>4
<1>6. Front(u) = s
  BY <1>4, <1>5, SeqEqual
<1> QED
  BY <1>6 DEF u

\* The first place where c stands, if it is within the limit, or else the end.
LEMMA FirstOrLimit ==
  ASSUME NEW S, NEW s \in Seq(S), NEW c, NEW limit \in Nat, NEW m \in 1..Len(s), m <= limit,
         m # Len(s) => s[m] = c, \A i \in 1..Len(s) : i < m => s[i] # c
  PROVE  Min({i \in DOMAIN s : s[i] = c} \cup {limit, Len(s)}) = m
<1> DEFINE marks == {i \in DOMAIN s : s[i] = c}
           ends == marks \cup {limit, Len(s)}
<1>1. Len(s) \in Nat /\ DOMAIN s = 1..Len(s) /\ m <= Len(s)
  OBVIOUS
<1>2. ASSUME NEW j \in 1..Len(s), s[j] = c PROVE j \in Nat /\ m <= j
  BY <1>2
<1>3. \A j \in ends : j \in Nat /\ m <= j
  BY <1>1, <1>2, Zenon
<1>4. m \in ends
  BY <1>1, Zenon
<1> HIDE DEF ends
<1>5. Min(ends) = m
  BY <1>3, <1>4, MinIs
<1> QED
  BY <1>5 DEF ends, marks
===============================================================================
