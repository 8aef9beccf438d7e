------------------------------ MODULE DataLemmas ------------------------------
(***************************************************************************)
(* What the proofs need of finite data: induction over the natural numbers *)
(* for sets instead of predicates, functions defined by iteration, and     *)
(* sequences that grow at their end and are consumed from their front.     *)
(***************************************************************************)
EXTENDS Integers, Sequences, SequencesExt, FiniteSetTheorems, SequenceTheorems, TLAPS

-----------------------------------------------------------------------------
(* Induction and iteration.                                                *)

\* A set of natural numbers that is not empty has a least element.
LEMMA LeastNatural ==
    ASSUME NEW T \in SUBSET Nat, T # {}
    PROVE  \E m \in T : \A k \in T : m <= k
<1>1. PICK n \in T : TRUE  OBVIOUS
<1> DEFINE initial == {0 .. k : k \in {j \in T : j <= n}}
<1>2. IsFiniteSet(0 .. n)  BY FS_Interval
<1>3. IsWellFoundedOn(StrictSubsetOrdering(0 .. n), SUBSET (0 .. n))
  BY <1>2, FS_StrictSubsetOrderingWellFounded, FS_FiniteSubsetsOfFinite
<1>4. initial \subseteq SUBSET (0 .. n)  OBVIOUS
<1>5. initial # {}  BY <1>1
<1>6. PICK x \in initial : \A y \in initial : <<y, x>> \notin StrictSubsetOrdering(0 .. n)
  <2> HIDE DEF initial
  <2>q. QED BY <1>3, <1>4, <1>5, WFMin
<1>7. PICK m \in T : m <= n /\ x = 0 .. m  BY <1>6
<1>8. ASSUME NEW k \in T, k < m PROVE FALSE
  <2>1. 0 .. k \in initial  BY <1>7, <1>8
  <2>2. 0 .. k \subseteq 0 .. m /\ 0 .. k # 0 .. m
    <3>1. m \in 0 .. m /\ m \notin 0 .. k  BY <1>7, <1>8
    <3>q. QED BY <3>1, <1>8
  <2>3. 0 .. k \in SUBSET (0 .. n) /\ 0 .. m \in SUBSET (0 .. n)  BY <1>7, <1>8
  <2>4. <<0 .. k, 0 .. m>> \in StrictSubsetOrdering(0 .. n)
    BY <2>2, <2>3 DEF StrictSubsetOrdering
  <2>q. QED BY <1>6, <1>7, <2>1, <2>4
<1>q. QED BY <1>7, <1>8

\* A set of numbers that holds 0 and with each number the next holds all.
LEMMA Induction ==
    ASSUME NEW n \in Nat, NEW T, 0 \in T, \A k \in 0 .. n - 1 : k \in T => k + 1 \in T
    PROVE  0 .. n \subseteq T
<1> DEFINE rest == (0 .. n) \ T
<1> SUFFICES ASSUME rest # {} PROVE FALSE  OBVIOUS
<1>0. rest \in SUBSET Nat  OBVIOUS
<1>1. PICK m \in rest : \A k \in rest : m <= k
  <2> HIDE DEF rest
  <2>q. QED BY <1>0, LeastNatural
<1>2. m # 0 /\ m \in 1 .. n  BY <1>1
<1>3. m - 1 \in 0 .. n - 1 /\ m - 1 \notin rest  BY <1>1, <1>2
<1>q. QED BY <1>1, <1>2, <1>3

\* The k-th step takes X to X, and f is what the steps make of c.
Steps(step, n, X) == \A k \in 1 .. n, x \in X : step[k][x] \in X

Iterated(f, n, X, c, step) ==
    /\ f \in [0 .. n -> X]
    /\ f[0] = c
    /\ \A k \in 1 .. n : f[k] = step[k][f[k - 1]]

\* A function on an interval may be defined by its first value and a step from
\* each value to the next.
LEMMA Iterates ==
    ASSUME NEW X, NEW c \in X, NEW n \in Nat, NEW step, Steps(step, n, X)
    PROVE  \E f : Iterated(f, n, X, c, step)
<1> DEFINE Defined(m) ==
              \E f \in [0 .. m -> X] : f[0] = c /\ \A k \in 1 .. m : f[k] = step[k][f[k - 1]]
           T == {m \in 0 .. n : Defined(m)}
<1>1. 0 \in T
  <2> DEFINE f == [k \in 0 .. 0 |-> c]
  <2>1. f \in [0 .. 0 -> X] /\ f[0] = c /\ \A k \in 1 .. 0 : f[k] = step[k][f[k - 1]]
    OBVIOUS
  <2>2. Defined(0)
    <3> HIDE DEF f
    <3>q. QED BY <2>1
  <2>q. QED BY <2>2
<1>2. ASSUME NEW m \in 0 .. n - 1, m \in T PROVE m + 1 \in T
  <2>1. PICK f \in [0 .. m -> X] : f[0] = c /\ \A k \in 1 .. m : f[k] = step[k][f[k - 1]]
    BY <1>2
  <2> DEFINE g == [k \in 0 .. m + 1 |-> IF k = m + 1 THEN step[k][f[m]] ELSE f[k]]
  <2>2. g \in [0 .. m + 1 -> X]
    <3>1. m + 1 \in 1 .. n /\ f[m] \in X  OBVIOUS
    <3>2. step[m + 1][f[m]] \in X  BY <3>1 DEF Steps
    <3>q. QED BY <3>2
  <2>3. g[0] = c  BY <2>1
  <2>4. ASSUME NEW k \in 1 .. m + 1 PROVE g[k] = step[k][g[k - 1]]
    <3>1. CASE k = m + 1
      <4>1. k - 1 = m /\ g[k - 1] = f[m]  BY <3>1
      <4>q. QED BY <3>1, <4>1
    <3>2. CASE k # m + 1
      <4>1. k \in 1 .. m /\ k - 1 \in 0 .. m /\ k - 1 # m + 1  BY <3>2
      <4>2. f[k] = step[k][f[k - 1]]  BY <2>1, <4>1
      <4>q. QED BY <3>2, <4>1, <4>2
    <3>q. QED BY <3>1, <3>2
  <2> HIDE DEF g
  <2>5. Defined(m + 1)  BY <2>2, <2>3, <2>4
  <2>q. QED BY <2>5
<1>3. 0 .. n \subseteq T
  <2> HIDE DEF T
  <2>q. QED BY <1>1, <1>2, Induction
<1>4. Defined(n)  BY <1>3
<1>q. QED BY <1>4 DEF Iterated

-----------------------------------------------------------------------------
(* Sequences and the sets of their elements.                               *)

LEMMA Elements ==
    ASSUME NEW S, NEW seq \in Seq(S)
    PROVE  /\ Len(seq) \in Nat /\ DOMAIN seq = 1 .. Len(seq)
           /\ Range(seq) = {seq[i] : i \in 1 .. Len(seq)}
           /\ Range(seq) \subseteq S
<1>1. Len(seq) \in Nat /\ DOMAIN seq = 1 .. Len(seq) /\ \A i \in 1 .. Len(seq) : seq[i] \in S
  BY LenProperties, ElementOfSeq
<1>2. Range(seq) = {seq[i] : i \in 1 .. Len(seq)}  BY <1>1 DEF Range
<1>q. QED BY <1>1, <1>2

LEMMA AppendedTo ==
    ASSUME NEW S, NEW seq \in Seq(S), NEW x \in S
    PROVE  /\ Append(seq, x) \in Seq(S)
           /\ Len(Append(seq, x)) = Len(seq) + 1
           /\ \A i \in 1 .. Len(seq) : Append(seq, x)[i] = seq[i]
           /\ Append(seq, x)[Len(seq) + 1] = x
           /\ Range(Append(seq, x)) = Range(seq) \cup {x}
<1> DEFINE new == Append(seq, x)
<1>1. /\ new \in Seq(S) /\ Len(new) = Len(seq) + 1
      /\ \A i \in 1 .. Len(seq) : new[i] = seq[i]
      /\ new[Len(seq) + 1] = x
      /\ Len(seq) \in Nat
  BY AppendProperties, LenProperties
<1>2. /\ Range(new) = {new[i] : i \in 1 .. Len(new)}
      /\ Range(seq) = {seq[i] : i \in 1 .. Len(seq)}
  BY <1>1, Elements
<1> HIDE DEF new
<1>3. Range(new) = Range(seq) \cup {x}
  <2>1. ASSUME NEW i \in 1 .. Len(new) PROVE new[i] \in Range(seq) \cup {x}
    <3>1. i \in 1 .. Len(seq) \/ i = Len(seq) + 1  BY <1>1
    <3>q. QED BY <1>1, <1>2, <3>1
  <2>2. ASSUME NEW i \in 1 .. Len(seq) PROVE seq[i] \in Range(new)
    <3>1. i \in 1 .. Len(new) /\ new[i] = seq[i]  BY <1>1
    <3>q. QED BY <1>2, <3>1
  <2>3. x \in Range(new)
    <3>1. Len(seq) + 1 \in 1 .. Len(new)  BY <1>1
    <3>q. QED BY <1>1, <1>2, <3>1
  <2>q. QED BY <1>2, <2>1, <2>2, <2>3
<1>q. QED BY <1>1, <1>3 DEF new

LEMMA Consumed ==
    ASSUME NEW S, NEW seq \in Seq(S), seq # <<>>
    PROVE  /\ Head(seq) \in S /\ Head(seq) = seq[1] /\ Tail(seq) \in Seq(S)
           /\ Len(seq) \in Nat \ {0} /\ Len(Tail(seq)) = Len(seq) - 1
           /\ \A i \in 1 .. Len(seq) - 1 : Tail(seq)[i] = seq[i + 1]
           /\ Range(seq) = {Head(seq)} \cup Range(Tail(seq))
<1> DEFINE rest == Tail(seq)
<1>1. /\ Head(seq) \in S /\ rest \in Seq(S) /\ Len(rest) = Len(seq) - 1
      /\ \A i \in 1 .. Len(rest) : rest[i] = seq[i + 1]
      /\ Head(seq) = seq[1] /\ Len(seq) \in Nat \ {0}
  BY HeadTailProperties, EmptySeq
<1>2. /\ Range(rest) = {rest[i] : i \in 1 .. Len(rest)}
      /\ Range(seq) = {seq[i] : i \in 1 .. Len(seq)}
  BY <1>1, Elements
<1> HIDE DEF rest
<1>3. ASSUME NEW i \in 1 .. Len(seq) PROVE seq[i] \in {Head(seq)} \cup Range(rest)
  <2>1. i = 1 \/ (i - 1 \in 1 .. Len(rest) /\ i = (i - 1) + 1)  BY <1>1
  <2>q. QED BY <1>1, <1>2, <2>1
<1>4. ASSUME NEW i \in 1 .. Len(rest) PROVE rest[i] \in Range(seq)
  <2>1. i + 1 \in 1 .. Len(seq)  BY <1>1
  <2>q. QED BY <1>1, <1>2, <2>1
<1>5. Head(seq) \in Range(seq)
  <2>1. 1 \in 1 .. Len(seq)  BY <1>1
  <2>q. QED BY <1>1, <1>2, <2>1
<1>q. QED BY <1>1, <1>2, <1>3, <1>4, <1>5 DEF rest

LEMMA Tuple0 == \A S : <<>> \in Seq(S) /\ Len(<<>>) = 0 /\ Range(<<>>) = {}
<1>1. \A S : <<>> \in Seq(S)  OBVIOUS
<1>2. Len(<<>>) = 0  OBVIOUS
<1>3. Range(<<>>) = {}  BY DEF Range
<1>q. QED BY <1>1, <1>2, <1>3

LEMMA Tuple1 ==
    ASSUME NEW S, NEW a \in S
    PROVE  /\ <<a>> \in Seq(S) /\ Len(<<a>>) = 1
           /\ Range(<<a>>) = {a}
           /\ <<a>>[1] = a
<1>1. <<a>> \in Seq(S)  OBVIOUS
<1>2. Len(<<a>>) = 1  OBVIOUS
<1>3. <<a>>[1] = a  OBVIOUS
<1>4. Range(<<a>>) = {<<a>>[i] : i \in 1 .. 1}  BY <1>1, <1>2, Elements
<1>5. Range(<<a>>) = {a}  BY <1>3, <1>4
<1>q. QED BY <1>1, <1>2, <1>3, <1>5

LEMMA Tuple2 ==
    ASSUME NEW S, NEW a \in S, NEW b \in S
    PROVE  /\ <<a, b>> \in Seq(S) /\ Len(<<a, b>>) = 2
           /\ Range(<<a, b>>) = {a, b}
           /\ <<a, b>>[1] = a /\ <<a, b>>[2] = b
<1>1. <<a, b>> \in Seq(S)  OBVIOUS
<1>2. Len(<<a, b>>) = 2  OBVIOUS
<1>3. <<a, b>>[1] = a /\ <<a, b>>[2] = b  OBVIOUS
<1>4. Range(<<a, b>>) = {<<a, b>>[i] : i \in 1 .. 2}  BY <1>1, <1>2, Elements
<1>5. Range(<<a, b>>) = {a, b}  BY <1>3, <1>4
<1>q. QED BY <1>1, <1>2, <1>3, <1>5

LEMMA Tuple3 ==
    ASSUME NEW S, NEW a \in S, NEW b \in S, NEW c \in S
    PROVE  /\ <<a, b, c>> \in Seq(S) /\ Len(<<a, b, c>>) = 3
           /\ Range(<<a, b, c>>) = {a, b, c}
           /\ <<a, b, c>>[1] = a /\ <<a, b, c>>[2] = b /\ <<a, b, c>>[3] = c
<1>1. <<a, b, c>> \in Seq(S)  OBVIOUS
<1>2. Len(<<a, b, c>>) = 3  OBVIOUS
<1>3. <<a, b, c>>[1] = a /\ <<a, b, c>>[2] = b /\ <<a, b, c>>[3] = c  OBVIOUS
<1>4. Range(<<a, b, c>>) = {<<a, b, c>>[i] : i \in 1 .. 3}  BY <1>1, <1>2, Elements
<1>5. Range(<<a, b, c>>) = {a, b, c}  BY <1>3, <1>4
<1>q. QED BY <1>1, <1>2, <1>3, <1>5

LEMMA Tuple4 ==
    ASSUME NEW S, NEW a \in S, NEW b \in S, NEW c \in S, NEW d \in S
    PROVE  /\ <<a, b, c, d>> \in Seq(S) /\ Len(<<a, b, c, d>>) = 4
           /\ Range(<<a, b, c, d>>) = {a, b, c, d}
           /\ <<a, b, c, d>>[1] = a /\ <<a, b, c, d>>[2] = b /\ <<a, b, c, d>>[3] = c /\ <<a, b, c, d>>[4] = d
<1>1. <<a, b, c, d>> \in Seq(S)  OBVIOUS
<1>2. Len(<<a, b, c, d>>) = 4  OBVIOUS
<1>3. <<a, b, c, d>>[1] = a /\ <<a, b, c, d>>[2] = b /\ <<a, b, c, d>>[3] = c /\ <<a, b, c, d>>[4] = d  OBVIOUS
<1>4. Range(<<a, b, c, d>>) = {<<a, b, c, d>>[i] : i \in 1 .. 4}  BY <1>1, <1>2, Elements
<1>5. Range(<<a, b, c, d>>) = {a, b, c, d}  BY <1>3, <1>4
<1>q. QED BY <1>1, <1>2, <1>3, <1>5

LEMMA Tuple5 ==
    ASSUME NEW S, NEW a \in S, NEW b \in S, NEW c \in S, NEW d \in S, NEW e \in S
    PROVE  /\ <<a, b, c, d, e>> \in Seq(S) /\ Len(<<a, b, c, d, e>>) = 5
           /\ Range(<<a, b, c, d, e>>) = {a, b, c, d, e}
           /\ <<a, b, c, d, e>>[1] = a /\ <<a, b, c, d, e>>[2] = b /\ <<a, b, c, d, e>>[3] = c /\ <<a, b, c, d, e>>[4] = d /\ <<a, b, c, d, e>>[5] = e
<1>1. <<a, b, c, d, e>> \in Seq(S)  OBVIOUS
<1>2. Len(<<a, b, c, d, e>>) = 5  OBVIOUS
<1>3. <<a, b, c, d, e>>[1] = a /\ <<a, b, c, d, e>>[2] = b /\ <<a, b, c, d, e>>[3] = c /\ <<a, b, c, d, e>>[4] = d /\ <<a, b, c, d, e>>[5] = e  OBVIOUS
<1>4. Range(<<a, b, c, d, e>>) = {<<a, b, c, d, e>>[i] : i \in 1 .. 5}  BY <1>1, <1>2, Elements
<1>5. Range(<<a, b, c, d, e>>) = {a, b, c, d, e}  BY <1>3, <1>4
<1>q. QED BY <1>1, <1>2, <1>3, <1>5

LEMMA Concatenated ==
    ASSUME NEW S, NEW one \in Seq(S), NEW two \in Seq(S)
    PROVE  /\ one \o two \in Seq(S)
           /\ Len(one \o two) = Len(one) + Len(two)
           /\ \A i \in 1 .. Len(one) : (one \o two)[i] = one[i]
           /\ \A i \in 1 .. Len(two) : (one \o two)[Len(one) + i] = two[i]
           /\ Range(one \o two) = Range(one) \cup Range(two)
<1> DEFINE both == one \o two
           m == Len(one)
           n == Len(two)
<1>1. /\ both \in Seq(S) /\ Len(both) = m + n /\ m \in Nat /\ n \in Nat
      /\ \A i \in 1 .. m + n : both[i] = IF i <= m THEN one[i] ELSE two[i - m]
  BY ConcatProperties, LenProperties
<1>2. /\ Range(both) = {both[i] : i \in 1 .. m + n}
      /\ Range(one) = {one[i] : i \in 1 .. m} /\ Range(two) = {two[i] : i \in 1 .. n}
  BY <1>1, Elements
<1> HIDE DEF both, m, n
<1>3. ASSUME NEW i \in 1 .. m PROVE both[i] = one[i] /\ i \in 1 .. m + n  BY <1>1
<1>4. ASSUME NEW i \in 1 .. n PROVE both[m + i] = two[i] /\ m + i \in 1 .. m + n
  <2>1. m + i \in 1 .. m + n /\ ~(m + i <= m) /\ (m + i) - m = i  BY <1>1
  <2>q. QED BY <1>1, <2>1
<1>5. ASSUME NEW i \in 1 .. m + n PROVE both[i] \in Range(one) \cup Range(two)
  <2>1. CASE i <= m
    <3>1. i \in 1 .. m  BY <1>1, <2>1
    <3>q. QED BY <1>2, <1>3, <3>1
  <2>2. CASE ~(i <= m)
    <3>1. i - m \in 1 .. n /\ both[i] = two[i - m]  BY <1>1, <2>2
    <3>q. QED BY <1>2, <3>1
  <2>q. QED BY <2>1, <2>2
<1>6. Range(both) = Range(one) \cup Range(two)
  <2>1. Range(both) \subseteq Range(one) \cup Range(two)  BY <1>2, <1>5
  <2>2. Range(one) \subseteq Range(both) /\ Range(two) \subseteq Range(both)
    BY <1>2, <1>3, <1>4
  <2>q. QED BY <2>1, <2>2
<1>q. QED BY <1>1, <1>3, <1>4, <1>6 DEF both, m, n

LEMMA Joined ==
    ASSUME NEW S, NEW one \in Seq(S), NEW two \in Seq(S), NEW three \in Seq(S)
    PROVE  /\ one \o two \o three \in Seq(S)
           /\ Len(one \o two \o three) = Len(one) + Len(two) + Len(three)
           /\ \A i \in 1 .. Len(one) : (one \o two \o three)[i] = one[i]
           /\ \A i \in 1 .. Len(two) : (one \o two \o three)[Len(one) + i] = two[i]
           /\ \A i \in 1 .. Len(three) : (one \o two \o three)[Len(one) + Len(two) + i] = three[i]
<1> DEFINE both == one \o two
           all  == both \o three
           k    == Len(one)
           m    == Len(two)
           n    == Len(three)
<1>1. /\ both \in Seq(S) /\ Len(both) = k + m
      /\ \A i \in 1 .. k : both[i] = one[i]
      /\ \A i \in 1 .. m : both[k + i] = two[i]
  BY Concatenated
<1>0. both \in Seq(S)  BY <1>1
<1> HIDE DEF both
<1>2. /\ all \in Seq(S) /\ Len(all) = Len(both) + n
      /\ \A i \in 1 .. Len(both) : all[i] = both[i]
      /\ \A i \in 1 .. n : all[Len(both) + i] = three[i]
  BY <1>0, Concatenated
<1>3. k \in Nat /\ m \in Nat /\ n \in Nat  BY LenProperties
<1> HIDE DEF all, k, m, n
<1>4. \A i \in 1 .. k : i \in 1 .. k + m  BY <1>3
<1>5. \A i \in 1 .. m : k + i \in 1 .. k + m  BY <1>3
<1>6. /\ \A i \in 1 .. k : all[i] = one[i]
      /\ \A i \in 1 .. m : all[k + i] = two[i]
      /\ \A i \in 1 .. n : all[k + m + i] = three[i]
      /\ Len(all) = k + m + n
  BY <1>1, <1>2, <1>4, <1>5
<1>q. QED BY <1>2, <1>6 DEF all, both, k, m, n

\* A part of a sequence.
LEMMA Cut ==
    ASSUME NEW S, NEW s \in Seq(S), NEW m \in Nat \ {0}, NEW n \in 0 .. Len(s), m <= n + 1
    PROVE  /\ SubSeq(s, m, n) \in Seq(S)
           /\ Len(SubSeq(s, m, n)) = n - m + 1
           /\ \A i \in 1 .. n - m + 1 : SubSeq(s, m, n)[i] = s[m + i - 1]
<1> DEFINE t == SubSeq(s, m, n)
<1>1. n \in Int /\ m \in Int /\ Len(s) \in Nat  BY LenProperties
<1>2. \A i \in m .. n : s[i] \in S
  <2>1. \A i \in 1 .. Len(s) : s[i] \in S  BY ElementOfSeq
  <2>q. QED BY <1>1, <2>1
<1>3. /\ t \in Seq(S)
      /\ Len(t) = IF m <= n THEN n - m + 1 ELSE 0
      /\ \A i \in 1 .. n - m + 1 : t[i] = s[m + i - 1]
  BY <1>1, <1>2, SubSeqProperties
<1> HIDE DEF t
<1>4. Len(t) = n - m + 1  BY <1>1, <1>3
<1>q. QED BY <1>3, <1>4 DEF t

\* The elements of a finite set in a row, each once.
LEMMA Listed ==
    ASSUME NEW S, IsFiniteSet(S)
    PROVE  /\ Cardinality(S) \in Nat
           /\ SetToSeq(S) \in [1 .. Cardinality(S) -> S]
           /\ \A i, j \in 1 .. Cardinality(S) : SetToSeq(S)[i] = SetToSeq(S)[j] => i = j
           /\ \A x \in S : \E i \in 1 .. Cardinality(S) : SetToSeq(S)[i] = x
<1> DEFINE n == Cardinality(S)
           list == SetToSeq(S)
<1>1. n \in Nat /\ ExistsBijection(1 .. n, S)  BY FS_CardinalityType
<1> HIDE DEF n
<1>2. \E f \in [1 .. n -> S] : IsInjective(f)
  BY <1>1 DEF ExistsBijection, Bijection, Injection
<1>3. list \in [1 .. n -> S] /\ IsInjective(list)  BY <1>2 DEF SetToSeq, n
<1> HIDE DEF list
<1>4. \A i, j \in 1 .. n : list[i] = list[j] => i = j  BY <1>3 DEF IsInjective
<1>5. ASSUME NEW x \in S PROVE \E i \in 1 .. n : list[i] = x
  <2> SUFFICES ASSUME \A i \in 1 .. n : list[i] # x PROVE FALSE  OBVIOUS
  <2>1. list \in [1 .. n -> S \ {x}]  BY <1>3
  <2>2. IsFiniteSet(S \ {x}) /\ Cardinality(S \ {x}) = n - 1
    BY FS_RemoveElement DEF n
  <2>3. IsFiniteSet(1 .. n) /\ Cardinality(1 .. n) = n  BY <1>1, FS_Interval
  <2>4. list \in Injection(1 .. n, S \ {x})  BY <1>3, <2>1 DEF Injection
  <2>5. Cardinality(1 .. n) <= Cardinality(S \ {x})
    BY <2>2, <2>3, <2>4, FS_Injection DEF ExistsInjection
  <2>q. QED BY <1>1, <2>2, <2>3, <2>5
<1>q. QED BY <1>1, <1>3, <1>4, <1>5 DEF n, list
=============================================================================
