--------------------------- MODULE SharedTheorems ---------------------------
(***************************************************************************)
(* What several proofs rest on: the list operations of exec on lists       *)
(* without duplicates, as the models use them (AddTail is Append, RemHead  *)
(* is Tail, Remove is RemoveAt), the arithmetic of ring indices,           *)
(* induction in a form that needs no operator as a parameter (the property *)
(* is a set, a recursive step a function), and sums over finite sets.      *)
(***************************************************************************)
EXTENDS Integers, Sequences, SequencesExt, SequenceTheorems, FiniteSetTheorems,
        WellFoundedInduction, TLAPS

(* The place of a node in a list after one before it was taken out. *)
LEMMA Shifted ==
  ASSUME NEW L \in Nat, NEW n \in 1 .. L, NEW i \in 1 .. L - 1, i >= n
  PROVE  i - (n - 1) \in 1 .. L - n /\ (i - (n - 1)) + n = i + 1
  OBVIOUS

(* Removing a node from a list without duplicates removes that element and keeps
   the others, each once.  Remove of exec. *)
LEMMA RemoveNode ==
  ASSUME NEW P, NEW s \in Seq(P), \A i, j \in DOMAIN s : s[i] = s[j] => i = j,
         NEW n \in DOMAIN s
  PROVE  /\ RemoveAt(s, n) \in Seq(P)
         /\ \A i, j \in DOMAIN RemoveAt(s, n) : RemoveAt(s, n)[i] = RemoveAt(s, n)[j] => i = j
         /\ \A x : (\E i \in DOMAIN RemoveAt(s, n) : RemoveAt(s, n)[i] = x)
                   <=> (\E i \in DOMAIN s : s[i] = x) /\ x # s[n]
<1> DEFINE r == RemoveAt(s, n)
           left == SubSeq(s, 1, n - 1)
           right == SubSeq(s, n + 1, Len(s))
<1>1. n \in 1 .. Len(s) /\ DOMAIN s = 1 .. Len(s) /\ Len(s) \in Nat
  OBVIOUS
<1>2. left \in Seq(P) /\ Len(left) = n - 1 /\ \A i \in 1 .. n - 1 : left[i] = s[i]
  BY <1>1
<1>3. right \in Seq(P) /\ Len(right) = Len(s) - n /\ \A i \in 1 .. Len(s) - n : right[i] = s[i + n]
  BY <1>1
<1>4. r = left \o right
  BY DEF RemoveAt
<1> HIDE DEF left, right, r
<1>5. /\ r \in Seq(P) /\ Len(r) = Len(s) - 1 /\ DOMAIN r = 1 .. Len(s) - 1
      /\ \A i \in 1 .. Len(s) - 1 :
             r[i] = IF i <= n - 1 THEN left[i] ELSE right[i - (n - 1)]
  <2>1. /\ left \o right \in Seq(P) /\ Len(left \o right) = Len(left) + Len(right)
        /\ \A i \in 1 .. Len(left) + Len(right) : (left \o right)[i] =
               IF i <= Len(left) THEN left[i] ELSE right[i - Len(left)]
    BY <1>2, <1>3, ConcatProperties
  <2>2. Len(left) = n - 1 /\ Len(right) = Len(s) - n /\ Len(left) + Len(right) = Len(s) - 1
    BY <1>1, <1>2, <1>3
  <2>3. r \in Seq(P) /\ Len(r) = Len(s) - 1
    BY <1>4, <2>1, <2>2
  <2>4. \A i \in 1 .. Len(s) - 1 : r[i] = IF i <= n - 1 THEN left[i] ELSE right[i - (n - 1)]
    BY <1>4, <2>1, <2>2
  <2>5. DOMAIN r = 1 .. Len(r)
    BY <2>3
  <2>6. DOMAIN r = 1 .. Len(s) - 1
    BY <2>3, <2>5
  <2> QED BY <2>3, <2>4, <2>6
<1>6. ASSUME NEW i \in 1 .. Len(s) - 1
      PROVE  /\ i < n => r[i] = s[i]
             /\ i >= n => r[i] = s[i + 1]
  <2>1. CASE i < n
    BY <1>1, <1>2, <1>5, <2>1
  <2>2. CASE i >= n
    <3>1. PICK k \in 1 .. Len(s) - n : k = i - (n - 1) /\ k + n = i + 1
      <4>1. i - (n - 1) \in 1 .. Len(s) - n /\ (i - (n - 1)) + n = i + 1
        BY <1>1, <2>2, Shifted
      <4> QED BY <4>1
    <3>2. r[i] = right[i - (n - 1)]
      <4>1. ~(i <= n - 1)
        BY <1>1, <2>2
      <4> QED BY <1>5, <4>1
    <3>3. right[k] = s[k + n]
      BY <1>3
    <3> QED BY <1>1, <2>2, <3>1, <3>2, <3>3
  <2> QED BY <1>1, <2>1, <2>2
<1>7. ASSUME NEW i \in DOMAIN r, NEW j \in DOMAIN r, r[i] = r[j] PROVE i = j
  <2> DEFINE from(k) == IF k < n THEN k ELSE k + 1
  <2>1. from(i) \in DOMAIN s /\ from(j) \in DOMAIN s /\ r[i] = s[from(i)] /\ r[j] = s[from(j)]
    BY <1>1, <1>5, <1>6
  <2>2. from(i) = from(j)
    BY <1>7, <2>1
  <2> QED BY <1>1, <1>5, <2>2
<1>8. ASSUME NEW x PROVE (\E i \in DOMAIN r : r[i] = x) <=> (\E i \in DOMAIN s : s[i] = x) /\ x # s[n]
  <2>1. ASSUME NEW i \in DOMAIN r, r[i] = x PROVE (\E j \in DOMAIN s : s[j] = x) /\ x # s[n]
    <3>1. PICK k \in DOMAIN s : k # n /\ s[k] = x
      <4>1. CASE i < n
        <5>1. i \in 1 .. Len(s) - 1 /\ i \in DOMAIN s /\ i # n
          BY <1>1, <1>5, <2>1, <4>1
        <5>2. r[i] = s[i]
          BY <1>6, <4>1, <5>1
        <5> QED BY <2>1, <5>1, <5>2
      <4>2. CASE i >= n
        <5>1. i + 1 \in DOMAIN s /\ i + 1 # n /\ s[i + 1] = x
          BY <1>1, <1>5, <1>6, <2>1, <4>2
        <5> QED BY <5>1
      <4> QED BY <1>1, <1>5, <4>1, <4>2
    <3> QED BY <3>1
  <2>2. ASSUME NEW j \in DOMAIN s, s[j] = x, x # s[n] PROVE \E i \in DOMAIN r : r[i] = x
    <3>1. CASE j < n
      BY <1>1, <1>5, <1>6, <2>2, <3>1
    <3>2. CASE j > n
      <4>1. j - 1 \in DOMAIN r /\ r[j - 1] = s[(j - 1) + 1]
        BY <1>1, <1>5, <1>6, <2>2, <3>2
      <4> QED BY <1>1, <2>2, <4>1
    <3> QED BY <1>1, <2>2, <3>1, <3>2
  <2> QED BY <2>1, <2>2
<1> QED BY <1>5, <1>7, <1>8 DEF r

(* Adding a new node at the tail keeps the others, each once.  AddTail of exec. *)
LEMMA AppendNode ==
  ASSUME NEW P, NEW s \in Seq(P), \A i, j \in DOMAIN s : s[i] = s[j] => i = j,
         NEW e \in P, \A i \in DOMAIN s : s[i] # e
  PROVE  /\ Append(s, e) \in Seq(P)
         /\ \A i, j \in DOMAIN Append(s, e) : Append(s, e)[i] = Append(s, e)[j] => i = j
         /\ \A x : (\E i \in DOMAIN Append(s, e) : Append(s, e)[i] = x)
                   <=> (\E i \in DOMAIN s : s[i] = x) \/ x = e
<1> DEFINE r == Append(s, e)
<1>1. /\ r \in Seq(P) /\ Len(r) = Len(s) + 1
      /\ \A i \in 1 .. Len(s) : r[i] = s[i]
      /\ r[Len(s) + 1] = e
  BY AppendProperties
<1>2. DOMAIN s = 1 .. Len(s) /\ DOMAIN r = 1 .. Len(s) + 1 /\ Len(s) \in Nat
  BY <1>1
<1> HIDE DEF r
<1>3. ASSUME NEW i \in DOMAIN r, NEW j \in DOMAIN r, r[i] = r[j] PROVE i = j
  BY <1>1, <1>2, <1>3
<1>4. ASSUME NEW x PROVE (\E i \in DOMAIN r : r[i] = x) <=> (\E i \in DOMAIN s : s[i] = x) \/ x = e
  BY <1>1, <1>2
<1> QED BY <1>1, <1>3, <1>4 DEF r

(* Taking the head leaves the others, each once.  RemHead of exec. *)
LEMMA TailNode ==
  ASSUME NEW P, NEW s \in Seq(P), \A i, j \in DOMAIN s : s[i] = s[j] => i = j, s # <<>>
  PROVE  /\ Tail(s) \in Seq(P) /\ Head(s) \in P /\ \E i \in DOMAIN s : s[i] = Head(s)
         /\ \A i, j \in DOMAIN Tail(s) : Tail(s)[i] = Tail(s)[j] => i = j
         /\ \A x : (\E i \in DOMAIN Tail(s) : Tail(s)[i] = x)
                   <=> (\E i \in DOMAIN s : s[i] = x) /\ x # Head(s)
<1> DEFINE r == Tail(s)
<1>1. /\ r \in Seq(P) /\ Len(r) = Len(s) - 1
      /\ \A i \in 1 .. Len(r) : r[i] = s[i + 1]
  BY HeadTailProperties
<1>2. DOMAIN s = 1 .. Len(s) /\ DOMAIN r = 1 .. Len(s) - 1 /\ Len(s) \in Nat /\ 1 \in DOMAIN s
  BY <1>1
<1>3. Head(s) = s[1] /\ s[1] \in P
  BY <1>2, ElementOfSeq
<1> HIDE DEF r
<1>4. ASSUME NEW i \in DOMAIN r, NEW j \in DOMAIN r, r[i] = r[j] PROVE i = j
  <2>1. i + 1 \in DOMAIN s /\ j + 1 \in DOMAIN s /\ s[i + 1] = s[j + 1]
    BY <1>1, <1>2, <1>4
  <2>2. i + 1 = j + 1
    BY <2>1
  <2> QED BY <1>2, <2>2
<1>5. ASSUME NEW x
      PROVE  (\E i \in DOMAIN r : r[i] = x) <=> (\E i \in DOMAIN s : s[i] = x) /\ x # Head(s)
  <2>1. ASSUME NEW i \in DOMAIN r, r[i] = x PROVE (\E j \in DOMAIN s : s[j] = x) /\ x # Head(s)
    <3>1. i + 1 \in DOMAIN s /\ i + 1 # 1 /\ s[i + 1] = x
      BY <1>1, <1>2, <2>1
    <3> QED BY <1>2, <1>3, <3>1
  <2>2. ASSUME NEW j \in DOMAIN s, s[j] = x, x # Head(s) PROVE \E i \in DOMAIN r : r[i] = x
    <3>1. j # 1
      BY <1>3, <2>2
    <3>2. j - 1 \in DOMAIN r /\ r[j - 1] = s[(j - 1) + 1] /\ (j - 1) + 1 = j
      BY <1>1, <1>2, <3>1
    <3> QED BY <2>2, <3>2
  <2> QED BY <2>1, <2>2
<1>6. r \in Seq(P) /\ Head(s) \in P /\ \E i \in DOMAIN s : s[i] = Head(s)
  BY <1>1, <1>2, <1>3
<1> QED BY <1>4, <1>5, <1>6 DEF r

(***************************************************************************)
(* Remainders: which slot of a ring an index stands for.                   *)
(***************************************************************************)
(* Two numbers less than n apart have different remainders by n. *)
LEMMA Apart ==
  ASSUME NEW n \in Nat \ {0}, NEW a \in Nat, NEW b \in Nat, a < b, b < a + n
  PROVE  a % n # b % n
<1> SUFFICES ASSUME a % n = b % n PROVE FALSE
  OBVIOUS
<1> DEFINE q == a \div n
           p == b \div n
           r == a % n
<1>1. /\ a = n * q + r /\ b = n * p + r
      /\ q \in Int /\ p \in Int /\ r \in 0 .. n - 1
  OBVIOUS
<1> HIDE DEF q, p, r
<1>2. b - a = n * (p - q)
  BY <1>1
<1>3. CASE p - q <= 0
  <2>1. n * (p - q) <= 0
    BY <1>1, <1>3
  <2> QED BY <1>2, <2>1
<1>4. CASE p - q >= 1
  <2>1. n * (p - q) >= n
    BY <1>1, <1>4
  <2> QED BY <1>2, <2>1
<1> QED BY <1>1, <1>3, <1>4

(* Whole rounds do not change the slot. *)
LEMMA SameRemainder ==
  ASSUME NEW n \in Nat \ {0}, NEW a \in Nat, NEW b \in Nat, NEW k \in Int, b = a + n * k
  PROVE  a % n = b % n
<1> DEFINE q == a \div n
           p == b \div n
           r == a % n
           u == b % n
<1>1. /\ a = n * q + r /\ b = n * p + u
      /\ q \in Int /\ p \in Int /\ r \in 0 .. n - 1 /\ u \in 0 .. n - 1
  OBVIOUS
<1> HIDE DEF q, p, r, u
<1>2. PICK j \in Int : j = q + k - p
  BY <1>1
<1>3. n * j = n * q + n * k - n * p
  BY <1>1, <1>2
<1>4. u - r = n * j
  BY <1>1, <1>3
<1>5. CASE j >= 1
  <2>1. n * j >= n
    BY <1>5
  <2> QED BY <1>1, <1>4, <2>1
<1>6. CASE j <= -1
  <2>1. n * j <= -n
    BY <1>6
  <2> QED BY <1>1, <1>4, <2>1
<1>7. CASE j = 0
  <2>1. u = r
    BY <1>1, <1>4, <1>7
  <2> QED BY <2>1 DEF u, r
<1> QED BY <1>2, <1>5, <1>6, <1>7

LEMMA Multiple ==
  ASSUME NEW n \in Nat \ {0}, NEW m \in Nat, m % n = 0
  PROVE  \E k \in Int : m = n * k
<1>1. m = n * (m \div n) + (m % n) /\ m \div n \in Int
  OBVIOUS
<1> QED BY <1>1

(* Moving on from a slot is moving on from the index. *)
LEMMA AddRemainder ==
  ASSUME NEW n \in Nat \ {0}, NEW a \in Nat, NEW b \in Nat
  PROVE  ((a % n) + b) % n = (a + b) % n
<1>1. PICK k \in Int : a = n * k + (a % n)
  <2>1. a = n * (a \div n) + (a % n) /\ a \div n \in Int
    OBVIOUS
  <2> QED BY <2>1
<1>2. PICK r \in Nat : r = a % n /\ r + b \in Nat /\ a + b \in Nat
  OBVIOUS
<1>3. a + b = (r + b) + n * k
  BY <1>1, <1>2
<1>4. ASSUME NEW x \in Nat, NEW y \in Nat, y = x + n * k PROVE x % n = y % n
  BY <1>4, SameRemainder
<1>5. (r + b) % n = (a + b) % n
  BY <1>2, <1>3, <1>4
<1> QED BY <1>2, <1>5

(***************************************************************************)
(* Induction.                                                              *)
(***************************************************************************)
LEMMA Least ==
  ASSUME NEW T \in SUBSET Nat, T # {}
  PROVE  \E m \in T : \A k \in T : m <= k
<1>1. PICK x \in T : \A y \in T : ~(<<y, x>> \in OpToRel(<, Nat))
  BY NatLessThanWellFounded, WFMin
<1>2. \A y \in T : ~(y < x)
  BY <1>1 DEF OpToRel
<1> QED BY <1>2

LEMMA Induction ==
  ASSUME NEW S \in SUBSET Nat, 0 \in S, \A n \in S : n + 1 \in S
  PROVE  S = Nat
<1> SUFFICES ASSUME Nat \ S # {} PROVE FALSE
  OBVIOUS
<1>1. PICK m \in Nat \ S : \A k \in Nat \ S : m <= k
  BY Least
<1>2. m - 1 \in S
  BY <1>1
<1> QED BY <1>1, <1>2

(* What holds at the start of a loop and is kept by each round holds at its end. *)
LEMMA LoopInvariant ==
  ASSUME NEW N \in Nat, NEW S, NEW f, f[0] \in S,
         \A n \in 1 .. N : f[n - 1] \in S => f[n] \in S
  PROVE  \A n \in 0 .. N : f[n] \in S
<1> DEFINE T == {n \in Nat : n <= N => f[n] \in S}
<1>1. ASSUME NEW n \in T PROVE n + 1 \in T
  <2>1. n + 1 <= N => f[(n + 1) - 1] \in S /\ n + 1 \in 1 .. N /\ (n + 1) - 1 = n
    OBVIOUS
  <2> QED BY <2>1
<1>2. T = Nat
  BY <1>1, Induction
<1> QED BY <1>2

(* A loop of N rounds has a function that gives the state after each round. *)
RoundOf(step, S, N) == \A s \in S : \A n \in 1 .. N : step[<<s, n>>] \in S
Rounds(f, N, S, base, step) == /\ f \in [0 .. N -> S] /\ f[0] = base
                               /\ \A n \in 1 .. N : f[n] = step[<<f[n - 1], n>>]

LEMMA LoopExists ==
  ASSUME NEW N \in Nat, NEW S, NEW base \in S, NEW step, RoundOf(step, S, N)
  PROVE  \E f : Rounds(f, N, S, base, step)
<1> DEFINE T == {m \in Nat : m <= N => \E f : Rounds(f, m, S, base, step)}
<1>1. 0 \in T
  <2>1. Rounds([n \in 0 .. 0 |-> base], 0, S, base, step)
    BY DEF Rounds
  <2> QED BY <2>1
<1>2. ASSUME NEW m \in T PROVE m + 1 \in T
  <2> SUFFICES ASSUME m + 1 <= N PROVE \E f : Rounds(f, m + 1, S, base, step)
    OBVIOUS
  <2>1. PICK f : Rounds(f, m, S, base, step)
    OBVIOUS
  <2>2. f[m] \in S /\ m + 1 \in 1 .. N
    BY <2>1 DEF Rounds
  <2>3. PICK next \in S : next = step[<<f[m], m + 1>>]
    BY <2>2 DEF RoundOf
  <2> DEFINE g == [n \in 0 .. m + 1 |-> IF n <= m THEN f[n] ELSE next]
  <2>4. g \in [0 .. m + 1 -> S] /\ g[0] = base
    BY <2>1 DEF Rounds
  <2>5. ASSUME NEW n \in 1 .. m + 1 PROVE g[n] = step[<<g[n - 1], n>>]
    <3>1. g[n - 1] = f[n - 1]
      OBVIOUS
    <3>2. CASE n <= m
      BY <2>1, <3>1, <3>2 DEF Rounds
    <3>3. CASE n = m + 1
      <4>1. n - 1 = m /\ ~(n <= m)
        BY <3>3
      <4>2. g[n] = next /\ g[n - 1] = f[m]
        BY <3>1, <4>1
      <4> QED BY <2>3, <3>3, <4>2
    <3> QED BY <3>2, <3>3
  <2>6. Rounds(g, m + 1, S, base, step)
    BY <2>4, <2>5 DEF Rounds
  <2> QED BY <2>6
<1>3. N \in T
  BY <1>1, <1>2, Induction
<1> QED BY <1>3

(* The largest of finitely many numbers. *)
LEMMA LargestExists ==
  ASSUME NEW N \in Nat, NEW f \in [0 .. N -> Nat]
  PROVE  \E j \in 0 .. N : \A i \in 0 .. N : f[i] <= f[j]
<1> DEFINE T == {m \in Nat : m <= N => \E j \in 0 .. m : \A i \in 0 .. m : f[i] <= f[j]}
<1>1. 0 \in T
  OBVIOUS
<1>2. ASSUME NEW m \in T PROVE m + 1 \in T
  <2> SUFFICES ASSUME m + 1 <= N PROVE \E j \in 0 .. m + 1 : \A i \in 0 .. m + 1 : f[i] <= f[j]
    OBVIOUS
  <2>1. PICK j \in 0 .. m : \A i \in 0 .. m : f[i] <= f[j]
    OBVIOUS
  <2>2. CASE f[m + 1] <= f[j]
    BY <2>1, <2>2
  <2>3. CASE f[j] <= f[m + 1]
    <3>1. ASSUME NEW i \in 0 .. m + 1 PROVE f[i] <= f[m + 1]
      BY <2>1, <2>3
    <3> QED BY <3>1
  <2> QED BY <2>2, <2>3
<1>3. N \in T
  BY <1>1, <1>2, Induction
<1> QED BY <1>3

(***************************************************************************)
(* Sums over finite sets.  SumFunctionOnSet takes the elements in an order *)
(* CHOOSE picks; the sum does not depend on it.                            *)
(***************************************************************************)
(* Induction over the subsets of a finite set; the property is a set of sets. *)
LEMMA SubsetInduction ==
  ASSUME NEW S, IsFiniteSet(S), NEW P, {} \in P,
         \A T \in SUBSET S : T # {} /\ (\A x \in T : T \ {x} \in P) => T \in P
  PROVE  \A T \in SUBSET S : T \in P
<1> DEFINE N == {n \in Nat : \A T \in SUBSET S : Cardinality(T) = n => T \in P}
<1>a. ASSUME NEW T \in SUBSET S PROVE IsFiniteSet(T) /\ Cardinality(T) \in Nat
  BY FS_Subset, FS_CardinalityType
<1>1. 0 \in N
  <2>1. ASSUME NEW T \in SUBSET S, Cardinality(T) = 0 PROVE T = {}
    BY <1>a, <2>1, FS_EmptySet
  <2> QED BY <2>1
<1>2. ASSUME NEW n \in N PROVE n + 1 \in N
  <2>1. ASSUME NEW T \in SUBSET S, Cardinality(T) = n + 1 PROVE T \in P
    <3>1. T # {}
      BY <1>a, <2>1, FS_EmptySet
    <3>2. ASSUME NEW x \in T PROVE T \ {x} \in P
      <4>1. Cardinality(T \ {x}) = (n + 1) - 1
        BY <1>a, <2>1, FS_RemoveElement
      <4>2. (n + 1) - 1 = n /\ T \ {x} \in SUBSET S
        OBVIOUS
      <4> QED BY <4>1, <4>2
    <3> QED BY <3>1, <3>2
  <2> QED BY <2>1
<1> HIDE DEF N
<1>3. N = Nat
  <2>1. N \in SUBSET Nat
    BY DEF N
  <2> QED BY <1>1, <1>2, <2>1, Induction
<1>4. ASSUME NEW T \in SUBSET S PROVE T \in P
  <2>1. Cardinality(T) \in N
    BY <1>a, <1>3
  <2> QED BY <2>1 DEF N
<1> QED BY <1>4

(* The sums of f over all the subsets of S, as SumFunctionOnSet computes them. *)
Pick(T) == CHOOSE x \in T : TRUE
IsSums(it, f, S) == it = [T \in SUBSET S |-> IF T = {} THEN 0 ELSE f[Pick(T)] + it[T \ {Pick(T)}]]

LEMMA SumIs ==
  ASSUME NEW f, NEW S, NEW it, IsSums(it, f, S),
         \A other : IsSums(other, f, S) => other[S] = it[S]
  PROVE  SumFunctionOnSet(f, S) = it[S]
<1>1. PICK a : a = CHOOSE b : IsSums(b, f, S)
  OBVIOUS
<1>2. IsSums(a, f, S)
  BY <1>1
<1>3. SumFunctionOnSet(f, S) = a[S]
  BY <1>1 DEF SumFunctionOnSet, FoldFunctionOnSet, MapThenFoldSet, IsSums, Pick
<1> QED BY <1>2, <1>3

LEMMA Picked == ASSUME NEW T, T # {} PROVE Pick(T) \in T
  BY DEF Pick

LEMMA SumsStep ==
  ASSUME NEW f, NEW S, NEW it, IsSums(it, f, S), NEW T \in SUBSET S
  PROVE  it[T] = IF T = {} THEN 0 ELSE f[Pick(T)] + it[T \ {Pick(T)}]
  BY DEF IsSums

LEMMA SumsAgree ==
  ASSUME NEW f, NEW S, NEW R, IsFiniteSet(S), NEW a, IsSums(a, f, S), NEW b, IsSums(b, f, R),
         NEW U \in SUBSET S, U \subseteq R
  PROVE  a[U] = b[U]
<1> DEFINE P == {T \in SUBSET U : a[T] = b[T]}
<1>1. IsFiniteSet(U)
  BY FS_Subset
<1>2. {} \in P
  BY SumsStep
<1>3. ASSUME NEW T \in SUBSET U, T # {}, \A x \in T : T \ {x} \in P PROVE T \in P
  <2>1. Pick(T) \in T
    BY <1>3, Picked
  <2>2. a[T \ {Pick(T)}] = b[T \ {Pick(T)}]
    BY <1>3, <2>1
  <2>3. a[T] = f[Pick(T)] + a[T \ {Pick(T)}]
    BY <1>3, SumsStep
  <2>4. b[T] = f[Pick(T)] + b[T \ {Pick(T)}]
    BY <1>3, SumsStep
  <2> QED BY <2>2, <2>3, <2>4
<1>4. U \in P
  <2> HIDE DEF P
  <2> QED BY <1>1, <1>2, <1>3, SubsetInduction
<1> QED BY <1>4

LEMMA SumsExist ==
  ASSUME NEW f, NEW S, IsFiniteSet(S)
  PROVE  \E it : IsSums(it, f, S)
<1> DEFINE P == {T \in SUBSET S : \E it : IsSums(it, f, T)}
<1>1. {} \in P
  <2>1. IsSums([T \in SUBSET {} |-> 0], f, {})
    BY DEF IsSums
  <2> QED BY <2>1
<1>2. ASSUME NEW T \in SUBSET S, T # {}, \A x \in T : T \ {x} \in P PROVE T \in P
  <2> DEFINE part(x) == CHOOSE it : IsSums(it, f, T \ {x})
             g == [U \in SUBSET T |->
                     IF U = T THEN f[Pick(T)] + part(Pick(T))[T \ {Pick(T)}]
                     ELSE part(Pick(T \ U))[U]]
  <2>1. ASSUME NEW x \in T PROVE IsSums(part(x), f, T \ {x})
    BY <1>2
  <2>2. ASSUME NEW U \in SUBSET T, U # T, NEW x \in T \ U PROVE g[U] = part(x)[U]
    <3>1. Pick(T \ U) \in T \ U
      BY <2>2, Picked
    <3>2. IsFiniteSet(T \ {x})
      BY FS_Subset
    <3>3. U \subseteq T \ {x} /\ U \subseteq T \ {Pick(T \ U)}
      BY <3>1
    <3>4. part(x)[U] = part(Pick(T \ U))[U]
      <4>1. PICK a, b, A, B : /\ a = part(x) /\ b = part(Pick(T \ U))
                              /\ A = T \ {x} /\ B = T \ {Pick(T \ U)}
        OBVIOUS
      <4>2. IsSums(a, f, A) /\ IsSums(b, f, B) /\ U \in SUBSET A /\ U \subseteq B /\ IsFiniteSet(A)
        BY <2>1, <3>1, <3>2, <3>3, <4>1
      <4>3. a[U] = b[U]
        BY <4>2, SumsAgree
      <4> QED BY <4>1, <4>3
    <3> QED BY <2>2, <3>4
  <2> HIDE DEF part
  <2>3. ASSUME NEW U \in SUBSET T
        PROVE  g[U] = IF U = {} THEN 0 ELSE f[Pick(U)] + g[U \ {Pick(U)}]
    <3>1. CASE U = T
      <4>1. Pick(T) \in T
        BY <1>2, Picked
      <4>2. g[T \ {Pick(T)}] = part(Pick(T))[T \ {Pick(T)}]
        BY <2>2, <4>1
      <4>3. g[T] = f[Pick(T)] + part(Pick(T))[T \ {Pick(T)}]
        OBVIOUS
      <4> HIDE DEF g
      <4> QED BY <1>2, <3>1, <4>2, <4>3
    <3>2. CASE U # T
      <4>1. PICK x \in T : x \notin U
        BY <3>2
      <4>2. g[U] = part(x)[U]
        BY <2>2, <3>2, <4>1
      <4>3. part(x)[U] = IF U = {} THEN 0 ELSE f[Pick(U)] + part(x)[U \ {Pick(U)}]
        <5>1. PICK a, A : a = part(x) /\ A = T \ {x}
          OBVIOUS
        <5>2. U \in SUBSET A /\ IsSums(a, f, A)
          BY <2>1, <4>1, <5>1
        <5>3. a[U] = IF U = {} THEN 0 ELSE f[Pick(U)] + a[U \ {Pick(U)}]
          BY <5>2, SumsStep
        <5> QED BY <5>1, <5>3
      <4>4. g[U \ {Pick(U)}] = part(x)[U \ {Pick(U)}]
        <5>1. U \ {Pick(U)} # T /\ U \ {Pick(U)} \in SUBSET T /\ x \in T \ (U \ {Pick(U)})
          BY <4>1
        <5> QED BY <2>2, <5>1
      <4> HIDE DEF g
      <4> QED BY <4>2, <4>3, <4>4
    <3> QED BY <3>1, <3>2
  <2>4. g = [U \in SUBSET T |-> IF U = {} THEN 0 ELSE f[Pick(U)] + g[U \ {Pick(U)}]]
    <3>1. DOMAIN g = SUBSET T /\ g = [U \in SUBSET T |-> g[U]]
      OBVIOUS
    <3> HIDE DEF g
    <3> QED BY <2>3, <3>1
  <2>5. IsSums(g, f, T)
    <3> HIDE DEF g
    <3> QED BY <2>4 DEF IsSums
  <2> QED BY <2>5
<1> HIDE DEF P
<1>3. \A T \in SUBSET S : T \in P
  BY <1>1, <1>2, SubsetInduction
<1>4. S \in P
  BY <1>3
<1> QED BY <1>4 DEF P

(* What the sums over the subsets of S are, in the order of Pick. *)
SumTable(it, f, S) ==
    /\ it[{}] = 0
    /\ \A T \in SUBSET S : T # {} => \E p \in T : p = Pick(T) /\ it[T] = f[p] + it[T \ {p}]
    /\ \A T \in SUBSET S : SumFunctionOnSet(f, T) = it[T]

LEMMA SumValue == ASSUME NEW f, NEW S, IsFiniteSet(S) PROVE \E it : SumTable(it, f, S)
<1>1. PICK it : IsSums(it, f, S)
  BY SumsExist
<1>2. ASSUME NEW T \in SUBSET S PROVE SumFunctionOnSet(f, T) = it[T]
  <2>1. IsFiniteSet(T)
    BY FS_Subset
  <2>2. PICK a : IsSums(a, f, T)
    BY <2>1, SumsExist
  <2>3. \A b : IsSums(b, f, T) => b[T] = a[T]
    BY <2>1, <2>2, SumsAgree
  <2>4. SumFunctionOnSet(f, T) = a[T]
    BY <2>2, <2>3, SumIs
  <2>5. a[T] = it[T]
    <3>1. T \in SUBSET T /\ T \subseteq S
      OBVIOUS
    <3> QED BY <1>1, <2>1, <2>2, <3>1, SumsAgree
  <2> QED BY <2>4, <2>5
<1>3. it[{}] = 0
  BY <1>1, SumsStep
<1>4. ASSUME NEW T \in SUBSET S, T # {} PROVE \E p \in T : p = Pick(T) /\ it[T] = f[p] + it[T \ {p}]
  <2>1. Pick(T) \in T
    BY <1>4, Picked
  <2>2. it[T] = f[Pick(T)] + it[T \ {Pick(T)}]
    BY <1>1, <1>4, SumsStep
  <2> QED BY <2>1, <2>2
<1>5. SumTable(it, f, S)
  BY <1>2, <1>3, <1>4 DEF SumTable
<1> QED BY <1>5

LEMMA SumEmpty == ASSUME NEW f PROVE SumFunctionOnSet(f, {}) = 0
<1>1. PICK it : SumTable(it, f, {})
  BY FS_EmptySet, SumValue
<1> QED BY <1>1 DEF SumTable

(* An element taken out of the sum, whichever it is. *)
LEMMA SumElement ==
  ASSUME NEW S, IsFiniteSet(S), NEW f, \A x \in S : f[x] \in Int
  PROVE  /\ SumFunctionOnSet(f, S) \in Int
         /\ \A x \in S : SumFunctionOnSet(f, S) = f[x] + SumFunctionOnSet(f, S \ {x})
<1>1. PICK it : SumTable(it, f, S)
  BY SumValue
<1> DEFINE P == {T \in SUBSET S : /\ it[T] \in Int
                                  /\ \A y \in T : it[T \ {y}] \in Int /\ it[T] = f[y] + it[T \ {y}]}
<1>2. {} \in P
  BY <1>1 DEF SumTable
<1>3. ASSUME NEW T \in SUBSET S, T # {}, \A x \in T : T \ {x} \in P PROVE T \in P
  <2>2. PICK p \in T : it[T] = f[p] + it[T \ {p}]
    BY <1>1, <1>3 DEF SumTable
  <2>3. \A y \in T : it[T \ {y}] \in Int
    BY <1>3
  <2>4. it[T] \in Int
    <3>1. f[p] \in Int /\ it[T \ {p}] \in Int
      BY <2>3
    <3> QED BY <2>2, <3>1
  <2>5. ASSUME NEW y \in T PROVE it[T] = f[y] + it[T \ {y}]
    <3>1. CASE y = p
      BY <2>2, <3>1
    <3>2. CASE y # p
      <4>1. PICK R : R = (T \ {p}) \ {y} /\ R = (T \ {y}) \ {p}
        OBVIOUS
      <4>2. it[T \ {p}] = f[y] + it[R] /\ it[R] \in Int
        BY <1>3, <3>2, <4>1
      <4>3. it[T \ {y}] = f[p] + it[R]
        BY <1>3, <3>2, <4>1
      <4>4. f[y] \in Int /\ f[p] \in Int
        OBVIOUS
      <4> QED BY <2>2, <4>2, <4>3, <4>4
    <3> QED BY <3>1, <3>2
  <2> QED BY <2>3, <2>4, <2>5
<1>4. S \in P
  <2> HIDE DEF P
  <2> QED BY <1>2, <1>3, SubsetInduction
<1> QED BY <1>1, <1>4 DEF SumTable

LEMMA SumUpTo ==
  ASSUME NEW n \in Nat, NEW f, \A i \in 1 .. n + 1 : f[i] \in Int
  PROVE  SumFunctionOnSet(f, 1 .. n + 1) = f[n + 1] + SumFunctionOnSet(f, 1 .. n)
<1> DEFINE S == 1 .. n + 1
<1>1. IsFiniteSet(S) /\ n + 1 \in S /\ S \ {n + 1} = 1 .. n
  BY FS_Interval
<1>2. \A x \in S : f[x] \in Int
  OBVIOUS
<1> HIDE DEF S
<1>3. SumFunctionOnSet(f, S) = f[n + 1] + SumFunctionOnSet(f, S \ {n + 1})
  BY <1>1, <1>2, SumElement
<1> QED BY <1>1, <1>3 DEF S

(* Only the values on the set matter. *)
LEMMA SumSame ==
  ASSUME NEW S, IsFiniteSet(S), NEW f, NEW g, \A x \in S : f[x] = g[x]
  PROVE  SumFunctionOnSet(f, S) = SumFunctionOnSet(g, S)
<1>1. PICK a : SumTable(a, f, S)
  BY SumValue
<1>2. PICK b : SumTable(b, g, S)
  BY SumValue
<1> DEFINE P == {T \in SUBSET S : a[T] = b[T]}
<1>3. {} \in P
  BY <1>1, <1>2 DEF SumTable
<1>4. ASSUME NEW T \in SUBSET S, T # {}, \A x \in T : T \ {x} \in P PROVE T \in P
  <2>1. PICK p \in T : p = Pick(T)
    BY <1>4, Picked
  <2>2. a[T] = f[p] + a[T \ {p}]
    BY <1>1, <1>4, <2>1 DEF SumTable
  <2>4. b[T] = g[p] + b[T \ {p}]
    BY <1>2, <1>4, <2>1 DEF SumTable
  <2>3. a[T \ {p}] = b[T \ {p}]
    BY <1>4
  <2> QED BY <2>2, <2>3, <2>4
<1>5. S \in P
  <2> HIDE DEF P
  <2> QED BY <1>3, <1>4, SubsetInduction
<1> QED BY <1>1, <1>2, <1>5 DEF SumTable

(* One value changed. *)
LEMMA SumChanged ==
  ASSUME NEW S, IsFiniteSet(S), NEW f, NEW g, NEW x \in S,
         \A y \in S : f[y] \in Int /\ g[y] \in Int,
         \A y \in S \ {x} : f[y] = g[y]
  PROVE  SumFunctionOnSet(g, S) = SumFunctionOnSet(f, S) - f[x] + g[x]
<1>1. IsFiniteSet(S \ {x})
  BY FS_Subset
<1>2. SumFunctionOnSet(f, S \ {x}) = SumFunctionOnSet(g, S \ {x})
  BY <1>1, SumSame
<1>3. SumFunctionOnSet(f, S) = f[x] + SumFunctionOnSet(f, S \ {x})
  BY SumElement
<1>4. SumFunctionOnSet(g, S) = g[x] + SumFunctionOnSet(g, S \ {x})
  BY SumElement
<1>5. SumFunctionOnSet(f, S \ {x}) \in Int
  BY <1>1, SumElement
<1> QED BY <1>2, <1>3, <1>4, <1>5

(* A sum of natural numbers is one, and grows with the set. *)
LEMMA SumGrows ==
  ASSUME NEW S, IsFiniteSet(S), NEW f, \A x \in S : f[x] \in Nat, NEW T \in SUBSET S
  PROVE  /\ SumFunctionOnSet(f, T) \in Nat /\ SumFunctionOnSet(f, S) \in Nat
         /\ SumFunctionOnSet(f, T) <= SumFunctionOnSet(f, S)
<1> DEFINE P == {U \in SUBSET S : /\ SumFunctionOnSet(f, U) \in Nat
                                  /\ \A V \in SUBSET U :
                                        SumFunctionOnSet(f, V) \in Nat
                                        /\ SumFunctionOnSet(f, V) <= SumFunctionOnSet(f, U)}
<1>1. {} \in P
  BY SumEmpty
<1>2. ASSUME NEW U \in SUBSET S, U # {}, \A x \in U : U \ {x} \in P PROVE U \in P
  <2>1. ASSUME NEW x \in U
        PROVE  /\ SumFunctionOnSet(f, U) = f[x] + SumFunctionOnSet(f, U \ {x})
               /\ SumFunctionOnSet(f, U \ {x}) \in Nat
    <3>1. IsFiniteSet(U) /\ \A y \in U : f[y] \in Int
      BY FS_Subset
    <3> QED BY <1>2, <3>1, SumElement
  <2>2. SumFunctionOnSet(f, U) \in Nat
    <3>1. PICK x \in U : f[x] \in Nat
      BY <1>2
    <3>2. /\ SumFunctionOnSet(f, U) = f[x] + SumFunctionOnSet(f, U \ {x})
          /\ SumFunctionOnSet(f, U \ {x}) \in Nat
      BY <2>1
    <3> HIDE DEF P
    <3> QED BY <3>1, <3>2
  <2>3. ASSUME NEW V \in SUBSET U
        PROVE  SumFunctionOnSet(f, V) \in Nat /\ SumFunctionOnSet(f, V) <= SumFunctionOnSet(f, U)
    <3>1. CASE V = U
      BY <2>2, <3>1
    <3>2. CASE V # U
      <4>1. PICK x \in U : x \notin V
        BY <3>2
      <4>2. V \in SUBSET (U \ {x}) /\ f[x] \in Nat /\ U \ {x} \in P
        BY <1>2, <4>1
      <4>3. SumFunctionOnSet(f, V) \in Nat /\ SumFunctionOnSet(f, V) <= SumFunctionOnSet(f, U \ {x})
        BY <4>2
      <4> QED BY <2>1, <4>2, <4>3
    <3> QED BY <3>1, <3>2
  <2> QED BY <2>2, <2>3
<1>3. S \in P
  <2> HIDE DEF P
  <2> QED BY <1>1, <1>2, SubsetInduction
<1> QED BY <1>3

(* A sum of zeros. *)
LEMMA SumZero ==
  ASSUME NEW S, IsFiniteSet(S), NEW f, \A x \in S : f[x] = 0
  PROVE  SumFunctionOnSet(f, S) = 0
<1> DEFINE P == {U \in SUBSET S : SumFunctionOnSet(f, U) = 0}
<1>1. {} \in P
  BY SumEmpty
<1>2. ASSUME NEW U \in SUBSET S, U # {}, \A x \in U : U \ {x} \in P PROVE U \in P
  <2>1. PICK p \in U : TRUE
    BY <1>2
  <2>2. IsFiniteSet(U) /\ \A x \in U : f[x] \in Int
    BY FS_Subset
  <2>3. SumFunctionOnSet(f, U) = f[p] + SumFunctionOnSet(f, U \ {p})
    BY <2>2, SumElement
  <2> QED BY <1>2, <2>3
<1>3. S \in P
  <2> HIDE DEF P
  <2> QED BY <1>1, <1>2, SubsetInduction
<1> QED BY <1>3

(* The same values under other names. *)
LEMMA SumRenamed ==
  ASSUME NEW S, IsFiniteSet(S), NEW h, \A x, y \in S : h[x] = h[y] => x = y,
         NEW f, NEW g, \A x \in S : g[x] = f[h[x]] /\ g[x] \in Int
  PROVE  SumFunctionOnSet(g, S) = SumFunctionOnSet(f, {h[x] : x \in S})
<1> DEFINE P == {U \in SUBSET S : SumFunctionOnSet(g, U) = SumFunctionOnSet(f, {h[x] : x \in U})}
<1>1. {} \in P
  <2>1. {h[x] : x \in {}} = {}
    OBVIOUS
  <2> QED BY <2>1, SumEmpty
<1>2. ASSUME NEW U \in SUBSET S, U # {}, \A x \in U : U \ {x} \in P PROVE U \in P
  <2>1. PICK p \in U : TRUE
    BY <1>2
  <2> DEFINE I == {h[x] : x \in U}
  <2>2. IsFiniteSet(U)
    BY FS_Subset
  <2>3. IsFiniteSet(I)
    <3> DEFINE k == [x \in U |-> h[x]]
    <3>1. k \in Surjection(U, I)
      BY DEF Surjection
    <3> HIDE DEF k, I
    <3> QED BY <2>2, <3>1, FS_Surjection
  <2>4. I \ {h[p]} = {h[x] : x \in U \ {p}}
    OBVIOUS
  <2>5. \A z \in I : f[z] \in Int
    OBVIOUS
  <2>6. SumFunctionOnSet(f, I) = f[h[p]] + SumFunctionOnSet(f, I \ {h[p]})
    <3>1. h[p] \in I
      OBVIOUS
    <3> HIDE DEF I
    <3> QED BY <2>3, <2>5, <3>1, SumElement
  <2>7. SumFunctionOnSet(g, U) = g[p] + SumFunctionOnSet(g, U \ {p})
    BY <2>2, SumElement
  <2>8. SumFunctionOnSet(g, U \ {p}) = SumFunctionOnSet(f, I \ {h[p]})
    BY <1>2, <2>4
  <2> QED BY <2>6, <2>7, <2>8
<1>3. S \in P
  <2> HIDE DEF P
  <2> QED BY <1>1, <1>2, SubsetInduction
<1> QED BY <1>3
=============================================================================
