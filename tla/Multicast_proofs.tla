-------------------------- MODULE Multicast_proofs --------------------------
(***************************************************************************)
(* Multicast membership and the receive filter, for any stacks, addresses, *)
(* ranges and size of the MDF filter.                                      *)
(***************************************************************************)
EXTENDS Multicast, SharedTheorems

(***************************************************************************)
(* The list: where a range is on it.                                       *)
(***************************************************************************)
Records == [range : Ranges, useCount : 1 .. MaxUses]
Distinct(list) == \A i, j \in DOMAIN list : list[i].range = list[j].range => i = j
Listing(list) == {list[i].range : i \in DOMAIN list}

LEMMA MinimumIn ==
  ASSUME NEW I \in SUBSET Nat, I # {}
  PROVE  Min(I) \in I
<1>1. \E x \in I : \A y \in I : x =< y
  BY Least
<1> QED BY <1>1 DEF Min

LEMMA Found ==
  ASSUME multicastRanges \in Seq(Records), Distinct(multicastRanges), NEW r
  PROVE  /\ Find(r) = 0 <=> r \notin Listing(multicastRanges)
         /\ Find(r) # 0 => /\ Find(r) \in DOMAIN multicastRanges
                           /\ multicastRanges[Find(r)].range = r
         /\ \A i \in DOMAIN multicastRanges : multicastRanges[i].range = r => Find(r) = i
<1> DEFINE I == {i \in 1 .. Len(multicastRanges) : multicastRanges[i].range = r}
<1>1. Find(r) = IF I # {} THEN Min(I) ELSE 0
  BY DEF Find, SelectInSeq
<1>2. DOMAIN multicastRanges = 1 .. Len(multicastRanges)
  OBVIOUS
<1>3. I # {} => Min(I) \in I
  <2>1. I \in SUBSET Nat
    BY DEF I
  <2> HIDE DEF I
  <2> QED BY <2>1, MinimumIn
<1>4. CASE I = {}
  BY <1>1, <1>2, <1>4 DEF Listing
<1>5. CASE I # {}
  <2>1. Find(r) \in I
    BY <1>1, <1>3, <1>5
  <2>2. Find(r) \in DOMAIN multicastRanges /\ multicastRanges[Find(r)].range = r /\ Find(r) # 0
    BY <1>2, <2>1
  <2> QED BY <2>2 DEF Listing, Distinct
<1> QED BY <1>4, <1>5

(* Counting a use, registering a range and dropping one. *)
WithUses(list, i, n) == [list EXCEPT ![i].useCount = n]
WithRange(list, e) == <<e>> \o list

LEMMA Counted ==
  ASSUME NEW list \in Seq(Records), Distinct(list), NEW i \in DOMAIN list, NEW n \in 1 .. MaxUses,
         NEW new, new = WithUses(list, i, n)
  PROVE  /\ new \in Seq(Records) /\ Distinct(new) /\ Listing(new) = Listing(list)
         /\ DOMAIN new = DOMAIN list
         /\ \A j \in DOMAIN list : new[j].range = list[j].range
         /\ new[i].useCount = n
         /\ \A j \in DOMAIN list : j # i => new[j] = list[j]
<1>1. list[i] \in Records
  OBVIOUS
<1>2. PICK e \in Records : e = [list[i] EXCEPT !.useCount = n] /\ e.range = list[i].range /\ e.useCount = n
  <2>1. PICK a \in Records : a = list[i]
    BY <1>1
  <2>2. [a EXCEPT !.useCount = n] \in Records
    BY DEF Records
  <2>3. [a EXCEPT !.useCount = n].range = a.range /\ [a EXCEPT !.useCount = n].useCount = n
    BY DEF Records
  <2> QED BY <2>1, <2>2, <2>3
<1>3. new = [list EXCEPT ![i] = e]
  BY <1>2 DEF WithUses
<1>4. /\ DOMAIN new = DOMAIN list /\ new[i] = e /\ new \in Seq(Records)
      /\ \A j \in DOMAIN list : j # i => new[j] = list[j]
  BY <1>3
<1>5. \A j \in DOMAIN list : new[j].range = list[j].range
  BY <1>2, <1>4
<1>6. Distinct(new)
  BY <1>4, <1>5 DEF Distinct
<1>7. Listing(new) = Listing(list)
  <2>1. ASSUME NEW r PROVE r \in Listing(new) <=> r \in Listing(list)
    BY <1>4, <1>5 DEF Listing
  <2> QED BY <2>1
<1> QED BY <1>2, <1>4, <1>5, <1>6, <1>7

LEMMA Registered ==
  ASSUME NEW list \in Seq(Records), Distinct(list), NEW e \in Records, e.range \notin Listing(list),
         NEW new, new = WithRange(list, e)
  PROVE  /\ new \in Seq(Records) /\ Distinct(new) /\ Listing(new) = Listing(list) \cup {e.range}
         /\ 1 \in DOMAIN new /\ new[1] = e
         /\ \A i \in DOMAIN list : i + 1 \in DOMAIN new /\ new[i + 1] = list[i]
<1>0. new = <<e>> \o list
  BY DEF WithRange
<1>1. /\ new \in Seq(Records) /\ Len(new) = Len(list) + 1 /\ DOMAIN new = 1 .. Len(list) + 1
      /\ DOMAIN list = 1 .. Len(list) /\ Len(list) \in Nat
  BY <1>0
<1>2. new[1] = e /\ \A i \in 1 .. Len(list) : new[i + 1] = list[i]
  BY <1>0
<1>3. \A j \in DOMAIN new : j = 1 \/ (j - 1 \in DOMAIN list /\ new[j] = list[j - 1])
  <2>1. ASSUME NEW j \in DOMAIN new, j # 1 PROVE j - 1 \in DOMAIN list /\ new[j] = list[j - 1]
    <3>1. j - 1 \in 1 .. Len(list) /\ (j - 1) + 1 = j
      BY <1>1, <2>1
    <3> QED BY <1>1, <1>2, <3>1
  <2> QED BY <2>1
<1>4. Distinct(new)
  <2>1. ASSUME NEW i \in DOMAIN new, NEW j \in DOMAIN new, new[i].range = new[j].range, i # 1, j # 1
        PROVE  i = j
    <3>1. i - 1 = j - 1
      BY <1>3, <2>1 DEF Distinct
    <3> QED BY <1>1, <3>1
  <2>2. ASSUME NEW j \in DOMAIN new, new[j].range = e.range PROVE j = 1
    BY <1>3, <2>2 DEF Listing
  <2> QED BY <1>2, <2>1, <2>2 DEF Distinct
<1>5. Listing(new) = Listing(list) \cup {e.range}
  <2>1. ASSUME NEW j \in DOMAIN new PROVE new[j].range \in Listing(list) \cup {e.range}
    BY <1>2, <1>3 DEF Listing
  <2>2. ASSUME NEW i \in DOMAIN list PROVE list[i].range \in Listing(new)
    <3>1. i + 1 \in DOMAIN new /\ new[i + 1] = list[i]
      BY <1>1, <1>2
    <3> QED BY <3>1 DEF Listing
  <2>3. e.range \in Listing(new)
    <3>1. 1 \in DOMAIN new /\ new[1].range = e.range
      BY <1>1, <1>2
    <3> QED BY <3>1 DEF Listing
  <2> QED BY <2>1, <2>2, <2>3 DEF Listing
<1> QED BY <1>1, <1>2, <1>4, <1>5

LEMMA Dropped ==
  ASSUME NEW list \in Seq(Records), Distinct(list), NEW n \in DOMAIN list,
         NEW new, new = RemoveAt(list, n)
  PROVE  /\ new \in Seq(Records) /\ Distinct(new) /\ Listing(new) = Listing(list) \ {list[n].range}
         /\ \A i \in DOMAIN list : i # n => \E j \in DOMAIN new : new[j] = list[i]
<1>1. \A i, j \in DOMAIN list : list[i] = list[j] => i = j
  BY DEF Distinct
<1>2. /\ new \in Seq(Records)
      /\ \A i, j \in DOMAIN new : new[i] = new[j] => i = j
      /\ \A x : (\E i \in DOMAIN new : new[i] = x) <=> (\E i \in DOMAIN list : list[i] = x) /\ x # list[n]
  <2>1. /\ RemoveAt(list, n) \in Seq(Records)
        /\ \A i, j \in DOMAIN RemoveAt(list, n) : RemoveAt(list, n)[i] = RemoveAt(list, n)[j] => i = j
        /\ \A x : (\E i \in DOMAIN RemoveAt(list, n) : RemoveAt(list, n)[i] = x)
                  <=> (\E i \in DOMAIN list : list[i] = x) /\ x # list[n]
    BY <1>1, RemoveNode
  <2> QED BY <2>1
<1>3. ASSUME NEW j \in DOMAIN new PROVE \E i \in DOMAIN list : new[j] = list[i] /\ i # n
  <2>1. PICK x : x = new[j]
    OBVIOUS
  <2>2. \E i \in DOMAIN new : new[i] = x
    BY <2>1
  <2>3. (\E i \in DOMAIN list : list[i] = x) /\ x # list[n]
    BY <1>2, <2>2
  <2> QED BY <2>1, <2>3
<1>4. \A i \in DOMAIN list : i # n => \E j \in DOMAIN new : new[j] = list[i]
  BY <1>1, <1>2
<1>5. Distinct(new)
  <2>1. ASSUME NEW i \in DOMAIN new, NEW j \in DOMAIN new, new[i].range = new[j].range PROVE i = j
    <3>1. PICK a \in DOMAIN list : new[i] = list[a]
      BY <1>3
    <3>2. PICK b \in DOMAIN list : new[j] = list[b]
      BY <1>3
    <3>3. a = b
      BY <2>1, <3>1, <3>2 DEF Distinct
    <3> QED BY <1>2, <3>1, <3>2, <3>3
  <2> QED BY <2>1 DEF Distinct
<1>6. Listing(new) = Listing(list) \ {list[n].range}
  <2>1. ASSUME NEW j \in DOMAIN new PROVE new[j].range \in Listing(list) \ {list[n].range}
    BY <1>3 DEF Listing, Distinct
  <2>2. ASSUME NEW i \in DOMAIN list, i # n PROVE list[i].range \in Listing(new)
    BY <1>4, <2>2 DEF Listing
  <2> QED BY <2>1, <2>2 DEF Listing
<1> QED BY <1>2, <1>4, <1>5, <1>6

(***************************************************************************)
(* What the stacks hold of a range.                                        *)
(***************************************************************************)
Holding == [Stacks -> [Ranges -> Nat]]
Of(h, r) == [s \in Stacks |-> h[s][r]]
Regs(h, r) == SumFunctionOnSet(Of(h, r), Stacks)

LEMMA RegsNat ==
  ASSUME NEW h \in Holding, NEW r \in Ranges
  PROVE  /\ Regs(h, r) \in Nat /\ \A s \in Stacks : h[s][r] <= Regs(h, r)
         /\ SumFunction(Of(h, r)) = Regs(h, r)
<1> DEFINE f == Of(h, r)
<1>1. \A s \in Stacks : f[s] = h[s][r] /\ f[s] \in Nat
  BY DEF Of, Holding
<1>2. DOMAIN f = Stacks
  BY DEF Of
<1> HIDE DEF f
<1>3. IsFiniteSet(Stacks)
  BY AddressAssumption
<1>4. SumFunctionOnSet(f, Stacks) \in Nat
  BY <1>1, <1>3, SumGrows
<1>5. ASSUME NEW s \in Stacks PROVE f[s] <= SumFunctionOnSet(f, Stacks)
  <2>1. SumFunctionOnSet(f, Stacks) = f[s] + SumFunctionOnSet(f, Stacks \ {s})
    BY <1>1, <1>3, SumElement
  <2>2. SumFunctionOnSet(f, Stacks \ {s}) \in Nat
    BY <1>1, <1>3, SumGrows
  <2> QED BY <1>1, <2>1, <2>2
<1>6. SumFunction(f) = SumFunctionOnSet(f, Stacks)
  BY <1>2 DEF SumFunction
<1> QED BY <1>1, <1>4, <1>5, <1>6 DEF Regs, f

LEMMA RegsChanged ==
  ASSUME NEW h \in Holding, NEW k \in Holding, NEW s \in Stacks,
         \A t \in Stacks \ {s} : k[t] = h[t], NEW r \in Ranges
  PROVE  Regs(k, r) = Regs(h, r) - h[s][r] + k[s][r]
<1>1. PICK f, g : f = Of(h, r) /\ g = Of(k, r)
  OBVIOUS
<1>2. /\ \A t \in Stacks : f[t] \in Int /\ g[t] \in Int
      /\ \A t \in Stacks \ {s} : f[t] = g[t]
      /\ f[s] = h[s][r] /\ g[s] = k[s][r]
  BY <1>1 DEF Of, Holding
<1>3. SumFunctionOnSet(g, Stacks) = SumFunctionOnSet(f, Stacks) - f[s] + g[s]
  BY <1>2, AddressAssumption, SumChanged
<1> QED BY <1>1, <1>2, <1>3 DEF Regs

(***************************************************************************)
(* The filter entries: each address of each range once, in one sequence.   *)
(***************************************************************************)
IsFlat(g, ss) == g = [i \in 1 .. Len(ss) |-> IF i = 1 THEN ss[i] ELSE g[i - 1] \o ss[i]]
Lengths(ss) == [i \in DOMAIN ss |-> Len(ss[i])]
Has(seq, x) == \E k \in DOMAIN seq : seq[k] = x
HasWithin(ss, n, x) == \E i \in 1 .. n : Has(ss[i], x)

LEMMA FlatExists ==
  ASSUME NEW E, NEW ss \in Seq(Seq(E)) PROVE \E g : IsFlat(g, ss)
<1> DEFINE N == Len(ss)
           step == [p \in Seq(E) \X (1 .. N) |-> IF p[2] = 1 THEN ss[p[2]] ELSE p[1] \o ss[p[2]]]
<1>1. N \in Nat /\ \A n \in 1 .. N : ss[n] \in Seq(E)
  OBVIOUS
<1>2. \A t \in Seq(E) : \A n \in 1 .. N :
         step[<<t, n>>] = (IF n = 1 THEN ss[n] ELSE t \o ss[n]) /\ step[<<t, n>>] \in Seq(E)
  BY <1>1
<1>3. PICK f : Rounds(f, N, Seq(E), <<>>, step)
  <2>1. RoundOf(step, Seq(E), N)
    BY <1>2 DEF RoundOf
  <2>2. <<>> \in Seq(E)
    OBVIOUS
  <2> HIDE DEF step, N
  <2> QED BY <1>1, <2>1, <2>2, LoopExists
<1> DEFINE g == [i \in 1 .. N |-> f[i]]
<1>4. ASSUME NEW i \in 1 .. N PROVE g[i] = IF i = 1 THEN ss[i] ELSE g[i - 1] \o ss[i]
  <2>1. f[i] = step[<<f[i - 1], i>>] /\ f[i - 1] \in Seq(E)
    <3> HIDE DEF step, N
    <3>1. f[i] = step[<<f[i - 1], i>>] /\ f \in [0 .. N -> Seq(E)]
      BY <1>3 DEF Rounds
    <3>2. i - 1 \in 0 .. N
      BY <1>1
    <3> QED BY <3>1, <3>2
  <2>2. f[i] = IF i = 1 THEN ss[i] ELSE f[i - 1] \o ss[i]
    <3> HIDE DEF step
    <3> QED BY <1>2, <2>1
  <2>3. i # 1 => i - 1 \in 1 .. N
    BY <1>1
  <2> QED BY <2>2, <2>3
<1>5. g = [i \in 1 .. N |-> g[i]]
  OBVIOUS
<1>6. g = [i \in 1 .. N |-> IF i = 1 THEN ss[i] ELSE g[i - 1] \o ss[i]]
  <2> HIDE DEF g
  <2> QED BY <1>4, <1>5
<1> QED BY <1>6 DEF IsFlat

LEMMA HasConcat ==
  ASSUME NEW E, NEW s \in Seq(E), NEW t \in Seq(E), NEW x
  PROVE  Has(s \o t, x) <=> Has(s, x) \/ Has(t, x)
<1>1. /\ DOMAIN s = 1 .. Len(s) /\ DOMAIN t = 1 .. Len(t) /\ Len(s) \in Nat /\ Len(t) \in Nat
      /\ DOMAIN (s \o t) = 1 .. Len(s) + Len(t)
  OBVIOUS
<1>2. ASSUME NEW k \in DOMAIN s PROVE k \in DOMAIN (s \o t) /\ (s \o t)[k] = s[k]
  OBVIOUS
<1>3. ASSUME NEW k \in DOMAIN t
      PROVE  k + Len(s) \in DOMAIN (s \o t) /\ (s \o t)[k + Len(s)] = t[k]
  OBVIOUS
<1>4. ASSUME NEW k \in DOMAIN (s \o t)
      PROVE \/ k \in DOMAIN s /\ (s \o t)[k] = s[k]
            \/ k - Len(s) \in DOMAIN t /\ (s \o t)[k] = t[k - Len(s)]
  OBVIOUS
<1>5. ASSUME Has(s \o t, x) PROVE Has(s, x) \/ Has(t, x)
  <2>1. PICK k \in DOMAIN (s \o t) : (s \o t)[k] = x
    BY <1>5 DEF Has
  <2> QED BY <1>4, <2>1 DEF Has
<1>6. ASSUME Has(s, x) PROVE Has(s \o t, x)
  BY <1>2, <1>6 DEF Has
<1>7. ASSUME Has(t, x) PROVE Has(s \o t, x)
  <2>1. PICK k \in DOMAIN t : t[k] = x
    BY <1>7 DEF Has
  <2>2. PICK j \in DOMAIN (s \o t) : (s \o t)[j] = x
    BY <1>3, <2>1
  <2> QED BY <2>2 DEF Has
<1> QED BY <1>5, <1>6, <1>7

LEMMA Flat ==
  ASSUME NEW E, NEW ss \in Seq(Seq(E)), Len(ss) # 0
  PROVE  /\ FlattenSeq(ss) \in Seq(E)
         /\ Len(FlattenSeq(ss)) = SumFunctionOnSet(Lengths(ss), 1 .. Len(ss))
         /\ \A x : Has(FlattenSeq(ss), x) <=> HasWithin(ss, Len(ss), x)
<1>1. PICK a : a = CHOOSE b : IsFlat(b, ss)
  OBVIOUS
<1>2. IsFlat(a, ss)
  BY <1>1, FlatExists
<1>3. FlattenSeq(ss) = a[Len(ss)]
  BY <1>1 DEF FlattenSeq, IsFlat
<1>4. PICK N \in Nat : N = Len(ss)
  OBVIOUS
<1>5. \A i \in 1 .. N : ss[i] \in Seq(E)
  BY <1>4
<1> DEFINE f == Lengths(ss)
           Good(n) == /\ a[n] \in Seq(E)
                      /\ Len(a[n]) = SumFunctionOnSet(f, 1 .. n)
                      /\ \A x : Has(a[n], x) <=> HasWithin(ss, n, x)
           T == {n \in Nat : n >= 1 /\ n <= N => Good(n)}
<1>6. \A i \in 1 .. N : f[i] = Len(ss[i]) /\ f[i] \in Int
  BY <1>4, <1>5 DEF Lengths
<1>7. ASSUME NEW n \in 0 .. N - 1 PROVE SumFunctionOnSet(f, 1 .. n + 1) = f[n + 1] + SumFunctionOnSet(f, 1 .. n)
  <2>1. \A i \in 1 .. n + 1 : f[i] \in Int
    BY <1>6
  <2> HIDE DEF f
  <2> QED BY <2>1, SumUpTo
<1> HIDE DEF f
<1>8. 0 \in T
  OBVIOUS
<1>9. ASSUME NEW n \in T PROVE n + 1 \in T
  <2> SUFFICES ASSUME n + 1 <= N PROVE Good(n + 1)
    OBVIOUS
  <2>1. CASE n = 0
    <3>1. a[1] = ss[1] /\ ss[1] \in Seq(E)
      BY <1>2, <1>4, <1>5 DEF IsFlat
    <3>2. SumFunctionOnSet(f, 1 .. 0) = 0
      <4>1. 1 .. 0 = {}
        OBVIOUS
      <4> QED BY <4>1, SumEmpty
    <3>3. Len(a[1]) = SumFunctionOnSet(f, 1 .. 1)
      <4>1. /\ SumFunctionOnSet(f, 1 .. 0 + 1) = f[0 + 1] + SumFunctionOnSet(f, 1 .. 0)
            /\ f[1] = Len(ss[1]) /\ f[1] \in Int /\ 0 + 1 = 1
        <5>1. 1 \in 1 .. N /\ 0 \in 0 .. N - 1 /\ 0 + 1 = 1
          BY <2>1
        <5>2. SumFunctionOnSet(f, 1 .. 0 + 1) = f[0 + 1] + SumFunctionOnSet(f, 1 .. 0)
          BY <1>7, <5>1
        <5> QED BY <1>6, <5>1, <5>2
      <4> QED BY <3>1, <3>2, <4>1
    <3>4. \A x : HasWithin(ss, 1, x) <=> Has(ss[1], x)
      BY DEF HasWithin
    <3> QED BY <2>1, <3>1, <3>3, <3>4
  <2>2. CASE n # 0
    <3>1. Good(n)
      BY <2>2
    <3>2. a[n + 1] = a[n] \o ss[n + 1] /\ ss[n + 1] \in Seq(E)
      <4>1. n + 1 \in 1 .. Len(ss) /\ n + 1 # 1 /\ (n + 1) - 1 = n
        BY <1>4, <2>2
      <4> QED BY <1>2, <1>4, <1>5, <4>1 DEF IsFlat
    <3>3. /\ a[n + 1] \in Seq(E) /\ Len(a[n + 1]) = Len(a[n]) + Len(ss[n + 1])
      <4>1. PICK s \in Seq(E), t \in Seq(E) : s = a[n] /\ t = ss[n + 1]
        BY <3>1, <3>2
      <4>2. s \o t \in Seq(E) /\ Len(s \o t) = Len(s) + Len(t)
        OBVIOUS
      <4> QED BY <3>2, <4>1, <4>2
    <3>4. Len(a[n + 1]) = SumFunctionOnSet(f, 1 .. n + 1)
      <4>1. SumFunctionOnSet(f, 1 .. n + 1) = f[n + 1] + SumFunctionOnSet(f, 1 .. n)
        BY <1>7
      <4>2. f[n + 1] = Len(ss[n + 1])
        BY <1>6
      <4>3. Len(ss[n + 1]) \in Nat /\ Len(a[n]) \in Nat
        BY <3>1, <3>2
      <4> QED BY <3>1, <3>3, <4>1, <4>2, <4>3
    <3>5. ASSUME NEW x PROVE Has(a[n + 1], x) <=> HasWithin(ss, n + 1, x)
      <4>1. Has(a[n + 1], x) <=> Has(a[n], x) \/ Has(ss[n + 1], x)
        <5>1. PICK s \in Seq(E), t \in Seq(E) : s = a[n] /\ t = ss[n + 1]
          BY <3>1, <3>2
        <5> QED BY <3>2, <5>1, HasConcat
      <4>2. HasWithin(ss, n + 1, x) <=> HasWithin(ss, n, x) \/ Has(ss[n + 1], x)
        <5>1. \A i : i \in 1 .. n + 1 <=> i \in 1 .. n \/ i = n + 1
          OBVIOUS
        <5> QED BY <5>1 DEF HasWithin
      <4> QED BY <3>1, <4>1, <4>2
    <3> QED BY <3>3, <3>4, <3>5
  <2> QED BY <2>1, <2>2
<1>10. N \in T
  <2>1. T \in SUBSET Nat
    OBVIOUS
  <2> HIDE DEF T
  <2> QED BY <1>8, <1>9, <2>1, Induction
<1>11. Good(N)
  BY <1>4, <1>10
<1> QED BY <1>3, <1>4, <1>11 DEF f

LEMMA Addresses ==
  ASSUME NEW r \in Ranges
  PROVE  /\ AddressesIn(r) \in Seq(Addrs)
         /\ \A x : Has(AddressesIn(r), x) <=> x \in Addrs /\ Lower(r) <= x /\ x <= Upper(r)
         /\ Lower(r) <= Upper(r) => Len(AddressesIn(r)) = Size(r) /\ Size(r) \in Nat
         /\ Size(r) \in Int
<1>1. PICK l \in Nat, u \in Nat : l = Lower(r) /\ u = Upper(r) /\ u <= MaxAddr /\ MaxAddr \in Nat
  BY AddressAssumption DEF Lower, Upper
<1>2. Size(r) = u - l + 1
  BY <1>1 DEF Size
<1> DEFINE n == IF l <= u THEN u - l + 1 ELSE 0
           seq == [k \in 1 .. n |-> l + k - 1]
<1>3. AddressesIn(r) = seq
  <2>1. 1 .. Size(r) = 1 .. n
    BY <1>2
  <2> QED BY <1>1, <2>1 DEF AddressesIn
<1>4. n \in Nat
  OBVIOUS
<1>5. ASSUME NEW k \in 1 .. n PROVE l + k - 1 \in Addrs /\ l <= l + k - 1 /\ l + k - 1 <= u
  BY <1>1, <1>5 DEF Addrs
<1>6. seq \in Seq(Addrs) /\ Len(seq) = n
  <2> HIDE DEF n
  <2> QED BY <1>4, <1>5
<1>7. ASSUME NEW x PROVE Has(seq, x) <=> x \in Addrs /\ l <= x /\ x <= u
  <2>1. ASSUME Has(seq, x) PROVE x \in Addrs /\ l <= x /\ x <= u
    <3>1. PICK k \in 1 .. n : x = l + k - 1
      BY <2>1 DEF Has
    <3> QED BY <1>5, <3>1
  <2>2. ASSUME x \in Addrs, l <= x, x <= u PROVE Has(seq, x)
    <3>1. x - l + 1 \in 1 .. n /\ l + (x - l + 1) - 1 = x
      BY <1>1, <2>2 DEF Addrs
    <3>2. seq[x - l + 1] = x
      BY <3>1
    <3> QED BY <3>1, <3>2 DEF Has
  <2> QED BY <2>1, <2>2
<1> QED BY <1>1, <1>2, <1>3, <1>6, <1>7

Sizes(list) == [i \in DOMAIN list |-> Size(list[i].range)]
Covers(list, x) == \E i \in DOMAIN list : Lower(list[i].range) <= x /\ x <= Upper(list[i].range)
Ordered == \A r \in Ranges : Lower(r) <= Upper(r)

LEMMA EntriesAre ==
  ASSUME NEW list \in Seq(Records), NEW own \in Addrs
  PROVE  /\ Entries(list, own) \in Seq(Addrs)
         /\ \A x : Has(Entries(list, own), x) <=>
                     x \in Addrs /\ (x = Broadcast \/ x = own \/ Covers(list, x))
         /\ Ordered => Len(Entries(list, own)) = 2 + SumFunction(Sizes(list))
<1> DEFINE ss == [i \in DOMAIN list |-> AddressesIn(list[i].range)]
           F == FlattenSeq(ss)
           head == <<Broadcast, own>>
<1>1. PICK N \in Nat : N = Len(list) /\ DOMAIN list = 1 .. N
  OBVIOUS
<1>2. \A i \in 1 .. N : list[i].range \in Ranges
  <2>1. ASSUME NEW i \in 1 .. N PROVE list[i].range \in Ranges
    <3>1. list[i] \in Records
      BY <1>1
    <3> QED BY <3>1 DEF Records
  <2> QED BY <2>1
<1>3. ss \in Seq(Seq(Addrs)) /\ Len(ss) = N /\ DOMAIN ss = 1 .. N
  BY <1>1, <1>2, Addresses
<1>4. \A i \in 1 .. N : ss[i] = AddressesIn(list[i].range)
  BY <1>1
<1>5. F \in Seq(Addrs) /\ \A x : Has(F, x) <=> HasWithin(ss, N, x)
  <2>1. CASE N = 0
    <3>1. F = ss /\ ss = <<>>
      BY <1>3, <2>1 DEF FlattenSeq
    <3>2. <<>> \in Seq(Addrs) /\ DOMAIN <<>> = {} /\ 1 .. 0 = {}
      OBVIOUS
    <3>3. \A x : ~Has(<<>>, x) /\ ~HasWithin(ss, 0, x)
      <4> HIDE DEF ss, F
      <4> QED BY <3>2 DEF Has, HasWithin
    <3> HIDE DEF ss, F
    <3> QED BY <2>1, <3>1, <3>2, <3>3
  <2>2. CASE N # 0
    <3> HIDE DEF ss
    <3> QED BY <1>3, <2>2, Flat
  <2> QED BY <2>1, <2>2
<1>6. ASSUME Ordered PROVE Len(F) = SumFunction(Sizes(list))
  <2>1. SumFunction(Sizes(list)) = SumFunctionOnSet(Sizes(list), 1 .. N)
    BY <1>1 DEF SumFunction, Sizes
  <2>2. CASE N = 0
    <3>1. F = ss /\ Len(F) = 0 /\ 1 .. 0 = {}
      BY <1>3, <2>2 DEF FlattenSeq
    <3> QED BY <2>1, <2>2, <3>1, SumEmpty
  <2>3. CASE N # 0
    <3>1. Len(F) = SumFunctionOnSet(Lengths(ss), 1 .. N)
      <4> HIDE DEF ss
      <4> QED BY <1>3, <2>3, Flat
    <3>2. ASSUME NEW i \in 1 .. N PROVE Lengths(ss)[i] = Sizes(list)[i]
      <4>1. Lengths(ss)[i] = Len(AddressesIn(list[i].range))
        BY <1>3, <1>4 DEF Lengths
      <4>2. Sizes(list)[i] = Size(list[i].range)
        BY <1>1 DEF Sizes
      <4> QED BY <1>2, <1>6, <4>1, <4>2, Addresses DEF Ordered
    <3>3. IsFiniteSet(1 .. N)
      BY FS_Interval
    <3>4. SumFunctionOnSet(Lengths(ss), 1 .. N) = SumFunctionOnSet(Sizes(list), 1 .. N)
      <4> HIDE DEF ss
      <4> QED BY <3>2, <3>3, SumSame
    <3> QED BY <2>1, <3>1, <3>4
  <2> QED BY <2>2, <2>3
<1>7. \A x : HasWithin(ss, N, x) <=> x \in Addrs /\ Covers(list, x)
  <2>1. ASSUME NEW x, NEW i \in 1 .. N
        PROVE Has(ss[i], x) <=> x \in Addrs /\ Lower(list[i].range) <= x /\ x <= Upper(list[i].range)
    BY <1>2, <1>4, Addresses
  <2> HIDE DEF ss
  <2> QED BY <1>1, <2>1 DEF HasWithin, Covers
<1>8. /\ head \in Seq(Addrs) /\ Len(head) = 2
      /\ \A x : Has(head, x) <=> x = Broadcast \/ x = own
  <2>1. Broadcast \in Addrs
    BY AddressAssumption DEF Broadcast, Addrs
  <2>2. DOMAIN head = {1, 2} /\ head[1] = Broadcast /\ head[2] = own
    OBVIOUS
  <2>3. head \in Seq(Addrs) /\ Len(head) = 2
    BY <2>1
  <2> HIDE DEF head
  <2> QED BY <2>2, <2>3 DEF Has
<1>9. Entries(list, own) = head \o F
  BY DEF Entries
<1> HIDE DEF ss, F, head
<1>10. head \o F \in Seq(Addrs) /\ Len(head \o F) = Len(head) + Len(F)
  <2>1. PICK s \in Seq(Addrs), t \in Seq(Addrs) : s = head /\ t = F
    BY <1>5, <1>8
  <2>2. s \o t \in Seq(Addrs) /\ Len(s \o t) = Len(s) + Len(t)
    OBVIOUS
  <2> QED BY <2>1, <2>2
<1>11. ASSUME NEW x
       PROVE  Has(Entries(list, own), x) <=> x \in Addrs /\ (x = Broadcast \/ x = own \/ Covers(list, x))
  <2>1. Has(head \o F, x) <=> Has(head, x) \/ Has(F, x)
    BY <1>5, <1>8, HasConcat
  <2>2. Broadcast \in Addrs
    BY AddressAssumption DEF Broadcast, Addrs
  <2> QED BY <1>5, <1>7, <1>8, <1>9, <2>1, <2>2
<1> QED BY <1>6, <1>8, <1>9, <1>10, <1>11

(* The number of addresses on the list depends on which ranges are listed only. *)
SizeOf == [r \in Ranges |-> Size(r)]

LEMMA ListingCount ==
  ASSUME NEW list \in Seq(Records), Distinct(list)
  PROVE  SumFunction(Sizes(list)) = SumFunctionOnSet(SizeOf, Listing(list))
<1> DEFINE D == DOMAIN list
           g == Sizes(list)
           h == [i \in D |-> list[i].range]
<1>1. IsFiniteSet(D)
  <2>1. D = 1 .. Len(list) /\ Len(list) \in Nat
    OBVIOUS
  <2> QED BY <2>1, FS_Interval
<1>2. \A i \in D : list[i].range \in Ranges
  <2>1. ASSUME NEW i \in D PROVE list[i].range \in Ranges
    <3>1. list[i] \in Records
      OBVIOUS
    <3> QED BY <3>1 DEF Records
  <2> QED BY <2>1
<1>3. \A i \in D : g[i] = SizeOf[h[i]] /\ g[i] \in Int
  BY <1>2, Addresses DEF Sizes, SizeOf
<1>4. \A i, j \in D : h[i] = h[j] => i = j
  BY DEF Distinct
<1>5. Listing(list) = {h[i] : i \in D}
  BY DEF Listing
<1>6. SumFunction(g) = SumFunctionOnSet(g, D)
  BY DEF SumFunction, Sizes
<1> HIDE DEF D, g, h
<1>7. SumFunctionOnSet(g, D) = SumFunctionOnSet(SizeOf, {h[i] : i \in D})
  BY <1>1, <1>3, <1>4, SumRenamed
<1> QED BY <1>5, <1>6, <1>7 DEF g
(***************************************************************************)
(* The count in its ULONG, and the number of filters it asks for.          *)
(***************************************************************************)
(* The ranges the stacks may ask for are given lower bound first, and together
   they hold so few addresses that neither the ULONG count nor the signed number
   of filters wraps: fewer than 2^31 - 2 in the code, which does not check it. *)
RangesFit == Ordered /\ 2 * (2 + SumFunction(SizeOf)) < COUNT_SPAN

Total(list) == SumFunctionOnSet(SizeOf, Listing(list))

LEMMA RangesFinite == IsFiniteSet(Ranges)
<1>1. IsFiniteSet(0 .. MaxAddr)
  BY AddressAssumption, FS_Interval
<1>2. IsFiniteSet((0 .. MaxAddr) \X (0 .. MaxAddr))
  BY <1>1, FS_Product
<1> QED BY <1>2, AddressAssumption, FS_Subset

LEMMA Wrapped ==
  ASSUME NEW n \in Int
  PROVE  /\ n % COUNT_SPAN \in 0 .. COUNT_SPAN - 1
         /\ n \in 0 .. COUNT_SPAN - 1 => n % COUNT_SPAN = n
  BY AddressAssumption

LEMMA SignedInt == ASSUME NEW n \in Int PROVE Signed(n) \in Int
  BY Wrapped, AddressAssumption DEF Signed

LEMMA SignedSmall ==
  ASSUME NEW n \in Nat, 2 * n < COUNT_SPAN
  PROVE  Signed(n) = n
<1>1. n \in 0 .. COUNT_SPAN - 1 /\ ~(2 * n >= COUNT_SPAN)
  BY AddressAssumption
<1>2. n % COUNT_SPAN = n
  BY <1>1, Wrapped
<1> QED BY <1>1, <1>2 DEF Signed

LEMMA RangeCount ==
  ASSUME NEW r \in Ranges
  PROVE  /\ CountOf(r) \in 0 .. COUNT_SPAN - 1
         /\ Ordered => SizeOf[r] = Size(r) /\ Size(r) \in Nat
<1>1. Size(r) \in Int
  BY Addresses
<1>2. CountOf(r) \in 0 .. COUNT_SPAN - 1
  BY <1>1, Wrapped DEF CountOf
<1>3. ASSUME Ordered PROVE SizeOf[r] = Size(r) /\ Size(r) \in Nat
  BY <1>3, Addresses DEF Ordered, SizeOf
<1> QED BY <1>2, <1>3

(* A count that fits: of any of the ranges, and with one more of them. *)
LEMMA TotalFits ==
  ASSUME RangesFit, NEW S \in SUBSET Ranges
  PROVE  /\ SumFunctionOnSet(SizeOf, S) \in Nat
         /\ 2 * (2 + SumFunctionOnSet(SizeOf, S)) < COUNT_SPAN
         /\ \A r \in Ranges \ S :
              SumFunctionOnSet(SizeOf, S \cup {r}) = SumFunctionOnSet(SizeOf, S) + Size(r)
         /\ \A r \in S :
              SumFunctionOnSet(SizeOf, S \ {r}) = SumFunctionOnSet(SizeOf, S) - Size(r)
<1>1. \A r \in Ranges : SizeOf[r] = Size(r) /\ SizeOf[r] \in Nat
  BY RangeCount DEF RangesFit
<1>2. SumFunction(SizeOf) = SumFunctionOnSet(SizeOf, Ranges)
  BY DEF SumFunction, SizeOf
<1>3. /\ SumFunctionOnSet(SizeOf, S) \in Nat /\ SumFunctionOnSet(SizeOf, Ranges) \in Nat
      /\ SumFunctionOnSet(SizeOf, S) <= SumFunctionOnSet(SizeOf, Ranges)
  BY <1>1, RangesFinite, SumGrows
<1>4. 2 * (2 + SumFunctionOnSet(SizeOf, S)) < COUNT_SPAN
  BY <1>2, <1>3, AddressAssumption DEF RangesFit
<1>5. ASSUME NEW T \in SUBSET Ranges, NEW r \in T
      PROVE  /\ SumFunctionOnSet(SizeOf, T) = Size(r) + SumFunctionOnSet(SizeOf, T \ {r})
             /\ SumFunctionOnSet(SizeOf, T) \in Int /\ SumFunctionOnSet(SizeOf, T \ {r}) \in Int
             /\ Size(r) \in Int
  <2>1. IsFiniteSet(T) /\ IsFiniteSet(T \ {r})
    BY RangesFinite, FS_Subset
  <2>2. \A x \in T : SizeOf[x] \in Int
    BY <1>1
  <2>3. SumFunctionOnSet(SizeOf, T) = SizeOf[r] + SumFunctionOnSet(SizeOf, T \ {r})
    BY <2>1, <2>2, SumElement
  <2>4. SumFunctionOnSet(SizeOf, T) \in Int /\ SumFunctionOnSet(SizeOf, T \ {r}) \in Int
    BY <2>1, <2>2, SumElement
  <2> QED BY <1>1, <2>3, <2>4
<1>6. ASSUME NEW r \in Ranges \ S
      PROVE  SumFunctionOnSet(SizeOf, S \cup {r}) = SumFunctionOnSet(SizeOf, S) + Size(r)
  <2>1. (S \cup {r}) \ {r} = S /\ S \cup {r} \in SUBSET Ranges /\ r \in S \cup {r}
    OBVIOUS
  <2> QED BY <1>5, <2>1
<1>7. ASSUME NEW r \in S
      PROVE  SumFunctionOnSet(SizeOf, S \ {r}) = SumFunctionOnSet(SizeOf, S) - Size(r)
  BY <1>5
<1> QED BY <1>3, <1>4, <1>6, <1>7

LEMMA CountFits ==
  ASSUME RangesFit, NEW n \in Nat, 2 * (2 + n) < COUNT_SPAN, NEW r \in Ranges
  PROVE  /\ 2 * (2 + n + Size(r)) < COUNT_SPAN => (n + CountOf(r)) % COUNT_SPAN = n + Size(r)
         /\ n >= Size(r) => (n - CountOf(r)) % COUNT_SPAN = n - Size(r)
<1>1. Size(r) \in Nat
  BY RangeCount DEF RangesFit
<1>2. ASSUME 2 * (2 + n + Size(r)) < COUNT_SPAN PROVE (n + CountOf(r)) % COUNT_SPAN = n + Size(r)
  <2>1. CountOf(r) = Size(r)
    BY <1>1, <1>2, Wrapped, AddressAssumption DEF CountOf
  <2>2. n + Size(r) \in 0 .. COUNT_SPAN - 1
    BY <1>1, <1>2, AddressAssumption
  <2> QED BY <2>1, <2>2, Wrapped
<1>3. ASSUME n >= Size(r) PROVE (n - CountOf(r)) % COUNT_SPAN = n - Size(r)
  <2>1. CountOf(r) = Size(r)
    BY <1>1, <1>3, Wrapped, AddressAssumption DEF CountOf
  <2>2. n - Size(r) \in 0 .. COUNT_SPAN - 1
    BY <1>1, <1>3, AddressAssumption
  <2> QED BY <2>1, <2>2, Wrapped
<1> QED BY <1>2, <1>3

(***************************************************************************)
(* bcmgenet_set_rx_mode.                                                   *)
(***************************************************************************)
Programmed(list, own) == mdf' = Entries(list, own) /\ mdfCtrl' = 2 + Total(list)
Off == mdf' = <<>> /\ mdfCtrl' = 0

LEMMA MaxOfTwo == ASSUME NEW n \in Int PROVE Max({n, 0}) = IF n >= 0 THEN n ELSE 0
<1>1. \E x \in {n, 0} : \A y \in {n, 0} : x >= y
  BY DEF Max
<1>2. Max({n, 0}) \in {n, 0} /\ \A y \in {n, 0} : Max({n, 0}) >= y
  BY <1>1 DEF Max
<1> QED BY <1>2

LEMMA FilterSet ==
  ASSUME prom \in BOOLEAN, NEW list \in Seq(Records), NEW count \in Nat, NEW own \in {OwnMac, ZeroMac},
         SetRxFilter(list, count, own)
  PROVE  /\ mdf' \in Seq(Addrs) /\ mdfCtrl' \in 0 .. MAX_MDF_FILTER /\ mdfEnabled' \in BOOLEAN
         /\ NeedsPromiscuous(count) \in BOOLEAN /\ mdfEnabled' = ~NeedsPromiscuous(count)
         /\ ~mdfEnabled' => Off
         /\ RangesFit /\ count = Total(list) /\ mdfEnabled' => Programmed(list, own)
<1>1. own \in Addrs
  BY AddressAssumption DEF Addrs
<1>2. Signed(2 + count) \in Int /\ NeedsPromiscuous(count) \in BOOLEAN
  BY SignedInt, AddressAssumption DEF NeedsPromiscuous
<1>3. CASE NeedsPromiscuous(count)
  <2>1. mdfCtrl' = 0 /\ mdfEnabled' = FALSE /\ mdf' = <<>>
    BY <1>3 DEF SetRxFilter
  <2>2. <<>> \in Seq(Addrs) /\ 0 \in 0 .. MAX_MDF_FILTER
    BY AddressAssumption
  <2> QED BY <1>2, <1>3, <2>1, <2>2 DEF Off
<1>4. CASE ~NeedsPromiscuous(count)
  <2>1. mdfCtrl' = Max({Signed(2 + count), 0}) /\ mdfEnabled' = TRUE /\ mdf' = Entries(list, own)
    BY <1>4 DEF SetRxFilter
  <2>2. Signed(2 + count) <= MAX_MDF_FILTER
    BY <1>2, <1>4, AddressAssumption DEF NeedsPromiscuous
  <2>3. mdfCtrl' \in 0 .. MAX_MDF_FILTER
    BY <1>2, <2>1, <2>2, MaxOfTwo, AddressAssumption
  <2>4. mdf' \in Seq(Addrs)
    BY <1>1, <2>1, EntriesAre
  <2>5. ASSUME RangesFit, count = Total(list) PROVE mdfCtrl' = 2 + Total(list)
    <3>1. Listing(list) \in SUBSET Ranges
      <4>1. \A i \in DOMAIN list : list[i].range \in Ranges
        <5>1. \A i \in DOMAIN list : list[i] \in Records
          OBVIOUS
        <5> QED BY <5>1 DEF Records
      <4> QED BY <4>1 DEF Listing
    <3>2. 2 + count \in Nat /\ 2 * (2 + count) < COUNT_SPAN
      BY <2>5, <3>1, TotalFits DEF Total
    <3>3. Signed(2 + count) = 2 + count
      BY <3>2, SignedSmall
    <3> QED BY <2>1, <2>5, <3>2, <3>3, MaxOfTwo
  <2> QED BY <1>2, <1>4, <2>1, <2>3, <2>4, <2>5 DEF Programmed
<1> QED BY <1>2, <1>3, <1>4
(***************************************************************************)
(* The inductive invariant.                                                *)
(***************************************************************************)
(* A range somebody holds is on the list with uses enough for every holder. *)
Owed(list, h) ==
    \A r \in Ranges : Regs(h, r) = 0 \/ \E i \in DOMAIN list : list[i].range = r /\ Regs(h, r) <= list[i].useCount
ListInv == Distinct(multicastRanges) /\ Owed(multicastRanges, held)
IInv == TypeOK /\ ListInv

(* The count is the number of addresses listed, and while the unit is online
   either the filter has the list or it is off: set_rx_mode keeps up with both. *)
CountInv == multicastCount = Total(multicastRanges)
FilterInv ==
    state = "ONLINE" =>
        /\ cutOff <=> ~mdfEnabled /\ ~promisc
        /\ IF mdfEnabled
           THEN /\ ~promisc /\ mdf = Entries(multicastRanges, mac)
                /\ mdfCtrl = 2 + Total(multicastRanges)
           ELSE mdf = <<>> /\ mdfCtrl = 0

UnitTyped ==
    /\ state \in {"UNCONFIGURED", "CONFIGURED", "ONLINE", "OFFLINE"}
    /\ prom \in BOOLEAN /\ mac \in {OwnMac, ZeroMac}
HwTyped == /\ mdfEnabled \in BOOLEAN /\ promisc \in BOOLEAN
           /\ mdf \in Seq(Addrs) /\ mdfCtrl \in 0 .. MAX_MDF_FILTER /\ cutOff \in BOOLEAN
ListTyped == multicastRanges \in Seq(Records) /\ multicastCount \in 0 .. COUNT_SPAN - 1
HeldTyped == held \in [Stacks -> [Ranges -> 0 .. MaxUses]]

LEMMA TypeParts == TypeOK <=> UnitTyped /\ HwTyped /\ ListTyped /\ HeldTyped
  BY DEF TypeOK, UnitTyped, HwTyped, ListTyped, HeldTyped, Records

LEMMA TypePartsNext == TypeOK' <=> UnitTyped' /\ HwTyped' /\ ListTyped' /\ HeldTyped'
  BY DEF TypeOK, UnitTyped, HwTyped, ListTyped, HeldTyped, Records

LEMMA HeldNat == ASSUME NEW h \in [Stacks -> [Ranges -> 0 .. MaxUses]] PROVE h \in Holding
<1>1. ASSUME NEW s \in Stacks PROVE h[s] \in [Ranges -> Nat]
  <2>1. h[s] \in [Ranges -> 0 .. MaxUses] /\ 0 .. MaxUses \subseteq Nat
    BY AddressAssumption
  <2> QED BY <2>1
<1> QED BY <1>1 DEF Holding

(* One stack's share of one range becomes n. *)
LEMMA HeldSet ==
  ASSUME HeldTyped, NEW s \in Stacks, NEW r \in Ranges, NEW n \in 0 .. MaxUses,
         held' = [held EXCEPT ![s][r] = n]
  PROVE  /\ HeldTyped'
         /\ Regs(held', r) = Regs(held, r) - held[s][r] + n
         /\ \A q \in Ranges \ {r} : Regs(held', q) = Regs(held, q)
<1>1. PICK g \in [Ranges -> 0 .. MaxUses] : g = [held[s] EXCEPT ![r] = n]
  BY DEF HeldTyped
<1>2. g[r] = n /\ \A q \in Ranges \ {r} : g[q] = held[s][q]
  BY <1>1 DEF HeldTyped
<1>3. held' = [held EXCEPT ![s] = g]
  BY <1>1
<1>4. HeldTyped' /\ held'[s] = g /\ \A t \in Stacks \ {s} : held'[t] = held[t]
  BY <1>3 DEF HeldTyped
<1>5. held \in Holding /\ held' \in Holding
  BY <1>4, HeldNat DEF HeldTyped
<1>6. \A q \in Ranges : Regs(held', q) = Regs(held, q) - held[s][q] + held'[s][q]
  BY <1>4, <1>5, RegsChanged
<1>7. \A q \in Ranges : Regs(held, q) \in Nat /\ held[s][q] \in Nat
  BY <1>5, RegsNat DEF Holding
<1>8. held'[s][r] = n /\ \A q \in Ranges \ {r} : held'[s][q] = held[s][q]
  BY <1>2, <1>4
<1>9. ASSUME NEW q \in Ranges \ {r} PROVE Regs(held', q) = Regs(held, q)
  <2>1. PICK a \in Nat, b \in Nat : a = Regs(held, q) /\ b = held[s][q]
    BY <1>7
  <2>2. Regs(held', q) = a - b + b
    BY <1>6, <1>8, <2>1
  <2>3. a - b + b = a
    OBVIOUS
  <2> QED BY <2>1, <2>2, <2>3
<1>10. Regs(held', r) = Regs(held, r) - held[s][r] + n
  BY <1>6, <1>8
<1> QED BY <1>4, <1>9, <1>10

LEMMA LessHeld ==
  ASSUME NEW h \in Holding, NEW k \in Holding, NEW s \in Stacks,
         \A t \in Stacks \ {s} : k[t] = h[t], NEW r \in Ranges, k[s][r] = 0
  PROVE  Regs(k, r) <= Regs(h, r) /\ Regs(k, r) \in Nat
<1>1. Regs(k, r) = Regs(h, r) - h[s][r] + k[s][r]
  BY RegsChanged
<1>2. Regs(h, r) \in Nat /\ Regs(k, r) \in Nat
  BY RegsNat
<1>3. h[s][r] \in Nat
  BY DEF Holding
<1> QED BY <1>1, <1>2, <1>3

LEMMA HeldCleared ==
  ASSUME HeldTyped, NEW s \in Stacks, held' = [held EXCEPT ![s] = [range \in Ranges |-> 0]]
  PROVE  HeldTyped' /\ \A q \in Ranges : Regs(held', q) <= Regs(held, q) /\ Regs(held', q) \in Nat
<1>1. PICK g \in [Ranges -> 0 .. MaxUses] : g = [range \in Ranges |-> 0]
  <2>1. 0 \in 0 .. MaxUses
    BY AddressAssumption
  <2> QED BY <2>1
<1>2. HeldTyped' /\ held'[s] = g /\ \A t \in Stacks \ {s} : held'[t] = held[t]
  BY <1>1 DEF HeldTyped
<1>3. held \in Holding /\ held' \in Holding
  BY <1>2, HeldNat DEF HeldTyped
<1>4. \A q \in Ranges : held'[s][q] = 0
  BY <1>1, <1>2
<1>5. ASSUME NEW q \in Ranges PROVE Regs(held', q) <= Regs(held, q) /\ Regs(held', q) \in Nat
  BY <1>2, <1>3, <1>4, LessHeld
<1> QED BY <1>2, <1>5

LEMMA NobodyHolds ==
  ASSUME held' = [s \in Stacks |-> [range \in Ranges |-> 0]]
  PROVE  HeldTyped' /\ \A q \in Ranges : Regs(held', q) = 0
<1>1. HeldTyped'
  BY AddressAssumption DEF HeldTyped
<1>2. ASSUME NEW q \in Ranges PROVE Regs(held', q) = 0
  <2>1. PICK f : f = Of(held', q)
    OBVIOUS
  <2>2. \A s \in Stacks : f[s] = 0
    BY <2>1 DEF Of
  <2>3. SumFunctionOnSet(f, Stacks) = 0
    BY <2>2, SumZero, AddressAssumption
  <2> QED BY <2>1, <2>3 DEF Regs
<1> QED BY <1>1, <1>2

(* The filter entries and the count do not depend on the uses. *)
LEMMA SameRanges ==
  ASSUME NEW list, NEW new, DOMAIN new = DOMAIN list,
         \A i \in DOMAIN list : new[i].range = list[i].range
  PROVE  /\ \A own : Entries(new, own) = Entries(list, own)
         /\ Total(new) = Total(list)
<1>1. [i \in DOMAIN new |-> AddressesIn(new[i].range)] = [i \in DOMAIN list |-> AddressesIn(list[i].range)]
  OBVIOUS
<1>2. Listing(new) = Listing(list)
  BY DEF Listing
<1> QED BY <1>1, <1>2 DEF Entries, Total

LEMMA ListingIn == ASSUME NEW list \in Seq(Records) PROVE Listing(list) \in SUBSET Ranges
<1>1. \A i \in DOMAIN list : list[i].range \in Ranges
  <2>1. \A i \in DOMAIN list : list[i] \in Records
    OBVIOUS
  <2> QED BY <2>1 DEF Records
<1> QED BY <1>1 DEF Listing
(***************************************************************************)
(* The steps, for the inductive invariant and for the count and filter.    *)
(***************************************************************************)
Exact == CountInv /\ FilterInv

LEMMA ModeSet ==
  ASSUME TypeOK, ListTyped', SetRxMode(multicastRanges', multicastCount', mac)
  PROVE  /\ HwTyped'
         /\ RangesFit /\ CountInv' /\ UNCHANGED unitVars => FilterInv'
<1>1. /\ SetRxFilter(multicastRanges', multicastCount', mac)
      /\ promisc' = NeedsPromiscuous(multicastCount') /\ cutOff' = FALSE
  BY DEF SetRxMode
<1>2. /\ prom \in BOOLEAN /\ multicastRanges' \in Seq(Records) /\ multicastCount' \in Nat
      /\ mac \in {OwnMac, ZeroMac}
  BY TypeParts, AddressAssumption DEF UnitTyped, ListTyped
<1>3. HwTyped' /\ mdfEnabled' = ~promisc' /\ (~mdfEnabled' => Off)
  BY <1>1, <1>2, FilterSet DEF HwTyped
<1>4. ASSUME RangesFit, CountInv', UNCHANGED unitVars PROVE FilterInv'
  <2>1. mdfEnabled' => Programmed(multicastRanges', mac)
    BY <1>1, <1>2, <1>4, FilterSet DEF CountInv
  <2>2. cutOff' = FALSE /\ (~mdfEnabled' => promisc')
    BY <1>1, <1>3 DEF HwTyped
  <2>3. ~(cutOff' # (~mdfEnabled' /\ ~promisc'))
    BY <2>2
  <2> QED BY <1>3, <1>4, <2>1, <2>2, <2>3 DEF FilterInv, Off, Programmed, unitVars, HwTyped
<1> QED BY <1>3, <1>4

LEMMA AddUseStep ==
  ASSUME IInv, NEW s \in Stacks, NEW r \in Ranges, AddUse(r),
         held' = [held EXCEPT ![s][r] = @ + 1], UNCHANGED unitVars
  PROVE  IInv' /\ (Exact => Exact')
<1>1. /\ UnitTyped /\ HwTyped /\ ListTyped /\ HeldTyped /\ Distinct(multicastRanges)
      /\ Owed(multicastRanges, held)
  BY TypeParts DEF IInv, ListInv
<1>2. PICK i : i = Find(r) /\ i # 0
  BY DEF AddUse
<1>3. i \in DOMAIN multicastRanges /\ multicastRanges[i].range = r
  BY <1>1, <1>2, Found DEF ListTyped
<1>4. PICK c \in 1 .. MaxUses : c = multicastRanges[i].useCount /\ c < MaxUses
  <2>1. multicastRanges[i] \in Records
    BY <1>1, <1>3 DEF ListTyped
  <2> QED BY <1>2, <2>1 DEF AddUse, Records
<1>5. c + 1 \in 1 .. MaxUses
  BY <1>4, AddressAssumption
<1>6. multicastRanges' = [multicastRanges EXCEPT ![i].useCount = c + 1]
  BY <1>2, <1>3, <1>4 DEF AddUse
<1>7. /\ multicastRanges' \in Seq(Records) /\ Distinct(multicastRanges')
      /\ DOMAIN multicastRanges' = DOMAIN multicastRanges
      /\ \A j \in DOMAIN multicastRanges : multicastRanges'[j].range = multicastRanges[j].range
      /\ multicastRanges'[i].useCount = c + 1
      /\ \A j \in DOMAIN multicastRanges : j # i => multicastRanges'[j] = multicastRanges[j]
  <2>1. multicastRanges \in Seq(Records) /\ Distinct(multicastRanges)
    BY <1>1 DEF ListTyped
  <2>2. multicastRanges' = WithUses(multicastRanges, i, c + 1)
    BY <1>6 DEF WithUses
  <2> QED BY <1>3, <1>5, <2>1, <2>2, Counted
<1>8. /\ Regs(held, r) \in Nat /\ held[s][r] \in Nat /\ held[s][r] <= Regs(held, r)
      /\ \A q \in Ranges : Regs(held, q) \in Nat
  BY <1>1, HeldNat, RegsNat DEF HeldTyped, Holding
<1>9. Regs(held, r) <= c
  <2>1. \A j \in DOMAIN multicastRanges : multicastRanges[j].range = r => j = i
    BY <1>1, <1>3 DEF Distinct
  <2>2. CASE Regs(held, r) = 0
    BY <1>4, <2>2
  <2>3. CASE Regs(held, r) # 0
    BY <1>1, <1>4, <2>1, <2>3 DEF Owed
  <2> QED BY <2>2, <2>3
<1>10. held[s][r] + 1 \in 0 .. MaxUses /\ held' = [held EXCEPT ![s][r] = held[s][r] + 1]
  <2>1. held[s][r] + 1 \in 0 .. MaxUses
    BY <1>4, <1>8, <1>9, AddressAssumption
  <2>2. held' = [held EXCEPT ![s][r] = held[s][r] + 1]
    BY <1>1 DEF HeldTyped
  <2> QED BY <2>1, <2>2
<1>11. /\ HeldTyped' /\ Regs(held', r) = Regs(held, r) - held[s][r] + (held[s][r] + 1)
       /\ \A q \in Ranges \ {r} : Regs(held', q) = Regs(held, q)
  BY <1>1, <1>10, HeldSet
<1>12. Regs(held', r) <= c + 1
  BY <1>4, <1>8, <1>9, <1>11
<1>13. Owed(multicastRanges', held')
  <2>1. ASSUME NEW q \in Ranges \ {r}
        PROVE  Regs(held', q) = 0 \/ \E j \in DOMAIN multicastRanges' :
                   multicastRanges'[j].range = q /\ Regs(held', q) <= multicastRanges'[j].useCount
    <3>1. CASE Regs(held, q) = 0
      BY <1>11, <3>1
    <3>2. CASE Regs(held, q) # 0
      <4>1. PICK j \in DOMAIN multicastRanges :
              multicastRanges[j].range = q /\ Regs(held, q) <= multicastRanges[j].useCount
        BY <1>1, <3>2 DEF Owed
      <4>2. j # i
        BY <1>3, <4>1
      <4>3. multicastRanges'[j] = multicastRanges[j] /\ j \in DOMAIN multicastRanges'
        BY <1>7, <4>2
      <4> QED BY <1>11, <4>1, <4>3
    <3> QED BY <3>1, <3>2
  <2>2. i \in DOMAIN multicastRanges' /\ multicastRanges'[i].range = r
        /\ Regs(held', r) <= multicastRanges'[i].useCount
    BY <1>3, <1>7, <1>12
  <2> QED BY <2>1, <2>2 DEF Owed
<1>14. UnitTyped' /\ HwTyped' /\ ListTyped'
  BY <1>1, <1>7 DEF AddUse, RxModeUnchanged, hwVars, unitVars, UnitTyped, HwTyped, ListTyped
<1>15. IInv'
  BY <1>7, <1>11, <1>13, <1>14, TypePartsNext DEF IInv, ListInv
<1>16. Exact => Exact'
  <2>1. Entries(multicastRanges', mac) = Entries(multicastRanges, mac) /\ Total(multicastRanges') = Total(multicastRanges)
    BY <1>7, SameRanges
  <2> QED BY <2>1 DEF Exact, CountInv, FilterInv, AddUse, RxModeUnchanged, hwVars, unitVars
<1> QED BY <1>15, <1>16

LEMMA AddRangeStep ==
  ASSUME IInv, NEW s \in Stacks, NEW r \in Ranges, AddRange(r),
         held' = [held EXCEPT ![s][r] = @ + 1], UNCHANGED unitVars
  PROVE  IInv' /\ (RangesFit /\ Exact => Exact')
<1>1. /\ UnitTyped /\ HwTyped /\ ListTyped /\ HeldTyped /\ Distinct(multicastRanges)
      /\ Owed(multicastRanges, held) /\ TypeOK
  BY TypeParts DEF IInv, ListInv
<1>2. r \notin Listing(multicastRanges)
  BY <1>1, Found DEF AddRange, ListTyped
<1>3. PICK e \in Records : e = [range |-> r, useCount |-> 1] /\ e.range = r /\ e.useCount = 1
  <2>1. 1 \in 1 .. MaxUses
    BY AddressAssumption
  <2>2. [range |-> r, useCount |-> 1] \in Records
    BY <2>1 DEF Records
  <2> QED BY <2>2
<1>4. multicastRanges' = <<e>> \o multicastRanges
  BY <1>3 DEF AddRange
<1>5. /\ multicastRanges' \in Seq(Records) /\ Distinct(multicastRanges')
      /\ Listing(multicastRanges') = Listing(multicastRanges) \cup {r}
      /\ 1 \in DOMAIN multicastRanges' /\ multicastRanges'[1] = e
      /\ \A i \in DOMAIN multicastRanges :
           i + 1 \in DOMAIN multicastRanges' /\ multicastRanges'[i + 1] = multicastRanges[i]
  <2>1. multicastRanges \in Seq(Records) /\ Distinct(multicastRanges)
    BY <1>1 DEF ListTyped
  <2>2. multicastRanges' = WithRange(multicastRanges, e)
    BY <1>4 DEF WithRange
  <2> QED BY <1>2, <1>3, <2>1, <2>2, Registered
<1>6. Regs(held, r) = 0
  BY <1>1, <1>2 DEF Owed, Listing
<1>7. held[s][r] = 0
  BY <1>1, <1>6, HeldNat, RegsNat DEF HeldTyped, Holding
<1>8. 1 \in 0 .. MaxUses /\ held' = [held EXCEPT ![s][r] = 1]
  BY <1>1, <1>7, AddressAssumption DEF HeldTyped
<1>9. /\ HeldTyped' /\ Regs(held', r) = Regs(held, r) - held[s][r] + 1
      /\ \A q \in Ranges \ {r} : Regs(held', q) = Regs(held, q)
  BY <1>1, <1>8, HeldSet
<1>10. Regs(held', r) = 1
  BY <1>6, <1>7, <1>9
<1>11. Owed(multicastRanges', held')
  <2>1. ASSUME NEW q \in Ranges \ {r}
        PROVE  Regs(held', q) = 0 \/ \E j \in DOMAIN multicastRanges' :
                   multicastRanges'[j].range = q /\ Regs(held', q) <= multicastRanges'[j].useCount
    <3>1. CASE Regs(held, q) = 0
      BY <1>9, <3>1
    <3>2. CASE Regs(held, q) # 0
      <4>1. PICK j \in DOMAIN multicastRanges :
              multicastRanges[j].range = q /\ Regs(held, q) <= multicastRanges[j].useCount
        BY <1>1, <3>2 DEF Owed
      <4>2. multicastRanges'[j + 1] = multicastRanges[j] /\ j + 1 \in DOMAIN multicastRanges'
        BY <1>5
      <4> QED BY <1>9, <4>1, <4>2
    <3> QED BY <3>1, <3>2
  <2>2. Regs(held', r) <= multicastRanges'[1].useCount /\ multicastRanges'[1].range = r
    BY <1>3, <1>5, <1>10
  <2> QED BY <1>5, <2>1, <2>2 DEF Owed
<1>12. ListTyped'
  <2>1. multicastCount + CountOf(r) \in Int
    BY <1>1, RangeCount, AddressAssumption DEF ListTyped
  <2>2. multicastCount' \in 0 .. COUNT_SPAN - 1
    BY <2>1, Wrapped DEF AddRange
  <2> QED BY <1>5, <2>2 DEF ListTyped
<1>13. SetRxMode(multicastRanges', multicastCount', mac)
  BY DEF AddRange
<1>14. UnitTyped' /\ HwTyped'
  BY <1>1, <1>12, <1>13, ModeSet DEF unitVars, UnitTyped
<1>15. IInv'
  BY <1>5, <1>9, <1>11, <1>12, <1>14, TypePartsNext DEF IInv, ListInv
<1>16. ASSUME RangesFit, Exact PROVE Exact'
  <2>1. Listing(multicastRanges) \in SUBSET Ranges /\ Listing(multicastRanges') \in SUBSET Ranges
    BY <1>1, <1>5, ListingIn DEF ListTyped
  <2>2. /\ Total(multicastRanges) \in Nat /\ 2 * (2 + Total(multicastRanges)) < COUNT_SPAN
        /\ 2 * (2 + Total(multicastRanges')) < COUNT_SPAN
        /\ Total(multicastRanges') = Total(multicastRanges) + Size(r)
    BY <1>2, <1>5, <1>16, <2>1, TotalFits DEF Total
  <2>3. (Total(multicastRanges) + CountOf(r)) % COUNT_SPAN = Total(multicastRanges')
    <3>1. PICK n \in Nat : n = Total(multicastRanges) /\ 2 * (2 + n) < COUNT_SPAN
      BY <2>2
    <3>2. Size(r) \in Nat
      BY <1>16, RangeCount DEF RangesFit
    <3>3. 2 * (2 + n + Size(r)) < COUNT_SPAN
      BY <2>2, <3>1, <3>2
    <3>4. (n + CountOf(r)) % COUNT_SPAN = n + Size(r)
      BY <1>16, <3>1, <3>3, CountFits
    <3> QED BY <2>2, <3>1, <3>4
  <2>4. CountInv'
    BY <1>16, <2>3 DEF Exact, CountInv, AddRange
  <2> QED BY <1>1, <1>12, <1>13, <1>16, <2>4, ModeSet DEF Exact
<1> QED BY <1>15, <1>16
LEMMA DelStep ==
  ASSUME IInv, NEW s \in Stacks, NEW r \in Ranges, DelMulticast(s, r)
  PROVE  IInv' /\ (RangesFit /\ Exact => Exact')
<1>1. /\ UnitTyped /\ HwTyped /\ ListTyped /\ HeldTyped /\ Distinct(multicastRanges)
      /\ Owed(multicastRanges, held) /\ TypeOK
  BY TypeParts DEF IInv, ListInv
<1>2. PICK i : i = Find(r) /\ i # 0
  BY DEF DelMulticast, DropUse
<1>3. i \in DOMAIN multicastRanges /\ multicastRanges[i].range = r
  BY <1>1, <1>2, Found DEF ListTyped
<1>4. PICK c \in 1 .. MaxUses : c = multicastRanges[i].useCount
  <2>1. multicastRanges[i] \in Records
    BY <1>1, <1>3 DEF ListTyped
  <2> QED BY <2>1 DEF Records
<1>5. /\ Regs(held, r) \in Nat /\ held[s][r] \in 0 .. MaxUses /\ held[s][r] <= Regs(held, r)
      /\ \A q \in Ranges : Regs(held, q) \in Nat
  BY <1>1, HeldNat, RegsNat DEF HeldTyped
<1>6. held[s][r] - 1 \in 0 .. MaxUses /\ held' = [held EXCEPT ![s][r] = held[s][r] - 1]
  <2>1. held[s][r] - 1 \in 0 .. MaxUses
    BY <1>5, AddressAssumption DEF DelMulticast
  <2>2. held' = [held EXCEPT ![s][r] = held[s][r] - 1]
    BY <1>1 DEF HeldTyped, DelMulticast
  <2> QED BY <2>1, <2>2
<1>7. /\ HeldTyped' /\ Regs(held', r) = Regs(held, r) - held[s][r] + (held[s][r] - 1)
      /\ \A q \in Ranges \ {r} : Regs(held', q) = Regs(held, q)
  BY <1>1, <1>6, HeldSet
<1>8. Regs(held', r) = Regs(held, r) - 1 /\ Regs(held, r) <= c /\ Regs(held, r) > 0
  <2>1. \A j \in DOMAIN multicastRanges : multicastRanges[j].range = r => j = i
    BY <1>1, <1>3 DEF Distinct
  <2>2. Regs(held, r) > 0
    BY <1>5, AddressAssumption DEF DelMulticast
  <2>3. Regs(held, r) <= c
    BY <1>1, <1>4, <2>1, <2>2 DEF Owed
  <2>4. Regs(held', r) = Regs(held, r) - 1
    <3>1. held[s][r] \in Int
      BY <1>5, AddressAssumption
    <3> QED BY <1>5, <1>7, <3>1
  <2> QED BY <2>2, <2>3, <2>4
<1>9. \A q \in Ranges \ {r} : Regs(held, q) # 0 =>
        \E j \in DOMAIN multicastRanges : /\ multicastRanges[j].range = q /\ j # i
                                          /\ Regs(held', q) <= multicastRanges[j].useCount
  BY <1>1, <1>3, <1>7 DEF Owed
<1>10. UNCHANGED unitVars /\ UnitTyped'
  BY <1>1 DEF DelMulticast, unitVars, UnitTyped
<1>11. CASE /\ c > 1 /\ UNCHANGED multicastCount /\ RxModeUnchanged
            /\ multicastRanges' = [multicastRanges EXCEPT ![i].useCount = c - 1]
  <2>1. /\ multicastRanges' \in Seq(Records) /\ Distinct(multicastRanges')
        /\ DOMAIN multicastRanges' = DOMAIN multicastRanges
        /\ \A j \in DOMAIN multicastRanges : multicastRanges'[j].range = multicastRanges[j].range
        /\ multicastRanges'[i].useCount = c - 1
        /\ \A j \in DOMAIN multicastRanges : j # i => multicastRanges'[j] = multicastRanges[j]
    <3>1. multicastRanges \in Seq(Records) /\ Distinct(multicastRanges)
      BY <1>1 DEF ListTyped
    <3>2. multicastRanges' = WithUses(multicastRanges, i, c - 1)
      BY <1>11 DEF WithUses
    <3>3. c - 1 \in 1 .. MaxUses
      BY <1>11, AddressAssumption
    <3> QED BY <1>3, <3>1, <3>2, <3>3, Counted
  <2>2. Owed(multicastRanges', held')
    <3>1. ASSUME NEW q \in Ranges \ {r}
          PROVE  Regs(held', q) = 0 \/ \E j \in DOMAIN multicastRanges' :
                     multicastRanges'[j].range = q /\ Regs(held', q) <= multicastRanges'[j].useCount
      <4>1. CASE Regs(held, q) = 0
        BY <1>7, <4>1
      <4>2. CASE Regs(held, q) # 0
        <5>1. PICK j \in DOMAIN multicastRanges : /\ multicastRanges[j].range = q /\ j # i
                                                  /\ Regs(held', q) <= multicastRanges[j].useCount
          BY <1>9, <4>2
        <5> QED BY <2>1, <5>1
      <4> QED BY <4>1, <4>2
    <3>2. Regs(held', r) <= c - 1
      BY <1>5, <1>8
    <3>3. /\ i \in DOMAIN multicastRanges' /\ multicastRanges'[i].range = r
          /\ Regs(held', r) <= multicastRanges'[i].useCount
      BY <1>3, <2>1, <3>2
    <3> QED BY <3>1, <3>3 DEF Owed
  <2>3. HwTyped' /\ ListTyped'
    BY <1>1, <1>11, <2>1 DEF RxModeUnchanged, hwVars, HwTyped, ListTyped
  <2>4. IInv'
    BY <1>7, <1>10, <2>1, <2>2, <2>3, TypePartsNext DEF IInv, ListInv
  <2>5. Exact => Exact'
    <3>1. /\ Entries(multicastRanges', mac) = Entries(multicastRanges, mac)
          /\ Total(multicastRanges') = Total(multicastRanges)
      BY <2>1, SameRanges
    <3> QED BY <1>10, <1>11, <3>1 DEF Exact, CountInv, FilterInv, RxModeUnchanged, hwVars, unitVars
  <2> QED BY <2>4, <2>5
<1>12. CASE /\ c = 1 /\ multicastRanges' = RemoveAt(multicastRanges, i)
            /\ multicastCount' = (multicastCount - CountOf(r)) % COUNT_SPAN
            /\ SetRxMode(multicastRanges', multicastCount', mac)
  <2>1. /\ multicastRanges' \in Seq(Records) /\ Distinct(multicastRanges')
        /\ Listing(multicastRanges') = Listing(multicastRanges) \ {r}
        /\ \A j \in DOMAIN multicastRanges : j # i =>
             \E k \in DOMAIN multicastRanges' : multicastRanges'[k] = multicastRanges[j]
    <3>1. multicastRanges \in Seq(Records) /\ Distinct(multicastRanges)
      BY <1>1 DEF ListTyped
    <3>2. multicastRanges' = RemoveAt(multicastRanges, i)
      BY <1>12
    <3> QED BY <1>3, <3>1, <3>2, Dropped
  <2>2. Owed(multicastRanges', held')
    <3>1. ASSUME NEW q \in Ranges \ {r}
          PROVE  Regs(held', q) = 0 \/ \E j \in DOMAIN multicastRanges' :
                     multicastRanges'[j].range = q /\ Regs(held', q) <= multicastRanges'[j].useCount
      <4>1. CASE Regs(held, q) = 0
        BY <1>7, <4>1
      <4>2. CASE Regs(held, q) # 0
        <5>1. PICK j \in DOMAIN multicastRanges : /\ multicastRanges[j].range = q /\ j # i
                                                  /\ Regs(held', q) <= multicastRanges[j].useCount
          BY <1>9, <4>2
        <5>2. PICK k \in DOMAIN multicastRanges' : multicastRanges'[k] = multicastRanges[j]
          BY <2>1, <5>1
        <5> QED BY <5>1, <5>2
      <4> QED BY <4>1, <4>2
    <3>2. Regs(held', r) = 0
      BY <1>5, <1>8, <1>12
    <3> QED BY <3>1, <3>2 DEF Owed
  <2>3. ListTyped'
    <3>1. multicastCount - CountOf(r) \in Int
      BY <1>1, RangeCount, AddressAssumption DEF ListTyped
    <3> QED BY <1>12, <2>1, <3>1, Wrapped DEF ListTyped
  <2>4. IInv'
    BY <1>1, <1>7, <1>10, <1>12, <2>1, <2>2, <2>3, ModeSet, TypePartsNext DEF IInv, ListInv
  <2>5. ASSUME RangesFit, Exact PROVE Exact'
    <3>1. Listing(multicastRanges) \in SUBSET Ranges /\ Listing(multicastRanges') \in SUBSET Ranges
          /\ r \in Listing(multicastRanges)
      BY <1>1, <1>3, <2>1, ListingIn DEF ListTyped, Listing
    <3>2. /\ Total(multicastRanges) \in Nat /\ 2 * (2 + Total(multicastRanges)) < COUNT_SPAN
          /\ Total(multicastRanges') = Total(multicastRanges) - Size(r)
          /\ Total(multicastRanges') \in Nat
      BY <2>1, <2>5, <3>1, TotalFits DEF Total
    <3>3. (Total(multicastRanges) - CountOf(r)) % COUNT_SPAN = Total(multicastRanges')
      <4>1. PICK n \in Nat : n = Total(multicastRanges) /\ 2 * (2 + n) < COUNT_SPAN
        BY <3>2
      <4>2. Size(r) \in Nat
        BY <2>5, RangeCount DEF RangesFit
      <4>3. n >= Size(r)
        BY <3>2, <4>1, <4>2
      <4>4. (n - CountOf(r)) % COUNT_SPAN = n - Size(r)
        BY <2>5, <4>1, <4>3, CountFits
      <4> QED BY <3>2, <4>1, <4>4
    <3>4. CountInv'
      BY <1>12, <2>5, <3>3 DEF Exact, CountInv
    <3> QED BY <1>1, <1>10, <1>12, <2>3, <2>5, <3>4, ModeSet DEF Exact
  <2> QED BY <2>4, <2>5
<1> DEFINE Goal == IInv' /\ (RangesFit /\ Exact => Exact')
<1> HIDE DEF Goal
<1>13. \/ /\ c > 1 /\ UNCHANGED multicastCount /\ RxModeUnchanged
          /\ multicastRanges' = [multicastRanges EXCEPT ![i].useCount = c - 1]
       \/ /\ c = 1 /\ multicastRanges' = RemoveAt(multicastRanges, i)
          /\ multicastCount' = (multicastCount - CountOf(r)) % COUNT_SPAN
          /\ SetRxMode(multicastRanges', multicastCount', mac)
  BY <1>2, <1>3, <1>4 DEF DelMulticast, DropUse
<1> QED BY <1>11, <1>12, <1>13 DEF Goal

LEMMA CloseStep ==
  ASSUME IInv, NEW s \in Stacks, CloseStack(s)
  PROVE  IInv' /\ (Exact => Exact')
<1>1. /\ UnitTyped /\ HwTyped /\ ListTyped /\ HeldTyped /\ Distinct(multicastRanges)
      /\ Owed(multicastRanges, held)
  BY TypeParts DEF IInv, ListInv
<1>2. UNCHANGED <<unitVars, multicastRanges, multicastCount, mdfEnabled, hwVars>>
  BY DEF CloseStack
<1>3. HeldTyped' /\ \A q \in Ranges : Regs(held', q) <= Regs(held, q) /\ Regs(held', q) \in Nat
  BY <1>1, HeldCleared DEF CloseStack
<1>4. \A q \in Ranges : Regs(held, q) \in Nat
  BY <1>1, HeldNat, RegsNat DEF HeldTyped
<1>5. Owed(multicastRanges', held')
  <2>1. ASSUME NEW q \in Ranges, Regs(held', q) # 0
        PROVE  \E j \in DOMAIN multicastRanges : /\ multicastRanges[j].range = q
                                                 /\ Regs(held', q) <= multicastRanges[j].useCount
    <3>1. Regs(held, q) # 0
      BY <1>3, <1>4, <2>1
    <3>2. PICK j \in DOMAIN multicastRanges : /\ multicastRanges[j].range = q
                                              /\ Regs(held, q) <= multicastRanges[j].useCount
      BY <1>1, <3>1 DEF Owed
    <3>3. multicastRanges[j].useCount \in Nat
      <4>1. multicastRanges[j] \in Records
        BY <1>1, <3>2 DEF ListTyped
      <4> QED BY <4>1, AddressAssumption DEF Records
    <3>4. Regs(held', q) <= multicastRanges[j].useCount
      BY <1>3, <1>4, <3>2, <3>3
    <3> QED BY <3>2, <3>4
  <2> QED BY <1>2, <2>1 DEF Owed
<1>6. UnitTyped' /\ HwTyped' /\ ListTyped'
  BY <1>1, <1>2 DEF unitVars, hwVars, UnitTyped, HwTyped, ListTyped
<1>7. IInv'
  BY <1>1, <1>2, <1>3, <1>5, <1>6, TypePartsNext DEF IInv, ListInv
<1>8. Exact => Exact'
  BY <1>2 DEF Exact, CountInv, FilterInv, unitVars, hwVars
<1> QED BY <1>7, <1>8
(* Starting the unit sets the receive mode for the station address it starts with. *)
LEMMA Started ==
  ASSUME TypeOK, NEW own \in {OwnMac, ZeroMac}, EthStart(own)
  PROVE  /\ HwTyped'
         /\ RangesFit /\ CountInv /\ mac' = own /\ UNCHANGED multicastRanges => FilterInv'
<1>1. /\ prom \in BOOLEAN /\ multicastRanges \in Seq(Records) /\ multicastCount \in Nat
  BY TypeParts, AddressAssumption DEF UnitTyped, ListTyped
<1>2. /\ SetRxFilter(multicastRanges, multicastCount, own)
      /\ promisc' = FALSE /\ cutOff' = NeedsPromiscuous(multicastCount)
  BY DEF EthStart
<1>3. HwTyped' /\ (~mdfEnabled' => Off) /\ (cutOff' <=> ~mdfEnabled')
  BY <1>1, <1>2, FilterSet DEF HwTyped
<1>4. ASSUME RangesFit, CountInv, mac' = own, UNCHANGED multicastRanges PROVE FilterInv'
  <2>1. mdfEnabled' => Programmed(multicastRanges, own)
    BY <1>1, <1>2, <1>4, FilterSet DEF CountInv
  <2> QED BY <1>2, <1>3, <1>4, <2>1 DEF FilterInv, Off, Programmed, HwTyped
<1> QED BY <1>3, <1>4

LEMMA Failed ==
  ASSUME TypeOK, NEW own \in {OwnMac, ZeroMac}, StartFails(own)
  PROVE  HwTyped'
<1>1. /\ prom \in BOOLEAN /\ multicastRanges \in Seq(Records) /\ multicastCount \in Nat /\ HwTyped
  BY TypeParts, AddressAssumption DEF UnitTyped, ListTyped
<1>2. CASE SetRxMode(multicastRanges, multicastCount, own)
  BY <1>1, <1>2, FilterSet DEF HwTyped, SetRxMode
<1>3. CASE promisc' \in {promisc, FALSE} /\ UNCHANGED <<mdf, mdfCtrl, mdfEnabled, cutOff>>
  BY <1>1, <1>3 DEF HwTyped
<1> QED BY <1>2, <1>3 DEF StartFails

LEMMA UnitStep ==
  ASSUME IInv, ConfigInterface \/ Online \/ Offline
  PROVE  IInv' /\ (RangesFit /\ Exact => Exact')
<1>1. /\ UnitTyped /\ HwTyped /\ ListTyped /\ HeldTyped /\ Distinct(multicastRanges)
      /\ Owed(multicastRanges, held) /\ TypeOK
  BY TypeParts DEF IInv, ListInv
<1>2. UNCHANGED <<prom, multicastRanges, multicastCount, held>>
  BY DEF ConfigInterface, Online, Offline
<1>3. /\ ListTyped' /\ HeldTyped' /\ Distinct(multicastRanges') /\ Owed(multicastRanges', held')
      /\ CountInv <=> CountInv'
  BY <1>1, <1>2 DEF ListTyped, HeldTyped, CountInv
<1>4. UnitTyped'
  BY <1>1, <1>2 DEF ConfigInterface, Online, Offline, UnitTyped
<1> SUFFICES HwTyped' /\ (RangesFit /\ CountInv => FilterInv')
  BY <1>3, <1>4, TypePartsNext DEF IInv, ListInv, Exact
<1> DEFINE Goal == HwTyped' /\ (RangesFit /\ CountInv => FilterInv')
<1>5. CASE mac' = OwnMac /\ state' = "ONLINE" /\ EthStart(OwnMac)
  BY <1>1, <1>2, <1>5, Started
<1>6. CASE state' # "ONLINE" /\ StartFails(OwnMac)
  BY <1>1, <1>6, Failed DEF FilterInv
<1>7. CASE state' = "UNCONFIGURED" /\ promisc' \in {promisc, FALSE} /\ UNCHANGED <<mdf, mdfCtrl, mdfEnabled, cutOff>>
  BY <1>1, <1>7 DEF FilterInv, HwTyped
<1>8. CASE mac' = mac /\ EthStart(mac)
  <2>1. mac \in {OwnMac, ZeroMac}
    BY <1>1 DEF UnitTyped
  <2> QED BY <1>1, <1>2, <1>8, <2>1, Started
<1>9. CASE state' # "ONLINE" /\ StartFails(mac)
  <2>1. mac \in {OwnMac, ZeroMac}
    BY <1>1 DEF UnitTyped
  <2> QED BY <1>1, <1>9, <2>1, Failed DEF FilterInv
<1>10. CASE Offline
  BY <1>1, <1>10 DEF Offline, FilterInv, HwTyped, hwVars
<1> HIDE DEF Goal
<1>11. CASE ConfigInterface
  BY <1>5, <1>6, <1>7, <1>11 DEF ConfigInterface, Goal
<1>12. CASE Online
  BY <1>8, <1>9, <1>12 DEF Online, Goal
<1> QED BY <1>10, <1>11, <1>12 DEF Goal

(* An empty list that nobody holds anything of. *)
LEMMA Emptied ==
  ASSUME UnitTyped', HwTyped', multicastRanges' = <<>>, multicastCount' = 0, state' # "ONLINE",
         held' = [s \in Stacks |-> [range \in Ranges |-> 0]]
  PROVE  IInv' /\ Exact'
<1>1. ListTyped'
  <2>1. <<>> \in Seq(Records) /\ 0 \in 0 .. COUNT_SPAN - 1
    BY AddressAssumption
  <2> QED BY <2>1 DEF ListTyped
<1>2. DOMAIN multicastRanges' = {}
  OBVIOUS
<1>3. HeldTyped' /\ \A q \in Ranges : Regs(held', q) = 0
  BY NobodyHolds
<1>4. Distinct(multicastRanges') /\ Owed(multicastRanges', held')
  BY <1>2, <1>3 DEF Distinct, Owed
<1>5. Total(multicastRanges') = 0
  <2>1. Listing(multicastRanges') = {}
    BY <1>2 DEF Listing
  <2> QED BY <2>1, SumEmpty DEF Total
<1> QED BY <1>1, <1>3, <1>4, <1>5, TypePartsNext DEF IInv, ListInv, Exact, CountInv, FilterInv

LEMMA ReopenStep == ASSUME IInv, Reopen PROVE IInv' /\ Exact'
<1>1. HwTyped
  BY TypeParts DEF IInv
<1>2. UnitTyped' /\ HwTyped' /\ state' # "ONLINE"
  BY <1>1 DEF Reopen, UnitTyped, HwTyped, hwVars
<1> QED BY <1>2, Emptied DEF Reopen

LEMMA InitInv == ASSUME Init PROVE IInv /\ Exact
<1>1. UnitTyped /\ HwTyped
  <2>1. <<>> \in Seq(Addrs) /\ 0 \in 0 .. MAX_MDF_FILTER
    BY AddressAssumption
  <2> QED BY <2>1 DEF Init, UnitTyped, HwTyped
<1>2. ListTyped
  <2>1. <<>> \in Seq(Records) /\ 0 \in 0 .. COUNT_SPAN - 1
    BY AddressAssumption
  <2> QED BY <2>1 DEF ListTyped, Init
<1>3. HeldTyped
  BY AddressAssumption DEF HeldTyped, Init
<1>4. multicastRanges = <<>> /\ DOMAIN multicastRanges = {}
  BY DEF Init
<1>5. ASSUME NEW q \in Ranges PROVE Regs(held, q) = 0
  <2>1. PICK f : f = Of(held, q)
    OBVIOUS
  <2>2. \A s \in Stacks : f[s] = 0
    BY <2>1 DEF Of, Init
  <2>3. SumFunctionOnSet(f, Stacks) = 0
    BY <2>2, SumZero, AddressAssumption
  <2> QED BY <2>1, <2>3 DEF Regs
<1>6. Distinct(multicastRanges) /\ Owed(multicastRanges, held)
  BY <1>4, <1>5 DEF Distinct, Owed
<1>7. Total(multicastRanges) = 0
  <2>1. Listing(multicastRanges) = {}
    BY <1>4 DEF Listing
  <2> QED BY <2>1, SumEmpty DEF Total
<1> QED BY <1>1, <1>2, <1>3, <1>6, <1>7, TypeParts DEF IInv, ListInv, Exact, CountInv, FilterInv, Init

LEMMA StepInv == ASSUME IInv, [Next]_vars PROVE IInv' /\ (RangesFit /\ Exact => Exact')
<1> DEFINE Goal == IInv' /\ (RangesFit /\ Exact => Exact')
<1> SUFFICES Goal
  OBVIOUS
<1>1. ASSUME NEW s \in Stacks, NEW r \in Ranges, AddMulticast(s, r) PROVE Goal
  <2>1. held' = [held EXCEPT ![s][r] = @ + 1] /\ UNCHANGED unitVars /\ (AddUse(r) \/ AddRange(r))
    BY <1>1 DEF AddMulticast
  <2> QED BY <2>1, AddUseStep, AddRangeStep
<1>2. ASSUME NEW s \in Stacks, NEW r \in Ranges, DelMulticast(s, r) PROVE Goal
  BY <1>2, DelStep
<1>3. ASSUME NEW s \in Stacks, CloseStack(s) PROVE Goal
  BY <1>3, CloseStep
<1>4. CASE ConfigInterface \/ Online \/ Offline
  BY <1>4, UnitStep
<1>5. CASE Reopen
  BY <1>5, ReopenStep
<1>6. CASE UNCHANGED vars
  <2>1. IInv'
    <3>1. /\ UnitTyped /\ HwTyped /\ ListTyped /\ HeldTyped
          /\ Distinct(multicastRanges) /\ Owed(multicastRanges, held)
      BY TypeParts DEF IInv, ListInv
    <3>2. /\ UnitTyped' /\ HwTyped' /\ ListTyped' /\ HeldTyped'
          /\ Distinct(multicastRanges') /\ Owed(multicastRanges', held')
      BY <1>6, <3>1 DEF vars, unitVars, hwVars, UnitTyped, HwTyped, ListTyped, HeldTyped
    <3> QED BY <3>2, TypePartsNext DEF IInv, ListInv
  <2>2. Exact => Exact'
    BY <1>6 DEF vars, unitVars, hwVars, Exact, CountInv, FilterInv
  <2> QED BY <2>1, <2>2
<1> HIDE DEF Goal
<1>7. CASE \E r \in Ranges : \E s \in Stacks : AddMulticast(s, r) \/ DelMulticast(s, r)
  <2>1. PICK r \in Ranges, s \in Stacks : AddMulticast(s, r) \/ DelMulticast(s, r)
    BY <1>7
  <2> QED BY <1>1, <1>2, <2>1
<1>8. CASE \E s \in Stacks : CloseStack(s)
  BY <1>3, <1>8
<1>9. Next \/ UNCHANGED vars
  OBVIOUS
<1> QED BY <1>4, <1>5, <1>6, <1>7, <1>8, <1>9 DEF Next

(***************************************************************************)
(* What the openers receive.                                               *)
(***************************************************************************)
LEMMA MinOfTwo == ASSUME NEW n \in Nat PROVE Min({n, n}) = n
<1>1. \E x \in {n, n} : \A y \in {n, n} : x =< y
  OBVIOUS
<1> QED BY <1>1 DEF Min

(* While the filter is on, the hardware takes its entries and nothing else. *)
LEMMA FilterTakes ==
  ASSUME IInv, RangesFit, Exact, state = "ONLINE", mdfEnabled, NEW d
  PROVE  HwAccepts(d) <=> d \in Addrs /\ (d = Broadcast \/ d = mac \/ Listed(d))
<1>1. /\ multicastRanges \in Seq(Records) /\ Distinct(multicastRanges) /\ mac \in Addrs
      /\ mdf \in Seq(Addrs)
  BY TypeParts, AddressAssumption DEF IInv, ListInv, ListTyped, UnitTyped, HwTyped, Addrs
<1>2. ~promisc /\ mdf = Entries(multicastRanges, mac) /\ mdfCtrl = 2 + Total(multicastRanges)
  BY DEF Exact, FilterInv
<1>3. Len(mdf) = 2 + SumFunction(Sizes(multicastRanges))
  BY <1>1, <1>2, EntriesAre DEF RangesFit
<1>4. SumFunction(Sizes(multicastRanges)) = Total(multicastRanges)
  BY <1>1, ListingCount DEF Total
<1>5. mdfCtrl = Len(mdf) /\ Len(mdf) \in Nat
  BY <1>1, <1>2, <1>3, <1>4
<1>6. Min({mdfCtrl, Len(mdf)}) = Len(mdf) /\ DOMAIN mdf = 1 .. Len(mdf)
  BY <1>1, <1>5, MinOfTwo
<1>7. HwAccepts(d) <=> Has(mdf, d)
  BY <1>2, <1>6 DEF HwAccepts, Has
<1>8. Has(mdf, d) <=> d \in Addrs /\ (d = Broadcast \/ d = mac \/ Covers(multicastRanges, d))
  BY <1>1, <1>2, EntriesAre
<1> QED BY <1>7, <1>8 DEF Covers, Listed

(* While it is off, the hardware takes what promiscuous mode gives it. *)
LEMMA OffTakes ==
  ASSUME IInv, Exact, state = "ONLINE", ~mdfEnabled, NEW d
  PROVE  HwAccepts(d) <=> promisc
<1>1. mdf = <<>> /\ mdfCtrl = 0
  BY DEF Exact, FilterInv
<1>2. Min({mdfCtrl, Len(mdf)}) = 0
  BY <1>1, MinOfTwo
<1>3. 1 .. Min({mdfCtrl, Len(mdf)}) = {}
  BY <1>2
<1> QED BY <1>3 DEF HwAccepts

LEMMA Received == ASSUME IInv, RangesFit, Exact PROVE ReceivedAsAsked
<1> SUFFICES ASSUME state = "ONLINE" PROVE WantedReceived /\ UnwantedDropped
  BY DEF ReceivedAsAsked
<1>1. mac \in {OwnMac, ZeroMac} /\ mdfEnabled \in BOOLEAN /\ promisc \in BOOLEAN
  BY TypeParts DEF IInv, UnitTyped, HwTyped
<1>2. /\ Broadcast \notin Groups /\ mac \notin Groups /\ Groups \subseteq Addrs
      /\ Broadcast \in Addrs /\ mac \in Addrs
      /\ \A d \in Unused : d # Broadcast /\ d # mac
  BY <1>1, AddressAssumption DEF Broadcast, Groups, Addrs, Unused
<1>3. WantedReceived
  <2>1. ASSUME NEW d \in Wanted PROVE Accepts(d) <=> ~cutOff
    <3>1. d \in Addrs /\ (d = Broadcast \/ d = mac \/ Listed(d)) /\ MulticastFilter(d)
      BY <1>2 DEF Wanted, MulticastFilter
    <3>2. cutOff <=> ~mdfEnabled /\ ~promisc
      BY DEF Exact, FilterInv
    <3>3. CASE mdfEnabled
      BY <3>1, <3>2, <3>3, FilterTakes DEF Accepts
    <3>4. CASE ~mdfEnabled
      BY <3>1, <3>2, <3>4, OffTakes DEF Accepts
    <3> QED BY <3>3, <3>4
  <2> QED BY <2>1 DEF WantedReceived
<1>4. ASSUME NEW g \in Groups, Accepts(g) PROVE Listed(g)
  <2>1. CASE mdfEnabled
    BY <1>2, <1>4, <2>1, FilterTakes DEF Accepts
  <2>2. CASE ~mdfEnabled
    BY <1>4, <2>2 DEF Accepts, MulticastFilter
  <2> QED BY <2>1, <2>2
<1>5. ASSUME NEW d \in Unused, Accepts(d) PROVE promisc \/ Listed(d)
  <2>1. CASE mdfEnabled
    BY <1>2, <1>5, <2>1, FilterTakes DEF Accepts
  <2>2. CASE ~mdfEnabled
    BY <1>5, <2>2, OffTakes DEF Accepts
  <2> QED BY <2>1, <2>2
<1> QED BY <1>3, <1>4, <1>5 DEF UnwantedDropped

LEMMA Joined == ASSUME IInv PROVE JoinedStaysListed
<1>1. ListTyped /\ HeldTyped /\ Distinct(multicastRanges) /\ Owed(multicastRanges, held)
  BY TypeParts DEF IInv, ListInv
<1>2. ASSUME NEW r \in Ranges, SumFunction(Of(held, r)) > 0
      PROVE  Find(r) # 0 /\ multicastRanges[Find(r)].useCount >= SumFunction(Of(held, r))
  <2>1. SumFunction(Of(held, r)) = Regs(held, r) /\ Regs(held, r) \in Nat
    BY <1>1, HeldNat, RegsNat DEF HeldTyped
  <2>2. PICK i \in DOMAIN multicastRanges : /\ multicastRanges[i].range = r
                                            /\ Regs(held, r) <= multicastRanges[i].useCount
    BY <1>1, <1>2, <2>1 DEF Owed
  <2>3. Find(r) = i
    BY <1>1, <2>2, Found DEF ListTyped
  <2>4. i # 0
    BY <1>1, <2>2 DEF ListTyped
  <2>5. multicastRanges[i].useCount \in Nat
    <3>1. multicastRanges[i] \in Records
      BY <1>1 DEF ListTyped
    <3> QED BY <3>1, AddressAssumption DEF Records
  <2> QED BY <2>1, <2>2, <2>3, <2>4, <2>5
<1> QED BY <1>2 DEF JoinedStaysListed, Of

LEMMA Counts == ASSUME IInv, Exact PROVE CountIsExact
<1>1. SumFunction(Sizes(multicastRanges)) = Total(multicastRanges)
  BY ListingCount, TypeParts DEF IInv, ListInv, ListTyped, Total
<1> QED BY <1>1 DEF CountIsExact, Sizes, Exact, CountInv

(***************************************************************************)
(* The theorems.                                                           *)
(***************************************************************************)
LEMMA Inductive == Spec => []IInv
<1>1. Init => IInv
  BY InitInv
<1>2. IInv /\ [Next]_vars => IInv'
  BY StepInv
<1> QED BY <1>1, <1>2, PTL DEF Spec

LEMMA ExactAlways == RangesFit => (Spec => [](IInv /\ Exact))
<1> SUFFICES ASSUME RangesFit PROVE Spec => [](IInv /\ Exact)
  OBVIOUS
<1>1. Init => IInv /\ Exact
  BY InitInv
<1>2. IInv /\ Exact /\ [Next]_vars => (IInv /\ Exact)'
  BY StepInv
<1> QED BY <1>1, <1>2, PTL DEF Spec

(* Every variable keeps its type: above all no stack ever holds more uses of a
   range than its record counts, the filter never has more entries enabled than
   the hardware has, and the ULONG count stays in its range. *)
THEOREM TypeCorrect == Spec => []TypeOK
<1>1. IInv => TypeOK
  BY DEF IInv
<1> QED BY <1>1, Inductive, PTL

(* S2_ADDMULTICASTADDRESS(ES) and S2_DELMULTICASTADDRESS(ES), whatever ranges are
   asked for and however often: a range somebody holds is found on the list, with
   at least as many uses as there are registrations (unit_commands_mcast.c). *)
THEOREM JoinedKept == Spec => []JoinedStaysListed
<1>1. IInv => JoinedStaysListed
  BY Joined
<1> QED BY <1>1, Inductive, PTL

(* With ranges that fit, the membership is exact as well: multicastCount is the
   number of addresses on the list, which set_rx_mode decides by. *)
THEOREM MembershipKept == RangesFit => (Spec => []MembershipExact)
<1> SUFFICES ASSUME RangesFit PROVE Spec => []MembershipExact
  OBVIOUS
<1>1. IInv /\ Exact => MembershipExact
  BY Joined, Counts DEF MembershipExact
<1> QED BY <1>1, ExactAlways, PTL

(* With ranges that fit, it is known of every address the openers of an online unit
   asked for whether they receive it, for every list of ranges, size of the filter and
   history of the two filters (bcmgenet_set_rx_mode, bcmgenet_adjust_link, and
   MulticastFilter of unit_io.c): they receive it unless the last start needed
   promiscuous mode and no range has been added or removed since, and then they
   receive none of them.  What they did not ask for they never receive, foreign
   unicast frames in promiscuous mode excepted. *)
THEOREM FilterCorrect == RangesFit => (Spec => []ReceivedAsAsked)
<1> SUFFICES ASSUME RangesFit PROVE Spec => []ReceivedAsAsked
  OBVIOUS
<1>1. IInv /\ Exact => ReceivedAsAsked
  BY Received
<1> QED BY <1>1, ExactAlways, PTL
=============================================================================
