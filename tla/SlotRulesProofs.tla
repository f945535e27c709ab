--------------------------- MODULE SlotRulesProofs ---------------------------
(* What the calendar's rules compute, for every set of periods.  Inductions *)
(* are over finite sets ordered by inclusion, which is well-founded: a      *)
(* smallest counterexample is taken and refuted.                            *)
EXTENDS SlotRules, FiniteSetTheorems, WellFoundedInduction, TLAPS

-----------------------------------------------------------------------------
(* Smallest counterexamples. *)

(* A non-empty family of finite sets has a member without a proper subset   *)
(* in it.                                                                   *)
LEMMA SmallestSet ==
    ASSUME NEW S, NEW B, B \subseteq FiniteSubsetsOf(S), B # {}
    PROVE  \E U \in B : \A V \in B : V \subseteq U => V = U
<1> DEFINE R == StrictSubsetOrdering(S)
<1>1. IsWellFoundedOn(R, FiniteSubsetsOf(S))
  BY FS_StrictSubsetOrderingWellFounded
<1>2. \E U \in B : \A V \in B : ~(<<V, U>> \in R)
  <2> HIDE DEF R
  <2> QED BY <1>1, WFMin
<1>3. QED
  BY <1>2 DEF StrictSubsetOrdering, FiniteSubsetsOf

(* A non-empty set of naturals has a least element.                         *)
LEMMA LeastNat ==
    ASSUME NEW S, S \subseteq Nat, S # {}
    PROVE  \E m \in S : \A k \in S : m <= k
<1> DEFINE B == {0..k : k \in S}
<1>1. ASSUME NEW k \in S PROVE 0..k \in FiniteSubsetsOf(Nat)
  <2>1. IsFiniteSet(0..k)
    BY FS_Interval
  <2>2. QED
    BY <2>1 DEF FiniteSubsetsOf
<1>2. \E U \in B : \A V \in B : V \subseteq U => V = U
  <2>1. B \subseteq FiniteSubsetsOf(Nat) /\ B # {}
    BY <1>1
  <2> HIDE DEF B
  <2>2. QED BY <2>1, SmallestSet
<1>3. PICK m \in S : \A k \in S : 0..k \subseteq 0..m => 0..k = 0..m
  <2>1. PICK U \in B : \A V \in B : V \subseteq U => V = U
    BY <1>2
  <2>2. PICK m \in S : U = 0..m
    BY <2>1
  <2>3. ASSUME NEW k \in S, 0..k \subseteq 0..m PROVE 0..k = 0..m
    <3>1. 0..k \in B
      OBVIOUS
    <3>2. QED
      BY <3>1, <2>1, <2>2, <2>3
  <2>4. QED
    BY <2>3
<1>4. ASSUME NEW k \in S, ~(m <= k) PROVE FALSE
  <2>1. 0..k \subseteq 0..m /\ m \in 0..m /\ m \notin 0..k
    BY <1>4
  <2>2. QED
    BY <2>1, <1>3
<1>5. QED
  BY <1>4

-----------------------------------------------------------------------------
(* Sorting. *)

Periods == {p \in [from: Int, to: Int] : p.from < p.to}
PeriodSets == FiniteSubsetsOf(Periods)

(* A non-empty finite set has an element of greatest key.                   *)
LEMMA Greatest ==
    ASSUME NEW S, IsFiniteSet(S), S # {}, NEW key \in [S -> Int]
    PROVE  \E x \in S : \A y \in S : key[y] <= key[x]
<1> DEFINE HasGreatest(U) == \E x \in U : \A y \in U : key[y] <= key[x]
           B == {U \in FiniteSubsetsOf(S) : U # {} /\ ~HasGreatest(U)}
<1>1. S \in FiniteSubsetsOf(S)
  BY DEF FiniteSubsetsOf
<1> SUFFICES ASSUME B # {} PROVE FALSE
  BY <1>1
<1>2. PICK U \in B : \A V \in B : V \subseteq U => V = U
  <2>1. B \subseteq FiniteSubsetsOf(S)
    OBVIOUS
  <2> HIDE DEF B
  <2>2. QED BY <2>1, SmallestSet
<1>3. PICK x \in U : TRUE
  BY <1>2
<1>4. U \subseteq S /\ IsFiniteSet(U)
  BY <1>2 DEF FiniteSubsetsOf
<1>5. U \ {x} \in FiniteSubsetsOf(S)
  BY <1>4, FS_RemoveElement DEF FiniteSubsetsOf
<1>6. CASE U \ {x} = {}
  BY <1>2, <1>3, <1>4, <1>6
<1>7. CASE U \ {x} # {}
  <2>1. HasGreatest(U \ {x})
    <3>1. U \ {x} \notin B
      BY <1>2, <1>3
    <3>2. QED
      BY <3>1, <1>5, <1>7
  <2>2. PICK y \in U \ {x} : \A z \in U \ {x} : key[z] <= key[y]
    BY <2>1
  <2>3. \A z \in U : key[z] \in Int
    BY <1>4
  <2>4. CASE key[y] <= key[x]
    BY <2>2, <2>3, <2>4, <1>2
  <2>5. CASE key[x] < key[y]
    BY <2>2, <2>3, <2>5, <1>2
  <2>6. QED
    BY <2>3, <2>4, <2>5, <1>3
<1>8. QED
  BY <1>6, <1>7

(* ... and so a period that starts last.                                    *)
LEMMA LatestPeriod ==
    ASSUME NEW P \in PeriodSets, P # {}
    PROVE  \E p \in P : \A q \in P : q.from <= p.from
<1> DEFINE start == [p \in P |-> p.from]
<1>1. IsFiniteSet(P) /\ start \in [P -> Int]
  BY DEF PeriodSets, FiniteSubsetsOf, Periods
<1>2. \E p \in P : \A q \in P : start[q] <= start[p]
  <2> HIDE DEF start
  <2>1. QED BY <1>1, Greatest
<1>3. QED
  BY <1>2

IsSortOf(s, P) ==
    /\ \A p \in P : \E i \in DOMAIN s : s[i] = p
    /\ \A i, j \in DOMAIN s : i < j => s[i].from <= s[j].from

(* A finite set of periods has an enumeration in the order of the starts.   *)
LEMMA SortExists ==
    ASSUME NEW P \in PeriodSets
    PROVE  \E s \in [1..Cardinality(P) -> P] : IsSortOf(s, P)
<1> DEFINE Sortable(U) == \E s \in [1..Cardinality(U) -> U] : IsSortOf(s, U)
           B == {U \in PeriodSets : ~Sortable(U)}
<1> SUFFICES ASSUME B # {} PROVE FALSE
  OBVIOUS
<1>1. PICK U \in B : \A V \in B : V \subseteq U => V = U
  <2>1. B \subseteq FiniteSubsetsOf(Periods)
    BY DEF PeriodSets
  <2> HIDE DEF B
  <2>2. QED BY <2>1, SmallestSet
<1>2. U \in PeriodSets /\ U \subseteq Periods /\ IsFiniteSet(U)
  BY <1>1 DEF PeriodSets, FiniteSubsetsOf
<1>3. CASE U = {}
  <2>1. Cardinality(U) = 0
    BY <1>3, FS_EmptySet
  <2>2. [i \in 1..0 |-> i] \in [1..Cardinality(U) -> U] /\ IsSortOf([i \in 1..0 |-> i], U)
    BY <1>3, <2>1 DEF IsSortOf
  <2>3. QED
    BY <2>2, <1>1
<1>4. CASE U # {}
  <2>1. PICK p \in U : \A q \in U : q.from <= p.from
    BY <1>2, <1>4, LatestPeriod
  <2> DEFINE V == U \ {p}
             n == Cardinality(V)
  <2>2. IsFiniteSet(V) /\ Cardinality(U) = n + 1 /\ n \in Nat
    <3>1. IsFiniteSet(V) /\ Cardinality(V) = Cardinality(U) - 1
      BY <1>2, <2>1, FS_RemoveElement
    <3>2. Cardinality(V) \in Nat /\ Cardinality(U) \in Nat
      BY <1>2, <3>1, FS_CardinalityType
    <3>3. QED
      BY <3>1, <3>2
  <2>3. V \in PeriodSets
    BY <1>2, <2>2 DEF PeriodSets, FiniteSubsetsOf
  <2>4. Sortable(V)
    <3>1. V \notin B
      BY <1>1, <2>1
    <3>2. QED
      BY <3>1, <2>3
  <2> HIDE DEF n
  <2>5. PICK s \in [1..n -> V] : IsSortOf(s, V)
    BY <2>4 DEF n
  <2> DEFINE t == [i \in 1..(n + 1) |-> IF i = n + 1 THEN p ELSE s[i]]
  <2>6. t \in [1..(n + 1) -> U]
    BY <2>2, <2>5
  <2>7. ASSUME NEW q \in U PROVE \E i \in 1..(n + 1) : t[i] = q
    <3>1. CASE q = p
      BY <3>1, <2>2
    <3>2. CASE q # p
      BY <3>2, <2>2, <2>5 DEF IsSortOf
    <3>3. QED
      BY <3>1, <3>2
  <2>8. ASSUME NEW i \in 1..(n + 1), NEW j \in 1..(n + 1), i < j
        PROVE  t[i].from <= t[j].from
    <3>1. i \in 1..n /\ t[i] = s[i] /\ s[i] \in U
      BY <2>2, <2>5, <2>8
    <3>2. CASE j = n + 1
      BY <3>1, <3>2, <2>1
    <3>3. CASE j # n + 1
      <4>1. j \in 1..n /\ t[j] = s[j]
        BY <2>2, <3>3
      <4>2. QED
        BY <4>1, <3>1, <2>5, <2>8 DEF IsSortOf
    <3>4. QED
      BY <3>2, <3>3
  <2>9. DOMAIN t = 1..(n + 1)
    OBVIOUS
  <2> HIDE DEF t
  <2>10. IsSortOf(t, U)
    BY <2>7, <2>8, <2>9 DEF IsSortOf
  <2>11. QED
    BY <2>2, <2>6, <2>10, <1>1
<1>5. QED
  BY <1>3, <1>4

(* SortedByStart is one.                                                    *)
LEMMA Sorting ==
    ASSUME NEW P \in PeriodSets
    PROVE  /\ Cardinality(P) \in Nat
           /\ SortedByStart(P) \in [1..Cardinality(P) -> P]
           /\ Len(SortedByStart(P)) = Cardinality(P)
           /\ IsSortOf(SortedByStart(P), P)
<1> DEFINE s == SortedByStart(P)
           n == Cardinality(P)
<1>1. n \in Nat
  BY FS_CardinalityType DEF PeriodSets, FiniteSubsetsOf
<1>2. s \in [1..n -> P] /\ IsSortOf(s, P)
  <2>1. s = CHOOSE t \in [1..n -> P] : IsSortOf(t, P)
    BY DEF SortedByStart, IsSortOf
  <2>2. \E t \in [1..n -> P] : IsSortOf(t, P)
    BY SortExists
  <2>3. QED
    BY <2>1, <2>2
<1>3. Len(s) = n
  <2> HIDE DEF s, n
  <2>1. s \in Seq(P)
    BY <1>1, <1>2
  <2>2. QED
    BY <1>1, <1>2, <2>1
<1>4. QED
  BY <1>1, <1>2, <1>3

-----------------------------------------------------------------------------
(* Merging. *)

Covered(t, P) == \E p \in P : p.from <= t /\ t < p.to

(* m lists the stretches of the time that the periods Q cover, with a gap   *)
(* between any two, and ends with one that starts with a period of Q.       *)
IsMerge(m, Q) ==
    /\ m \in Seq(Periods)
    /\ \A i, j \in 1..Len(m) : i < j => m[i].to < m[j].from
    /\ \A t \in Int : (\E i \in 1..Len(m) : m[i].from <= t /\ t < m[i].to) <=> Covered(t, Q)
    /\ m # <<>> => \E q \in Q : q.from = m[Len(m)].from
    /\ Q # {} => m # <<>>

(* One step of mergePeriods on the next period in the order of the starts.  *)
LEMMA ExtendMerges ==
    ASSUME NEW Q, Q \subseteq Periods, NEW m, IsMerge(m, Q),
           NEW p \in Periods, \A q \in Q : q.from <= p.from
    PROVE  IsMerge(Extend(m, p), Q \cup {p})
<1> DEFINE n == Len(m)
<1>1. m \in Seq(Periods) /\ n \in Nat /\ \A i \in 1..n : m[i] \in Periods
  BY DEF IsMerge
<1>2. p.from \in Int /\ p.to \in Int /\ p.from < p.to
  BY DEF Periods
<1>3. \A i \in 1..n : m[i].from \in Int /\ m[i].to \in Int /\ m[i].from < m[i].to
  BY <1>1 DEF Periods
<1>4. \A t \in Int : Covered(t, Q \cup {p}) <=> (Covered(t, Q) \/ (p.from <= t /\ t < p.to))
  BY DEF Covered
<1>5. CASE m # <<>> /\ p.from <= Last(m).to
  <2> DEFINE top == IF p.to > m[n].to THEN p.to ELSE m[n].to
             joined == [m EXCEPT ![n].to = IF p.to > @ THEN p.to ELSE @]
  <2>1. n \in 1..n /\ p.from <= m[n].to /\ m[n].from <= p.from
    <3>1. n \in 1..n /\ p.from <= m[n].to
      BY <1>1, <1>5 DEF Last
    <3>2. QED
      BY <3>1, <1>5 DEF IsMerge
  <2>2. Extend(m, p) = joined
    BY <1>5 DEF Extend
  <2>3. joined = [m EXCEPT ![n] = [from |-> m[n].from, to |-> top]]
    <3>1. m[n] \in [from: Int, to: Int]
      BY <2>1, <1>1 DEF Periods
    <3>2. [m[n] EXCEPT !.to = top] = [from |-> m[n].from, to |-> top]
      BY <3>1
    <3>3. joined = [m EXCEPT ![n] = [m[n] EXCEPT !.to = top]]
      OBVIOUS
    <3>4. QED
      BY <3>2, <3>3
  <2>4. [from |-> m[n].from, to |-> top] \in Periods
    BY <2>1, <1>2, <1>3 DEF Periods
  <2>5. /\ joined \in Seq(Periods) /\ Len(joined) = n
        /\ joined[n] = [from |-> m[n].from, to |-> top]
        /\ \A i \in 1..n : i # n => joined[i] = m[i]
    BY <2>1, <2>3, <2>4, <1>1
  <2> HIDE DEF joined
  <2>6. ASSUME NEW i \in 1..n, NEW j \in 1..n, i < j
        PROVE  joined[i].to < joined[j].from
    <3>1. i # n /\ joined[j].from = m[j].from
      BY <2>5, <2>6, <1>1
    <3>2. QED
      BY <3>1, <2>5, <2>6 DEF IsMerge
  <2>7. ASSUME NEW t \in Int
        PROVE  (\E i \in 1..n : joined[i].from <= t /\ t < joined[i].to) <=> Covered(t, Q \cup {p})
    <3> DEFINE In(i) == m[i].from <= t /\ t < m[i].to
    <3>1. (joined[n].from <= t /\ t < joined[n].to) <=> (In(n) \/ (p.from <= t /\ t < p.to))
      BY <2>1, <2>5, <1>2, <1>3
    <3>2. (\E i \in 1..n : In(i)) <=> Covered(t, Q)
      BY DEF IsMerge
    <3>3. QED
      BY <3>1, <3>2, <2>1, <2>5, <1>4
  <2>8. joined # <<>> /\ joined[n].from = m[n].from
    BY <2>1, <2>5, <1>1
  <2>9. \E q \in Q \cup {p} : q.from = joined[n].from
    BY <2>8, <1>5 DEF IsMerge
  <2>10. QED
    BY <2>2, <2>5, <2>6, <2>7, <2>8, <2>9 DEF IsMerge
<1>6. CASE ~(m # <<>> /\ p.from <= Last(m).to)
  <2> DEFINE longer == Append(m, p)
  <2>1. Extend(m, p) = longer
    BY <1>6 DEF Extend
  <2>2. /\ longer \in Seq(Periods) /\ Len(longer) = n + 1 /\ longer[n + 1] = p
        /\ \A i \in 1..n : longer[i] = m[i]
    BY <1>1
  <2> HIDE DEF longer
  <2>3. ASSUME NEW i \in 1..n PROVE m[i].to < p.from
    <3>1. n \in 1..n /\ m # <<>>
      BY <1>1
    <3>2. m[n].to < p.from
      BY <3>1, <1>2, <1>3, <1>6 DEF Last
    <3>3. i = n \/ m[i].to < m[n].from
      BY <3>1 DEF IsMerge
    <3>4. QED
      BY <3>1, <3>2, <3>3, <1>2, <1>3
  <2>4. ASSUME NEW i \in 1..(n + 1), NEW j \in 1..(n + 1), i < j
        PROVE  longer[i].to < longer[j].from
    <3>1. i \in 1..n /\ longer[i] = m[i]
      BY <2>2, <2>4, <1>1
    <3>2. CASE j = n + 1
      BY <3>1, <3>2, <2>2, <2>3
    <3>3. CASE j # n + 1
      <4>1. j \in 1..n /\ longer[j] = m[j]
        BY <3>3, <2>2, <1>1
      <4>2. QED
        BY <4>1, <3>1, <2>4 DEF IsMerge
    <3>4. QED
      BY <3>2, <3>3
  <2>5. ASSUME NEW t \in Int
        PROVE  (\E i \in 1..(n + 1) : longer[i].from <= t /\ t < longer[i].to)
                  <=> Covered(t, Q \cup {p})
    <3> DEFINE In(q) == q.from <= t /\ t < q.to
    <3>1. (\E i \in 1..(n + 1) : In(longer[i])) <=> (\E i \in 1..n : In(m[i])) \/ In(p)
      <4> HIDE DEF In
      <4>1. n + 1 \in 1..(n + 1) /\ \A i \in 1..n : i \in 1..(n + 1)
        BY <1>1
      <4>2. \A i \in 1..(n + 1) : i = n + 1 \/ i \in 1..n
        BY <1>1
      <4>3. QED
        BY <4>1, <4>2, <2>2
    <3>2. (\E i \in 1..n : In(m[i])) <=> Covered(t, Q)
      BY DEF IsMerge
    <3>3. QED
      BY <3>1, <3>2, <1>4
  <2>6. longer # <<>>
    BY <2>2, <1>1
  <2>7. QED
    BY <2>1, <2>2, <2>4, <2>5, <2>6 DEF IsMerge
<1>7. QED
  BY <1>5, <1>6

(* f is the function that MergePeriods defines, on 0..n. *)
IsResult(f, s, n) ==
    f = [k \in 0..n |-> IF k = 0 THEN <<>> ELSE Extend(f[k - 1], s[k])]

(* There is such a function: a recursion over an initial part of Nat.       *)
LEMMA ResultExists ==
    ASSUME NEW s, NEW n \in Nat
    PROVE  \E f : IsResult(f, s, n)
<1> DEFINE B == {k \in Nat : ~\E f : IsResult(f, s, k)}
<1> SUFFICES ASSUME B # {} PROVE FALSE
  OBVIOUS
<1>1. PICK k \in B : \A j \in B : k <= j
  <2>1. B \subseteq Nat
    OBVIOUS
  <2> HIDE DEF B
  <2>2. QED BY <2>1, LeastNat
<1>2. CASE k = 0
  <2>1. IsResult([i \in 0..0 |-> <<>>], s, 0)
    BY DEF IsResult
  <2>2. QED
    BY <2>1, <1>1, <1>2
<1>3. CASE k # 0
  <2>1. k - 1 \in Nat /\ k - 1 \notin B
    BY <1>1, <1>3
  <2>2. PICK f : IsResult(f, s, k - 1)
    BY <2>1
  <2> DEFINE g == [i \in 0..k |-> IF i = k THEN Extend(f[k - 1], s[k]) ELSE f[i]]
  <2>3. ASSUME NEW i \in 0..k
        PROVE  g[i] = IF i = 0 THEN <<>> ELSE Extend(g[i - 1], s[i])
    <3>1. CASE i = k
      <4>1. k - 1 \in 0..k /\ k - 1 # k
        BY <1>3, <2>1
      <4>2. QED
        BY <4>1, <3>1, <1>3
    <3>2. CASE i # k
      <4>1. i \in 0..(k - 1) /\ g[i] = f[i]
        BY <3>2, <1>1
      <4>2. f[i] = IF i = 0 THEN <<>> ELSE Extend(f[i - 1], s[i])
        BY <4>1, <2>2 DEF IsResult
      <4>3. i # 0 => i - 1 \in 0..k /\ g[i - 1] = f[i - 1]
        BY <4>1, <2>1
      <4>4. QED
        BY <4>1, <4>2, <4>3
    <3>3. QED
      BY <3>1, <3>2
  <2>4. IsResult(g, s, k)
    <3>1. g = [i \in 0..k |-> g[i]]
      OBVIOUS
    <3> HIDE DEF g
    <3>2. QED
      BY <3>1, <2>3 DEF IsResult
  <2>5. QED
    BY <2>4, <1>1
<1>4. QED
  BY <1>2, <1>3

(* Its last value merges all the periods.                                   *)
LEMMA ResultMerges ==
    ASSUME NEW P \in PeriodSets, NEW n \in Nat, NEW s \in [1..n -> P], IsSortOf(s, P),
           NEW f, IsResult(f, s, n)
    PROVE  IsMerge(f[n], P)
<1> DEFINE Q(k) == {s[i] : i \in 1..k}
           B == {k \in 0..n : ~IsMerge(f[k], Q(k))}
<1>1. P \subseteq Periods
  BY DEF PeriodSets, FiniteSubsetsOf
<1>2. B = {}
  <2> SUFFICES ASSUME B # {} PROVE FALSE
    OBVIOUS
  <2>1. PICK k \in B : \A j \in B : k <= j
    <3>1. B \subseteq Nat
      OBVIOUS
    <3> HIDE DEF B
    <3>2. QED BY <3>1, LeastNat
  <2>2. f[k] = IF k = 0 THEN <<>> ELSE Extend(f[k - 1], s[k])
    BY <2>1 DEF IsResult
  <2>3. CASE k = 0
    <3>1. f[k] = <<>> /\ Q(k) = {}
      BY <2>2, <2>3
    <3>2. IsMerge(<<>>, {})
      BY DEF IsMerge, Covered
    <3>3. QED
      BY <3>1, <3>2, <2>1
  <2>4. CASE k # 0
    <3> HIDE DEF Q
    <3>1. k - 1 \in 0..n /\ k - 1 \notin B /\ k \in 1..n
      <4>1. k \in 1..n
        BY <2>1, <2>4
      <4>2. k - 1 \in 0..n /\ ~(k <= k - 1)
        BY <4>1
      <4>3. QED
        BY <4>1, <4>2, <2>1
    <3>2. IsMerge(f[k - 1], Q(k - 1))
      BY <3>1
    <3>3. Q(k) = Q(k - 1) \cup {s[k]}
      <4>1. 1..k = (1..(k - 1)) \cup {k}
        BY <3>1
      <4>2. QED
        BY <4>1 DEF Q
    <3>4. Q(k - 1) \subseteq Periods /\ s[k] \in Periods
      BY <3>1, <1>1 DEF Q
    <3>5. \A q \in Q(k - 1) : q.from <= s[k].from
      BY <3>1 DEF IsSortOf, Q
    <3>6. IsMerge(Extend(f[k - 1], s[k]), Q(k - 1) \cup {s[k]})
      BY <3>2, <3>4, <3>5, ExtendMerges
    <3>7. QED
      BY <3>3, <3>6, <2>1, <2>2, <2>4
  <2>5. QED
    BY <2>3, <2>4
<1>3. IsMerge(f[n], Q(n))
  <2>1. n \in 0..n
    OBVIOUS
  <2>2. n \notin B
    <3> HIDE DEF B
    <3>1. QED BY <1>2
  <2> HIDE DEF Q
  <2>3. QED
    BY <2>1, <2>2
<1>4. Q(n) = P
  BY DEF IsSortOf
<1>5. QED
  BY <1>3, <1>4

(* M is the set of the longest unbroken stretches of what P covers. *)
AreStretchesOf(M, P) ==
    /\ M \subseteq Periods
    /\ \A p, q \in M : p # q => p.to < q.from \/ q.to < p.from
    /\ \A t \in Int : Covered(t, M) <=> Covered(t, P)

(* mergePeriods and mergeWeeklyPeriods return the longest unbroken          *)
(* stretches of the working periods: they cover the same time, and any two  *)
(* are apart.                                                               *)
THEOREM MergedPeriods ==
    ASSUME NEW P \in PeriodSets
    PROVE  AreStretchesOf(MergePeriods(P), P)
<1> DEFINE s == SortedByStart(P)
           n == Cardinality(P)
           f == CHOOSE g : IsResult(g, s, n)
<1>1. n \in Nat /\ s \in [1..n -> P] /\ Len(s) = n /\ IsSortOf(s, P)
  BY Sorting
<1>2. IsResult(f, s, n)
  <2> HIDE DEF s, n
  <2>1. QED BY <1>1, ResultExists
<1>3. MergePeriods(P) = ToSet(f[n])
  <2>1. MergePeriods(P) = LET g == CHOOSE h : h = [k \in 0..Len(s) |->
                                    IF k = 0 THEN <<>> ELSE Extend(h[k - 1], s[k])]
                          IN ToSet(g[Len(s)])
    BY DEF MergePeriods
  <2> HIDE DEF s, n
  <2>2. QED
    BY <2>1, <1>1 DEF IsResult
<1> HIDE DEF s, n, f
<1>4. IsMerge(f[n], P)
  BY <1>1, <1>2, ResultMerges
<1> DEFINE m == f[n]
           M == {m[i] : i \in 1..Len(m)}
<1>5. m \in Seq(Periods) /\ Len(m) \in Nat /\ MergePeriods(P) = M
  BY <1>3, <1>4 DEF IsMerge, ToSet
<1> HIDE DEF m
<1>6. M \subseteq Periods
  BY <1>5
<1>7. ASSUME NEW p \in M, NEW q \in M, p # q PROVE p.to < q.from \/ q.to < p.from
  <2>1. PICK i \in 1..Len(m) : p = m[i]
    BY <1>5
  <2>2. PICK j \in 1..Len(m) : q = m[j]
    BY <1>5
  <2>3. i < j \/ j < i
    BY <2>1, <2>2, <1>5, <1>7
  <2>4. QED
    BY <2>1, <2>2, <2>3, <1>4 DEF IsMerge, m
<1>8. ASSUME NEW t \in Int PROVE Covered(t, M) <=> Covered(t, P)
  BY <1>4 DEF IsMerge, m, Covered
<1>9. QED
  BY <1>5, <1>6, <1>7, <1>8 DEF AreStretchesOf

-----------------------------------------------------------------------------
(* What the periods accept and offer. *)

(* validateSlotInTx accepts a lesson exactly when every unit of it is       *)
(* working time, however the hours are split into periods.                  *)
THEOREM FitsIsCovered ==
    ASSUME NEW P \in PeriodSets, NEW slot, slot.from \in Int, slot.to \in Int,
           slot.from < slot.to
    PROVE  FitsInAPeriod(slot, P) <=> \A t \in slot.from..(slot.to - 1) : Covered(t, P)
<1> DEFINE M == MergePeriods(P)
<1>1. AreStretchesOf(M, P)
  BY MergedPeriods
<1>2. \A p \in M : p.from \in Int /\ p.to \in Int /\ p.from < p.to
  BY <1>1 DEF AreStretchesOf, Periods
<1>3. ASSUME FitsInAPeriod(slot, P), NEW t \in slot.from..(slot.to - 1)
      PROVE  Covered(t, P)
  <2>1. PICK p \in M : p.from <= slot.from /\ slot.to <= p.to
    BY <1>3 DEF FitsInAPeriod
  <2>2. t \in Int /\ p.from <= t /\ t < p.to
    BY <2>1, <1>2, <1>3
  <2>3. Covered(t, M)
    BY <2>2 DEF Covered
  <2>4. QED
    BY <2>2, <2>3, <1>1 DEF AreStretchesOf
<1>4. ASSUME \A t \in slot.from..(slot.to - 1) : Covered(t, P)
      PROVE  FitsInAPeriod(slot, P)
  <2>1. \A t \in slot.from..(slot.to - 1) : \E p \in M : p.from <= t /\ t < p.to
    BY <1>1, <1>4 DEF AreStretchesOf, Covered
  <2>2. PICK p \in M : p.from <= slot.from /\ slot.from < p.to
    BY <2>1
  <2>3. ASSUME p.to < slot.to PROVE FALSE
    <3>1. p.to \in slot.from..(slot.to - 1)
      BY <2>2, <2>3, <1>2
    <3>2. PICK q \in M : q.from <= p.to /\ p.to < q.to
      BY <2>1, <3>1
    <3>3. p # q /\ ~(p.to < q.from) /\ ~(q.to < p.from)
      BY <2>2, <3>2, <1>2
    <3>4. QED
      BY <3>3, <1>1 DEF AreStretchesOf
  <2>4. QED
    BY <2>2, <2>3, <1>2 DEF FitsInAPeriod
<1>5. QED
  BY <1>3, <1>4

(* More periods accept what fewer do.                                       *)
LEMMA MorePeriodsFit ==
    ASSUME NEW P \in PeriodSets, NEW Q \in PeriodSets, P \subseteq Q,
           NEW slot, slot.from \in Int, slot.to \in Int, slot.from < slot.to,
           FitsInAPeriod(slot, P)
    PROVE  FitsInAPeriod(slot, Q)
<1>1. \A t : Covered(t, P) => Covered(t, Q)
  BY DEF Covered
<1>2. \A t \in slot.from..(slot.to - 1) : Covered(t, P)
  BY FitsIsCovered
<1>3. QED
  BY <1>1, <1>2, FitsIsCovered

(* getAvailableSlots starts lessons exactly where a whole number of them    *)
(* have room after the start of an unbroken stretch of working time.        *)
THEOREM GridStartsExact ==
    ASSUME NEW P \in PeriodSets, NEW t \in Int
    PROVE  t \in GridStarts(P) <=>
             \E s \in Int : /\ s <= t
                            /\ \A u \in s..(t + Duration - 1) : Covered(u, P)
                            /\ ~Covered(s - 1, P)
                            /\ (t - s) % Duration = 0
<1> DEFINE M == MergePeriods(P)
<1>1. AreStretchesOf(M, P) /\ Duration \in Nat /\ Duration > 0
  BY MergedPeriods, SlotRulesAssumption
<1>2. \A p \in M : p.from \in Int /\ p.to \in Int /\ p.from < p.to
  BY <1>1 DEF AreStretchesOf, Periods
<1>3. t \in GridStarts(P) <=>
        \E p \in M : t \in p.from..p.to /\ (t - p.from) % Duration = 0 /\ t + Duration <= p.to
  BY DEF GridStarts
<1>4. ASSUME NEW p \in M PROVE ~Covered(p.from - 1, P)
  <2>1. ASSUME NEW q \in M, q.from <= p.from - 1, p.from - 1 < q.to PROVE FALSE
    <3>1. p # q /\ ~(p.to < q.from) /\ ~(q.to < p.from)
      BY <2>1, <1>2
    <3>2. QED
      BY <3>1, <1>1 DEF AreStretchesOf
  <2>2. ~Covered(p.from - 1, M) /\ p.from - 1 \in Int
    BY <2>1, <1>2 DEF Covered
  <2>3. QED
    BY <2>2, <1>1 DEF AreStretchesOf
<1>5. ASSUME t \in GridStarts(P)
      PROVE  \E s \in Int : /\ s <= t
                            /\ \A u \in s..(t + Duration - 1) : Covered(u, P)
                            /\ ~Covered(s - 1, P)
                            /\ (t - s) % Duration = 0
  <2>1. PICK p \in M : t \in p.from..p.to /\ (t - p.from) % Duration = 0 /\ t + Duration <= p.to
    BY <1>3, <1>5
  <2>2. p.from \in Int /\ p.from <= t
    BY <2>1, <1>2
  <2>3. ASSUME NEW u \in p.from..(t + Duration - 1) PROVE Covered(u, P)
    <3>1. u \in Int /\ p.from <= u /\ u < p.to
      BY <2>1, <1>1, <1>2
    <3>2. Covered(u, M)
      BY <3>1 DEF Covered
    <3>3. QED
      BY <3>1, <3>2, <1>1 DEF AreStretchesOf
  <2>4. QED
    BY <2>1, <2>2, <2>3, <1>4
<1>6. ASSUME NEW s \in Int, s <= t, \A u \in s..(t + Duration - 1) : Covered(u, P),
             ~Covered(s - 1, P), (t - s) % Duration = 0
      PROVE  t \in GridStarts(P)
  <2> DEFINE slot == [from |-> s, to |-> t + Duration]
  <2>1. slot.from \in Int /\ slot.to \in Int /\ slot.from < slot.to
    BY <1>1, <1>6
  <2>2. \A u \in slot.from..(slot.to - 1) : Covered(u, P)
    BY <1>1, <1>6
  <2>3. FitsInAPeriod(slot, P)
    <3> HIDE DEF slot
    <3>1. QED BY <2>1, <2>2, FitsIsCovered
  <2>4. PICK p \in M : p.from <= s /\ t + Duration <= p.to
    BY <2>3 DEF FitsInAPeriod
  <2>5. p.from = s
    <3>1. ASSUME p.from < s PROVE FALSE
      <4>1. p.from <= s - 1 /\ s - 1 < p.to /\ s - 1 \in Int
        BY <3>1, <2>4, <1>1, <1>2, <1>6
      <4>2. Covered(s - 1, M)
        BY <4>1 DEF Covered
      <4>3. QED
        BY <4>1, <4>2, <1>1, <1>6 DEF AreStretchesOf
    <3>2. QED
      BY <3>1, <2>4, <1>2
  <2>6. t \in p.from..p.to
    BY <2>4, <2>5, <1>1, <1>2, <1>6
  <2>7. QED
    BY <2>4, <2>5, <2>6, <1>3, <1>6
<1>7. QED
  BY <1>5, <1>6

(* Any set of periods of the clock is finite.                               *)
LEMMA ClockPeriodsFinite ==
    ASSUME NEW P, P \subseteq {p \in ClockPeriods : p.from < p.to}
    PROVE  P \in PeriodSets
<1> DEFINE D == 0..DayLength
           f == [c \in D \X D |-> [from |-> c[1], to |-> c[2]]]
<1>1. DayLength \in Nat
  BY SlotRulesAssumption
<1>2. IsFiniteSet(D \X D)
  <2>1. IsFiniteSet(D)
    BY <1>1, FS_Interval
  <2>2. QED
    BY <2>1, FS_Product
<1>3. f \in Surjection(D \X D, ClockPeriods)
  <2>1. \A c \in D \X D : [from |-> c[1], to |-> c[2]] \in ClockPeriods
    BY DEF ClockPeriods
  <2>2. ASSUME NEW p \in ClockPeriods PROVE \E c \in D \X D : f[c] = p
    <3>1. <<p.from, p.to>> \in D \X D /\ f[<<p.from, p.to>>] = p
      BY DEF ClockPeriods
    <3>2. QED
      BY <3>1
  <2>3. QED
    BY <2>1, <2>2 DEF Surjection
<1>4. IsFiniteSet(ClockPeriods)
  <2> HIDE DEF f
  <2>1. QED BY <1>2, <1>3, FS_Surjection
<1>5. IsFiniteSet(P)
  BY <1>4, FS_Subset
<1>6. P \subseteq Periods
  BY <1>1 DEF ClockPeriods, Periods
<1>7. QED
  BY <1>5, <1>6 DEF PeriodSets, FiniteSubsetsOf

(* updateDaySchedule accepts only what fits, for a lesson that does not end *)
(* at midnight.                                                             *)
LEMMA ReadingsAgree ==
    ASSUME NEW t \in 0..(DayLength - Duration), NEW P,
           Reading(t + Duration) # 0, FitsNewPeriods(Lesson(t), P)
    PROVE  FitsInAPeriod(Lesson(t), P)
<1>1. t \in Nat /\ Duration \in Nat \ {0} /\ DayLength \in Nat \ {0} /\ t + Duration <= DayLength
  BY SlotRulesAssumption
<1>2. t + Duration # DayLength
  BY <1>1 DEF Reading
<1>3. t \in 0..(DayLength - 1) /\ t + Duration \in 0..(DayLength - 1)
  BY <1>1, <1>2
<1>4. Reading(t) = t /\ Reading(t + Duration) = t + Duration
  BY <1>1, <1>3 DEF Reading
<1>5. QED
  BY <1>4 DEF FitsNewPeriods, FitsInAPeriod, Lesson

(* Comparing neighbours is enough: periods that updateDaySchedule accepts   *)
(* are pairwise disjoint.                                                   *)
THEOREM ValidPeriodsApart ==
    ASSUME NEW P \in PeriodSets, PeriodsValid(P), NEW p \in P, NEW q \in P, p # q
    PROVE  p.to <= q.from \/ q.to <= p.from
<1> DEFINE s == SortedByStart(P)
           n == Cardinality(P)
<1>1. n \in Nat /\ s \in [1..n -> P] /\ Len(s) = n /\ IsSortOf(s, P)
  BY Sorting
<1>2. \A i \in 2..n : s[i].from >= s[i - 1].to
  BY <1>1 DEF PeriodsValid
<1> HIDE DEF s, n
<1>3. \A i \in 1..n : s[i].from \in Int /\ s[i].to \in Int /\ s[i].from < s[i].to
  BY <1>1 DEF PeriodSets, FiniteSubsetsOf, Periods
<1>4. ASSUME NEW i \in 1..n, NEW j \in 1..n, i < j PROVE s[i].to <= s[j].from
  <2> DEFINE B == {k \in (i + 1)..n : ~(s[i].to <= s[k].from)}
  <2> SUFFICES ASSUME B # {} PROVE FALSE
    BY <1>1, <1>4
  <2>1. PICK k \in B : \A m \in B : k <= m
    <3>1. B \subseteq Nat
      BY <1>1
    <3> HIDE DEF B
    <3>2. QED BY <3>1, LeastNat
  <2>2. k \in 2..n /\ k - 1 \in 1..n /\ k \in 1..n /\ s[k].from >= s[k - 1].to
    BY <2>1, <1>1, <1>2
  <2>3. CASE k - 1 = i
    BY <2>1, <2>2, <2>3, <1>3
  <2>4. CASE k - 1 # i
    <3>1. k - 1 \in (i + 1)..n /\ ~(k <= k - 1)
      BY <2>1, <2>2, <2>4, <1>1
    <3>2. s[i].to <= s[k - 1].from
      BY <3>1, <2>1
    <3>3. QED
      BY <3>2, <2>1, <2>2, <1>3
  <2>5. QED
    BY <2>3, <2>4
<1>5. PICK i \in 1..n : s[i] = p
  BY <1>1 DEF IsSortOf
<1>6. PICK j \in 1..n : s[j] = q
  BY <1>1 DEF IsSortOf
<1>7. i < j \/ j < i
  BY <1>1, <1>5, <1>6
<1>8. QED
  BY <1>4, <1>5, <1>6, <1>7

(* Two stretches with ends overlap exactly when they share a unit.          *)
LEMMA ApartByUnits ==
    ASSUME NEW slot, slot.from \in Int, slot.to \in Int, slot.from < slot.to,
           NEW p, p.from \in Nat, p.to \in Nat, p.from < p.to
    PROVE  ~Overlaps(slot, p) <=>
             \A u \in slot.from..(slot.to - 1) : ~(p.from <= u /\ u < p.to)
<1>1. ASSUME ~Overlaps(slot, p), NEW u \in slot.from..(slot.to - 1), p.from <= u, u < p.to
      PROVE  FALSE
  BY <1>1 DEF Overlaps
<1>2. ASSUME Overlaps(slot, p)
      PROVE  \E u \in slot.from..(slot.to - 1) : p.from <= u /\ u < p.to
  <2>1. p.from < slot.to /\ slot.from < p.to
    BY <1>2 DEF Overlaps, OpenEnd
  <2>2. CASE p.from <= slot.from
    BY <2>1, <2>2
  <2>3. CASE slot.from < p.from
    BY <2>1, <2>3
  <2>4. QED
    BY <2>2, <2>3
<1>3. QED
  BY <1>1, <1>2

-----------------------------------------------------------------------------
(* Price lists. *)

(* An effective price is of the latest row by the date.                     *)
LEMMA LatestRow ==
    ASSUME NEW list, IsFiniteSet(list), list \subseteq [since: Int, price: Nat],
           NEW date \in Int, EffectivePrice(list, date) # NoPrice
    PROVE  \E r \in list : /\ r.since <= date
                           /\ \A q \in list : q.since <= date => q.since <= r.since
                           /\ EffectivePrice(list, date) = r.price
<1> DEFINE rows == InForce(list, date)
           since == [r \in rows |-> r.since]
<1>1. rows # {} /\ rows \subseteq list
  BY DEF EffectivePrice, InForce
<1>2. IsFiniteSet(rows) /\ since \in [rows -> Int]
  BY <1>1, FS_Subset
<1>3. \E r \in rows : \A q \in rows : since[q] <= since[r]
  <2> HIDE DEF rows, since
  <2>1. QED BY <1>1, <1>2, Greatest
<1> DEFINE latest == CHOOSE r \in rows : \A q \in rows : q.since <= r.since
<1>4. latest \in rows /\ \A q \in rows : q.since <= latest.since
  BY <1>3
<1>5. EffectivePrice(list, date) = latest.price
  BY <1>1 DEF EffectivePrice
<1>6. QED
  BY <1>1, <1>4, <1>5 DEF InForce
=============================================================================
