------------------------ MODULE ResourceEventProofs ------------------------
(***************************************************************************)
(* The event service never loses an armed timer and never keeps a          *)
(* destroyed one, for any number of timers and threads.                    *)
(***************************************************************************)
EXTENDS ResourceEvent, WellFoundedInduction, TLAPS

----------------------------------------------------------------------------
(* Sequences.                                                              *)

\* No element is in s twice.
Distinct(s) == \A i, j \in 1 .. Len(s) : s[i] = s[j] => i = j

\* The timers in s are in the order of their times.
Sorted(s, tm) == \A i, j \in 1 .. Len(s) : i < j => tm[s[i]].next <= tm[s[j]].next

\* The least of a non-empty set of naturals.
LEMMA MinNatural ==
    ASSUME NEW T \in SUBSET Nat, T # {}
    PROVE  Min(T) \in T /\ \A y \in T : Min(T) <= y
<1>1. IsWellFoundedOn(OpToRel(<, Nat), Nat)
    BY Zenon, NatLessThanWellFounded
<1>2. PICK x \in T : \A y \in T : ~(<<y, x>> \in OpToRel(<, Nat))
    BY Zenon, <1>1, WFMin
<1>3. ASSUME NEW y \in T, y < x
      PROVE  FALSE
    <2>1. <<y, x>> \in {ss \in Nat \X Nat : ss[1] < ss[2]}
        BY <1>3
    <2>2. <<y, x>> \in OpToRel(<, Nat)
        BY <2>1 DEF OpToRel
    <2> QED
        BY Zenon, <1>2, <2>2
<1>4. \A y \in T : x <= y
    BY <1>3
<1> QED
    BY Zenon, <1>4 DEF Min

\* find returns a place of t, or the end when there is none.
LEMMA FindPlace ==
    ASSUME NEW S, NEW s \in Seq(S), NEW from \in Nat \ {0}, NEW t
    PROVE  LET i == find(s, from, t)
           IN  /\ i \in Nat \ {0}
               /\ i <= Len(s) => s[i] = t
               /\ i > Len(s) => \A k \in from .. Len(s) : s[k] # t
<1> DEFINE T == {i \in from .. Len(s) : s[i] = t} \cup {Len(s) + 1}
<1>1. T \in SUBSET Nat /\ T # {} /\ \A i \in T : i # 0
    OBVIOUS
<1> HIDE DEF T
<1>2. Min(T) \in T /\ \A y \in T : Min(T) <= y
    BY <1>1, MinNatural
<1>3. find(s, from, t) = Min(T)
    BY DEF find, T
<1> QED
    BY <1>1, <1>2, <1>3 DEF T

\* lower_bound returns the first place whose timer is not before t.
LEMMA LowerBound ==
    ASSUME NEW s \in Seq(Timers), NEW tm, NEW t
    PROVE  LET i == lower_bound(s, tm, t)
           IN  /\ i \in 1 .. (Len(s) + 1)
               /\ i <= Len(s) => tm[s[i]].next >= tm[t].next
               /\ \A k \in 1 .. (i - 1) : ~(tm[s[k]].next >= tm[t].next)
<1> DEFINE T == {i \in 1 .. Len(s) : tm[s[i]].next >= tm[t].next} \cup {Len(s) + 1}
<1>1. T \in SUBSET Nat /\ T # {} /\ \A i \in T : i \in 1 .. (Len(s) + 1)
    OBVIOUS
<1> HIDE DEF T
<1> DEFINE m == Min(T)
<1>2. m \in T /\ \A y \in T : m <= y
    BY <1>1, MinNatural
<1>3. lower_bound(s, tm, t) = m
    BY DEF lower_bound, T
<1> HIDE DEF m
<1>4. m \in 1 .. (Len(s) + 1) /\ Len(s) \in Nat
    BY <1>1, <1>2
<1>5. ASSUME NEW k \in 1 .. (m - 1)
      PROVE  ~(tm[s[k]].next >= tm[t].next)
    <2>1. ~(m <= k) /\ k \in 1 .. Len(s)
        BY <1>4
    <2>2. k \notin T
        BY <1>2, <2>1
    <2> QED
        BY <2>1, <2>2 DEF T
<1>6. m <= Len(s) => tm[s[m]].next >= tm[t].next
    BY <1>2, <1>4 DEF T
<1> QED
    BY <1>3, <1>4, <1>5, <1>6

\* erase moves what comes after one place down.
LEMMA EraseProperties ==
    ASSUME NEW S, NEW s \in Seq(S), NEW i \in 1 .. Len(s)
    PROVE  /\ erase(s, i) \in Seq(S)
           /\ Len(erase(s, i)) = Len(s) - 1
           /\ \A k \in 1 .. (Len(s) - 1) :
                erase(s, i)[k] = IF k < i THEN s[k] ELSE s[k + 1]
<1> DEFINE a == SubSeq(s, 1, i - 1)
           b == SubSeq(s, i + 1, Len(s))
<1>1. a \in Seq(S) /\ Len(a) = i - 1 /\ \A k \in 1 .. (i - 1) : a[k] = s[k]
    OBVIOUS
<1>2. b \in Seq(S) /\ Len(b) = Len(s) - i /\ \A k \in 1 .. (Len(s) - i) : b[k] = s[i + k]
    OBVIOUS
<1> HIDE DEF a, b
<1>3. /\ a \o b \in Seq(S)
      /\ Len(a \o b) = Len(a) + Len(b)
      /\ \A k \in 1 .. (Len(a) + Len(b)) :
            (a \o b)[k] = IF k <= Len(a) THEN a[k] ELSE b[k - Len(a)]
    <2>1. a \in Seq(S) /\ b \in Seq(S)
        BY <1>1, <1>2
    <2> QED
        BY <2>1
<1>4. erase(s, i) = a \o b
    <2>1. ~(i > Len(s))
        OBVIOUS
    <2> QED
        BY Zenon, <2>1 DEF erase, a, b
<1>5. Len(a) + Len(b) = Len(s) - 1
    BY <1>1, <1>2
<1>6. ASSUME NEW k \in 1 .. (Len(s) - 1)
      PROVE  erase(s, i)[k] = IF k < i THEN s[k] ELSE s[k + 1]
    <2>1. CASE k < i
        BY <2>1, <1>1, <1>3, <1>4, <1>5
    <2>2. CASE ~(k < i)
        <3>1. k - (i - 1) \in 1 .. (Len(s) - i)
            BY <2>2
        <3>2. b[k - (i - 1)] = s[i + (k - (i - 1))]
            BY <1>2, <3>1
        <3>3. i + (k - (i - 1)) = k + 1
            OBVIOUS
        <3> QED
            BY <2>2, <1>1, <1>3, <1>4, <1>5, <3>2, <3>3
    <2> QED
        BY <2>1, <2>2
<1> QED
    BY <1>3, <1>4, <1>5, <1>6

\* emplace moves what comes from the place on one place up.
LEMMA EmplaceProperties ==
    ASSUME NEW S, NEW s \in Seq(S), NEW i \in 1 .. (Len(s) + 1), NEW e \in S
    PROVE  /\ emplace(s, i, e) \in Seq(S)
           /\ Len(emplace(s, i, e)) = Len(s) + 1
           /\ \A k \in 1 .. (Len(s) + 1) :
                emplace(s, i, e)[k] = IF k < i THEN s[k] ELSE IF k = i THEN e ELSE s[k - 1]
<1> DEFINE a == SubSeq(s, 1, i - 1)
           b == SubSeq(s, i, Len(s))
           c == a \o <<e>>
<1>0. Len(s) \in Nat
    OBVIOUS
<1>1. a \in Seq(S) /\ Len(a) = i - 1 /\ \A k \in 1 .. (i - 1) : a[k] = s[k]
    OBVIOUS
<1>2. /\ b \in Seq(S) /\ Len(b) = Len(s) - i + 1
      /\ \A k \in 1 .. (Len(s) - i + 1) : b[k] = s[i + k - 1]
    OBVIOUS
<1> HIDE DEF a, b
<1>3. c \in Seq(S) /\ Len(c) = i /\ c[i] = e /\ \A k \in 1 .. (i - 1) : c[k] = s[k]
    BY <1>1
<1>4. emplace(s, i, e) = c \o b
    BY DEF emplace, a, b
<1> HIDE DEF c
<1>5. /\ c \o b \in Seq(S)
      /\ Len(c \o b) = Len(c) + Len(b)
      /\ \A k \in 1 .. (Len(c) + Len(b)) :
            (c \o b)[k] = IF k <= Len(c) THEN c[k] ELSE b[k - Len(c)]
    BY <1>2, <1>3
<1>6. Len(c) + Len(b) = Len(s) + 1
    BY <1>0, <1>2, <1>3
<1>7. ASSUME NEW k \in 1 .. (Len(s) + 1)
      PROVE  (c \o b)[k] = IF k < i THEN s[k] ELSE IF k = i THEN e ELSE s[k - 1]
    <2>1. CASE k <= i
        <3>1. (c \o b)[k] = c[k]
            BY <2>1, <1>3, <1>5, <1>6
        <3>2. k \in 1 .. (i - 1) \/ k = i
            BY <2>1
        <3> QED
            BY <1>3, <3>1, <3>2
    <2>2. CASE ~(k <= i)
        <3>1. k - i \in 1 .. (Len(s) - i + 1)
            BY <2>2, <1>0
        <3>2. b[k - i] = s[i + (k - i) - 1]
            BY <1>2, <3>1
        <3>3. i + (k - i) - 1 = k - 1
            OBVIOUS
        <3> QED
            BY <2>2, <1>3, <1>5, <1>6, <3>2, <3>3
    <2> QED
        BY Zenon, <2>1, <2>2
<1> QED
    BY <1>4, <1>5, <1>6, <1>7

\* What is left when t, which is nowhere before the given place, is erased.
LEMMA Erased ==
    ASSUME NEW s \in Seq(Timers), Distinct(s), NEW from \in Nat \ {0}, NEW t \in Timers,
           \A k \in 1 .. (from - 1) : k <= Len(s) => s[k] # t
    PROVE  LET r == erase(s, find(s, from, t))
           IN  /\ r \in Seq(Timers) /\ Distinct(r) /\ ~Contains(r, t)
               /\ \A u \in Timers \ {t} : Contains(r, u) <=> Contains(s, u)
               /\ \A tm : Sorted(s, tm) => Sorted(r, tm)
<1> DEFINE i == find(s, from, t)
           r == erase(s, i)
<1>0. Len(s) \in Nat
    OBVIOUS
<1>1. /\ i \in Nat \ {0}
      /\ i <= Len(s) => s[i] = t
      /\ i > Len(s) => \A k \in from .. Len(s) : s[k] # t
    BY FindPlace, Zenon
<1> HIDE DEF i
<1>2. CASE i > Len(s)
    <2>1. \A k \in 1 .. Len(s) : s[k] # t
        BY <1>0, <1>1, <1>2
    <2>2. erase(s, i) = s
        BY <1>2 DEF erase
    <2> QED
        BY <2>1, <2>2 DEF Contains, i
<1>3. CASE ~(i > Len(s))
    <2>1. i \in 1 .. Len(s) /\ s[i] = t /\ erase(s, i) = r
        BY <1>0, <1>1, <1>3 DEF erase
    <2>2. /\ r \in Seq(Timers)
          /\ Len(r) = Len(s) - 1
          /\ \A k \in 1 .. (Len(s) - 1) : r[k] = IF k < i THEN s[k] ELSE s[k + 1]
        BY Zenon, <2>1, EraseProperties
    <2> HIDE DEF r
    <2>3. \A k \in 1 .. Len(r) : /\ k < i => r[k] = s[k]
                                 /\ k >= i => r[k] = s[k + 1]
                                 /\ k \in 1 .. Len(s) /\ k + 1 \in 1 .. Len(s)
        BY <1>0, <2>1, <2>2
    <2>4. Distinct(r)
        BY <1>0, <2>1, <2>2, <2>3 DEF Distinct
    <2>5. ~Contains(r, t)
        BY <1>0, <2>1, <2>2, <2>3 DEF Distinct, Contains
    <2>6. ASSUME NEW u \in Timers \ {t}
          PROVE  Contains(r, u) <=> Contains(s, u)
        <3>1. Contains(r, u) => Contains(s, u)
            BY ZenonT(40), <2>1, <2>2, <2>3 DEF Contains
        <3>2. ASSUME NEW k \in 1 .. Len(s), s[k] = u
              PROVE  Contains(r, u)
            <4>1. CASE k < i
                <5>1. k \in 1 .. Len(r) /\ r[k] = u
                    BY <1>0, <2>1, <2>2, <3>2, <4>1
                <5> QED
                    BY <5>1 DEF Contains
            <4>2. CASE ~(k < i)
                <5>1. k # i
                    BY <2>1, <3>2
                <5>2. k - 1 \in 1 .. Len(r) /\ k - 1 >= i /\ (k - 1) + 1 = k
                    BY <1>0, <2>1, <2>2, <4>2, <5>1
                <5>3. r[k - 1] = u
                    BY <2>3, <3>2, <5>2
                <5> QED
                    BY <5>2, <5>3 DEF Contains
            <4> QED
                BY <4>1, <4>2
        <3> QED
            BY <3>1, <3>2 DEF Contains
    <2>7. ASSUME NEW tm, Sorted(s, tm)
          PROVE  Sorted(r, tm)
        <3> SUFFICES ASSUME NEW j \in 1 .. Len(r), NEW k \in 1 .. Len(r), j < k
                     PROVE  tm[r[j]].next <= tm[r[k]].next
            BY DEF Sorted
        <3>1. PICK jj \in 1 .. Len(s) : r[j] = s[jj] /\ jj = (IF j < i THEN j ELSE j + 1)
            BY <2>1, <2>3
        <3>2. PICK kk \in 1 .. Len(s) : r[k] = s[kk] /\ kk = (IF k < i THEN k ELSE k + 1)
            BY <2>1, <2>3
        <3>3. jj < kk
            BY <1>0, <2>1, <2>2, <3>1, <3>2
        <3> QED
            BY <2>7, <3>1, <3>2, <3>3 DEF Sorted
    <2> QED
        BY <2>1, <2>2, <2>4, <2>5, <2>6, <2>7 DEF i
<1> QED
    BY <1>0, <1>1, <1>2, <1>3

\* Timer t put in its place among timers in order.
LEMMA Emplaced ==
    ASSUME NEW s \in Seq(Timers), Distinct(s), NEW t \in Timers, ~Contains(s, t),
           NEW tm, \A u \in Timers : tm[u].next \in Int, Sorted(s, tm)
    PROVE  LET r == emplace(s, lower_bound(s, tm, t), t)
           IN  /\ r \in Seq(Timers) /\ Distinct(r) /\ Contains(r, t)
               /\ \A u \in Timers : u # t => (Contains(r, u) <=> Contains(s, u))
               /\ Sorted(r, tm)
<1> DEFINE i == lower_bound(s, tm, t)
           r == emplace(s, i, t)
<1>0. Len(s) \in Nat /\ \A k \in 1 .. Len(s) : s[k] \in Timers /\ s[k] # t
    BY DEF Contains
<1>1. /\ i \in 1 .. (Len(s) + 1)
      /\ i <= Len(s) => tm[s[i]].next >= tm[t].next
      /\ \A k \in 1 .. (i - 1) : ~(tm[s[k]].next >= tm[t].next)
    BY LowerBound, Zenon
<1> HIDE DEF i
<1>2. /\ r \in Seq(Timers)
      /\ Len(r) = Len(s) + 1
      /\ \A k \in 1 .. (Len(s) + 1) :
            r[k] = IF k < i THEN s[k] ELSE IF k = i THEN t ELSE s[k - 1]
    BY <1>1, EmplaceProperties
<1> HIDE DEF r
<1>3. \A k \in 1 .. Len(r) : /\ k < i => (r[k] = s[k] /\ k \in 1 .. Len(s))
                             /\ k = i => r[k] = t
                             /\ k > i => (r[k] = s[k - 1] /\ k - 1 \in 1 .. Len(s))
    BY <1>0, <1>1, <1>2
<1>4. Distinct(r)
    <2> SUFFICES ASSUME NEW j \in 1 .. Len(r), NEW k \in 1 .. Len(r), r[j] = r[k]
                 PROVE  j = k
        BY DEF Distinct
    <2>1. CASE j = i \/ k = i
        <3>1. ASSUME NEW l \in 1 .. Len(r), l # i
              PROVE  r[l] # t
            <4>1. l < i \/ l > i
                BY <1>1, <3>1
            <4> QED
                BY <1>0, <1>3, <4>1
        <3> QED
            BY <2>1, <1>3, <3>1
    <2>2. CASE j # i /\ k # i
        <3>1. PICK jj \in 1 .. Len(s) : r[j] = s[jj] /\ jj = (IF j < i THEN j ELSE j - 1)
            BY <2>2, <1>1, <1>3
        <3>2. PICK kk \in 1 .. Len(s) : r[k] = s[kk] /\ kk = (IF k < i THEN k ELSE k - 1)
            BY <2>2, <1>1, <1>3
        <3>3. jj = kk
            BY Zenon, <3>1, <3>2 DEF Distinct
        <3> QED
            BY <2>2, <1>1, <3>1, <3>2, <3>3
    <2> QED
        BY <2>1, <2>2
<1>5. i \in 1 .. Len(r) /\ r[i] = t
    BY <1>0, <1>1, <1>2
<1>6. ASSUME NEW u \in Timers, u # t
      PROVE  Contains(r, u) <=> Contains(s, u)
    <2>1. ASSUME NEW k \in 1 .. Len(r), r[k] = u
          PROVE  Contains(s, u)
        <3>1. CASE k < i
            BY <1>3, <2>1, <3>1 DEF Contains
        <3>2. CASE k > i
            <4>1. r[k] = s[k - 1] /\ k - 1 \in 1 .. Len(s)
                BY <1>3, <3>2
            <4> QED
                BY <2>1, <4>1 DEF Contains
        <3> QED
            BY <1>1, <1>3, <1>6, <2>1, <3>1, <3>2
    <2>2. ASSUME NEW k \in 1 .. Len(s), s[k] = u
          PROVE  Contains(r, u)
        <3>1. CASE k < i
            <4>1. k \in 1 .. Len(r) /\ r[k] = u
                BY <1>0, <1>1, <1>2, <2>2, <3>1
            <4> QED
                BY <4>1 DEF Contains
        <3>2. CASE ~(k < i)
            <4>1. k + 1 \in 1 .. Len(r) /\ k + 1 > i /\ (k + 1) - 1 = k
                BY <1>0, <1>1, <1>2, <3>2
            <4>2. r[k + 1] = u
                BY <1>3, <2>2, <4>1
            <4> QED
                BY <4>1, <4>2 DEF Contains
        <3> QED
            BY <3>1, <3>2
    <2> QED
        BY <2>1, <2>2 DEF Contains
<1>7. Sorted(r, tm)
    <2> SUFFICES ASSUME NEW j \in 1 .. Len(r), NEW k \in 1 .. Len(r), j < k
                 PROVE  tm[r[j]].next <= tm[r[k]].next
        BY DEF Sorted
    <2>1. \A l \in 1 .. Len(s) : tm[s[l]].next \in Int
        BY <1>0
    <2>2. ASSUME NEW l \in 1 .. Len(s), l < i
          PROVE  tm[s[l]].next <= tm[t].next
        <3>1. l \in 1 .. (i - 1)
            BY <1>1, <2>2
        <3>2. ~(tm[s[l]].next >= tm[t].next)
            BY <1>1, <3>1
        <3> QED
            BY <2>1, <3>2
    <2>3. \A l \in 1 .. Len(s) : l >= i => tm[t].next <= tm[s[l]].next
        BY SMTT(30), <1>0, <1>1, <2>1 DEF Sorted
    <2>4. CASE k < i
        BY <2>4, <1>1, <1>2, <1>3 DEF Sorted
    <2>5. CASE j < i /\ k = i
        BY <2>5, <1>3, <2>2
    <2>6. CASE j < i /\ k > i
        <3>1. j < k - 1 \/ j = k - 1
            BY <1>1, <2>6
        <3>2. r[j] = s[j] /\ r[k] = s[k - 1] /\ j \in 1 .. Len(s) /\ k - 1 \in 1 .. Len(s)
            BY <1>3, <2>6
        <3>3. tm[s[j]].next <= tm[t].next /\ tm[t].next <= tm[s[k - 1]].next
            BY <1>1, <2>2, <2>3, <2>6, <3>2
        <3> QED
            BY <2>1, <3>2, <3>3
    <2>7. CASE j = i
        BY SMTT(30), <2>7, <1>1, <1>3, <2>3
    <2>8. CASE j > i
        <3>1. r[j] = s[j - 1] /\ r[k] = s[k - 1] /\ j - 1 \in 1 .. Len(s) /\ k - 1 \in 1 .. Len(s)
            BY <1>1, <1>3, <2>8
        <3>2. j - 1 < k - 1
            OBVIOUS
        <3> QED
            BY <3>1, <3>2 DEF Sorted
    <2> QED
        BY <1>1, <2>4, <2>5, <2>6, <2>7, <2>8
<1> QED
    BY <1>2, <1>4, <1>5, <1>6, <1>7 DEF Contains, i, r

\* What sort_timers leaves: the same timers, in order.
LEMMA SortedTimers ==
    ASSUME NEW s \in Seq(Timers), Distinct(s), NEW r \in sort_timers(s)
    PROVE  /\ r \in Seq(Timers) /\ Distinct(r) /\ Sorted(r, timer)
           /\ \A u \in Timers : Contains(r, u) <=> Contains(s, u)
<1> DEFINE D == 1 .. Len(s)
<1>0. Len(s) \in Nat /\ DOMAIN s = D /\ s \in [D -> Timers]
    OBVIOUS
<1>1. PICK p \in Bijection(D, D) : r = [i \in D |-> s[p[i]]]
    BY <1>0 DEF sort_timers
<1>2. \A i, j \in DOMAIN r : i < j => timer[r[i]].next <= timer[r[j]].next
    BY DEF sort_timers
<1>3. /\ p \in [D -> D]
      /\ \A i, j \in D : p[i] = p[j] => i = j
      /\ \A k \in D : \E i \in D : p[i] = k
    BY DEF Bijection, Injection, Surjection, IsInjective
<1>4. r \in [D -> Timers] /\ DOMAIN r = D
    BY <1>0, <1>1, <1>3
<1>5. r \in Seq(Timers) /\ Len(r) = Len(s)
    BY <1>0, <1>4
<1>6. \A i \in D : r[i] = s[p[i]] /\ p[i] \in D
    BY <1>1, <1>3
<1>7. Distinct(r)
    <2> SUFFICES ASSUME NEW i \in D, NEW j \in D, r[i] = r[j]
                 PROVE  i = j
        BY <1>5 DEF Distinct
    <2>1. s[p[i]] = s[p[j]] /\ p[i] \in D /\ p[j] \in D
        BY <1>6
    <2>2. p[i] = p[j]
        BY <2>1 DEF Distinct
    <2> QED
        BY <1>3, <2>2
<1>8. ASSUME NEW u \in Timers
      PROVE  Contains(r, u) <=> Contains(s, u)
    <2>1. ASSUME NEW i \in D, r[i] = u
          PROVE  Contains(s, u)
        BY <1>6, <2>1 DEF Contains
    <2>2. ASSUME NEW k \in D, s[k] = u
          PROVE  Contains(r, u)
        <3>1. PICK i \in D : p[i] = k
            BY <1>3
        <3> QED
            BY <1>5, <1>6, <2>2, <3>1 DEF Contains
    <2> QED
        BY <1>5, <2>1, <2>2 DEF Contains
<1>9. Sorted(r, timer)
    BY <1>2, <1>4, <1>5 DEF Sorted
<1> QED
    BY <1>5, <1>7, <1>8, <1>9

\* Cutting off the cancelled timers at the end keeps the others.
LEMMA CutOff ==
    ASSUME NEW s \in Seq(Timers), Distinct(s), Sorted(s, timer),
           \A u \in Timers : timer[u].next \in Int, CancelTime \in Nat
    PROVE  LET r == SubSeq(s, 1, Min({i \in 1 .. Len(s) : timer[s[i]].next >= CancelTime}
                                        \cup {Len(s) + 1}) - 1)
           IN  /\ r \in Seq(Timers) /\ Distinct(r) /\ Sorted(r, timer)
               /\ \A u \in Timers : Contains(r, u) => Contains(s, u)
               /\ \A u \in Timers : (Contains(s, u) /\ timer[u].next < CancelTime) => Contains(r, u)
<1> DEFINE T == {i \in 1 .. Len(s) : timer[s[i]].next >= CancelTime} \cup {Len(s) + 1}
           m == Min(T)
           r == SubSeq(s, 1, m - 1)
<1>0. Len(s) \in Nat /\ \A k \in 1 .. Len(s) : s[k] \in Timers
    OBVIOUS
<1>1. T \in SUBSET Nat /\ T # {} /\ \A i \in T : i \in 1 .. (Len(s) + 1)
    OBVIOUS
<1> HIDE DEF T
<1>2. m \in T /\ \A y \in T : m <= y
    BY <1>1, MinNatural
<1>3. m \in 1 .. (Len(s) + 1)
    BY Zenon, <1>1, <1>2
<1> HIDE DEF m
<1>4. m <= Len(s) => timer[s[m]].next >= CancelTime
    BY <1>0, <1>2, <1>3 DEF T
<1>5. r \in Seq(Timers) /\ Len(r) = m - 1 /\ \A k \in 1 .. (m - 1) : r[k] = s[k] /\ k \in 1 .. Len(s)
    BY <1>0, <1>3
<1> HIDE DEF r
<1>6. Distinct(r) /\ Sorted(r, timer)
    BY Zenon, <1>3, <1>5 DEF Distinct, Sorted
<1>7. \A u \in Timers : Contains(r, u) => Contains(s, u)
    BY <1>3, <1>5 DEF Contains
<1>8. ASSUME NEW u \in Timers, NEW k \in 1 .. Len(s), s[k] = u, timer[u].next < CancelTime
      PROVE  Contains(r, u)
    <2>1. k < m
        <3>1. SUFFICES ASSUME m <= k PROVE FALSE
            BY <1>3
        <3>2. timer[s[m]].next >= CancelTime /\ m \in 1 .. Len(s)
            BY <1>0, <1>3, <1>4, <3>1
        <3>3. timer[s[m]].next <= timer[s[k]].next
            <4>1. CASE m = k
                BY <1>0, <4>1
            <4>2. CASE m < k
                BY <3>2, <4>2 DEF Sorted
            <4> QED
                BY <1>3, <3>1, <4>1, <4>2
        <3>4. timer[s[m]].next \in Int /\ timer[s[k]].next \in Int
            BY <1>0, <3>2
        <3> QED
            BY <1>8, <3>2, <3>3, <3>4
    <2>2. k \in 1 .. Len(r) /\ r[k] = u
        BY <1>3, <1>5, <1>8, <2>1
    <2> QED
        BY <2>2 DEF Contains
<1> QED
    BY Zenon, <1>5, <1>6, <1>7, <1>8 DEF Contains, r, m, T

----------------------------------------------------------------------------
(* The inductive invariant.                                                *)

TimerRecord == [alive : BOOLEAN, state : {"INACTIVE", "READY", "WAITING"},
                interval : Intervals, next : Int]

ServiceRecord == [pc : {"update", "pending", "place", "trigger", "callback", "sort", "lock",
                        "wait", "joined"},
                  at : Nat \ {0}, did_something : BOOLEAN, notified : BOOLEAN, stop : BOOLEAN]

CallRecord == [op : {"none", "notify", "notify_until", "unregister"}, timer : Timers]

USE DEF TimerRecord, ServiceRecord, CallRecord

Typed ==
    /\ timer \in [Timers -> TimerRecord]
    /\ pending \in Seq(Timers) /\ active \in Seq(Timers)
    /\ allow \in BOOLEAN
    /\ service \in ServiceRecord
    /\ lag \in Nat
    /\ call \in [Callers -> CallRecord]
    /\ gave_up \subseteq Timers

\* Where the service thread is in its loop, and that only a waiting thread lets
\* others in, a running callback calls, and a thread destroys.
InStep ==
    /\ allow => At("wait")
    /\ call["callback"].op # "none" => At("callback")
    /\ call["callback"].op # "unregister"
    /\ At("trigger") => service.at <= Len(active) + 1
    /\ At("callback") => /\ service.at <= Len(active)
                         /\ timer[active[service.at]].state # "WAITING"
                         /\ service.did_something

\* The timers are in order, except from the first callback to the sort.
InOrder ==
    /\ Distinct(pending) /\ Distinct(active)
    /\ \/ service.pc \in {"callback", "sort", "joined"}
       \/ At("trigger") /\ service.did_something
       \/ Sorted(active, timer)

\* Nobody knows a timer that is gone, and who destroys one is alone with it.
Forgotten ==
    /\ \A t \in Timers :
        ~timer[t].alive =>
            /\ timer[t].state = "INACTIVE"
            /\ ~Contains(pending, t) /\ ~Contains(active, t)
            /\ \A c \in Callers : call[c].op # "none" => call[c].timer # t
    /\ \A c, d \in Threads :
        (c # d /\ call[c].op = "unregister" /\ call[d].op # "none")
            => call[c].timer # call[d].timer

\* A READY timer will still be looked at: the pass over the pending timers that
\* is under way has not come to it yet, or it will be announced.
ReadyIsSeen ==
    \A t \in Timers :
        timer[t].state = "READY" =>
            \/ \E i \in 1 .. Len(pending) : pending[i] = t /\ (At("place") => service.at <= i)
            \/ Announced(t)
            \/ t \in gave_up

WaitingIsActive ==
    \A t \in Timers :
        timer[t].state = "WAITING" => (Contains(active, t) /\ timer[t].next < CancelTime)

IInv == Typed /\ InStep /\ InOrder /\ Forgotten /\ ReadyIsSeen /\ WaitingIsActive
----------------------------------------------------------------------------
(* Every step keeps it.  One lemma per action.                             *)

\* Who calls.
LEMMA CallerFacts ==
    /\ Threads \subseteq Callers /\ "callback" \in Callers /\ "callback" \notin Threads
    /\ \A c \in Callers : c \in Threads \/ c = "callback"
    /\ NoCall.op = "none" /\ NoCall.timer \in Timers
    /\ NoCall \in CallRecord
    BY EventAssumption DEF Callers, NoCall

\* What intervals are.
LEMMA IntervalFacts ==
    /\ \A i \in Intervals : i \in Int /\ i > 0 /\ i < CancelTime
    /\ CancelTime \in Nat
    /\ \A t \in Timers : Interval[t] \in Intervals
    BY EventAssumption

\* A timer when it is created and when it is gone.
LEMMA CreatedFacts ==
    ASSUME NEW t \in Timers
    PROVE  /\ Created(t) \in TimerRecord
           /\ [Created(t) EXCEPT !.alive = FALSE]
                \in TimerRecord
<1>1. Interval[t] \in Intervals
    BY IntervalFacts
<1>2. Created(t) \in TimerRecord
    BY <1>1 DEF Created
<1>3. [Created(t) EXCEPT !.alive = FALSE]
            \in TimerRecord
    BY Zenon, <1>2
<1> QED
    BY <1>2, <1>3

\* The service thread goes to another place.
LEMMA ServiceMoves ==
    ASSUME NEW s \in ServiceRecord, NEW n \in Nat \ {0}, NEW b \in BOOLEAN,
           NEW pc \in {"update", "pending", "place", "trigger", "callback", "sort", "lock",
                       "wait", "joined"}
    PROVE  /\ [s EXCEPT !.pc = pc, !.at = n] \in ServiceRecord
           /\ [s EXCEPT !.pc = pc, !.at = n, !.did_something = b] \in ServiceRecord
           /\ [s EXCEPT !.pc = pc, !.did_something = b] \in ServiceRecord
           /\ [s EXCEPT !.at = n, !.did_something = b] \in ServiceRecord
           /\ [s EXCEPT !.notified = b, !.pc = pc] \in ServiceRecord
           /\ [s EXCEPT !.pc = pc, !.notified = b] \in ServiceRecord
<1>1. ASSUME NEW r \in ServiceRecord
      PROVE  /\ [r EXCEPT !.pc = pc] \in ServiceRecord
             /\ [r EXCEPT !.at = n] \in ServiceRecord
             /\ [r EXCEPT !.did_something = b] \in ServiceRecord
             /\ [r EXCEPT !.notified = b] \in ServiceRecord
    OBVIOUS
<1>2. /\ [[s EXCEPT !.pc = pc] EXCEPT !.at = n] \in ServiceRecord
      /\ [[[s EXCEPT !.pc = pc] EXCEPT !.at = n] EXCEPT !.did_something = b] \in ServiceRecord
      /\ [[s EXCEPT !.pc = pc] EXCEPT !.did_something = b] \in ServiceRecord
      /\ [[s EXCEPT !.at = n] EXCEPT !.did_something = b] \in ServiceRecord
      /\ [[s EXCEPT !.notified = b] EXCEPT !.pc = pc] \in ServiceRecord
      /\ [[s EXCEPT !.pc = pc] EXCEPT !.notified = b] \in ServiceRecord
    BY Zenon, <1>1
<1> QED
    BY Zenon, <1>2

\* The first halves of restart_timer and cancel_timer.
LEMMA BeginStep ==
    ASSUME IInv, NEW c \in Callers, NEW t \in Timers, MayUse(c, t),
           NEW state \in {"INACTIVE", "READY", "WAITING"},
           NEW op \in {"none", "notify", "notify_until"}, Begin(c, t, state, op),
           state # "INACTIVE" => (state = timer[t].state \/ (state = "READY" /\ op # "none"))
    PROVE  IInv'
<1> USE CallerFacts
<1>0. /\ Typed /\ InStep /\ InOrder /\ Forgotten /\ ReadyIsSeen /\ WaitingIsActive
      /\ timer[t].alive /\ call[c].op = "none"
      /\ c = "callback" => At("callback")
      /\ c \in Threads => ~Destroying(t)
    BY DEF IInv, MayUse, MayCall, At
<1>1. /\ timer' = [timer EXCEPT ![t].state = state]
      /\ call' = [call EXCEPT ![c] = IF op = "none" THEN NoCall ELSE [op |-> op, timer |-> t]]
      /\ UNCHANGED <<pending, active, allow, service, lag, gave_up>>
    BY DEF Begin
<1>2. Typed'
    <2>1. timer' \in [Timers -> TimerRecord]
        <3>1. timer \in [Timers -> TimerRecord]
            BY <1>0 DEF Typed
        <3> QED
            BY <1>1, <3>1
    <2>2. call' \in [Callers -> CallRecord]
        BY <1>0, <1>1 DEF Typed
    <2> QED
        BY <1>0, <1>1, <2>1, <2>2 DEF Typed
<1>3. /\ \A u \in Timers : /\ timer'[u].alive = timer[u].alive
                           /\ timer'[u].next = timer[u].next
                           /\ u # t => timer'[u].state = timer[u].state
      /\ timer'[t].state = state
      /\ \A d \in Callers : d # c => call'[d] = call[d]
      /\ call'[c].op = op /\ (op # "none" => call'[c].timer = t)
    BY <1>0, <1>1 DEF Typed
<1>4. InStep'
    <2>1. At("callback") => (timer[active[service.at]].state # "WAITING" /\ active[service.at] \in Timers)
        BY <1>0 DEF Typed, InStep
    <2> QED
        BY <1>0, <1>1, <1>3, <2>1 DEF InStep, At
<1>5. InOrder'
    <2>1. Sorted(active, timer) => Sorted(active, timer')
        <3>1. \A i \in 1 .. Len(active) : active[i] \in Timers
            BY <1>0 DEF Typed
        <3> QED
            BY <1>3, <3>1 DEF Sorted
    <2> QED
        BY <1>0, <1>1, <2>1 DEF InOrder, At
<1>6. Forgotten'
    <2>1. ASSUME NEW u \in Timers, ~timer'[u].alive
          PROVE  /\ timer'[u].state = "INACTIVE"
                 /\ ~Contains(pending, u) /\ ~Contains(active, u)
                 /\ \A d \in Callers : call'[d].op # "none" => call'[d].timer # u
        <3>1. ~timer[u].alive /\ u # t
            BY <1>0, <1>3, <2>1
        <3> QED
            BY <1>0, <1>3, <3>1 DEF Forgotten
    <2>2. ASSUME NEW d \in Threads, NEW e \in Threads, d # e,
                 call'[d].op = "unregister", call'[e].op # "none"
          PROVE  call'[d].timer # call'[e].timer
        <3>1. d # c /\ call'[d] = call[d]
            BY <1>3, <2>2
        <3>2. CASE e = c
            <4>1. call'[e].timer = t
                BY <1>3, <2>2, <3>2
            <4>2. ~Destroying(t)
                BY <1>0, <3>2
            <4>3. call[d] # [op |-> "unregister", timer |-> t]
                BY <4>2 DEF Destroying
            <4>4. call[d] \in CallRecord
                BY <1>0 DEF Typed
            <4> QED
                BY <2>2, <3>1, <4>1, <4>3, <4>4
        <3>3. CASE e # c
            BY <1>0, <1>3, <2>2, <3>1, <3>3 DEF Forgotten
        <3> QED
            BY <3>2, <3>3
    <2> QED
        BY <1>1, <2>1, <2>2 DEF Forgotten
<1>7. ReadyIsSeen'
    <2> SUFFICES ASSUME NEW u \in Timers, timer'[u].state = "READY"
                 PROVE  \/ \E i \in 1 .. Len(pending) :
                                pending[i] = u /\ (At("place") => service.at <= i)
                        \/ Announced(u)'
                        \/ u \in gave_up
        BY <1>1 DEF ReadyIsSeen, At
    <2>1. CASE timer[u].state = "READY"
        <3>1. Announced(u) => Announced(u)'
            BY <1>0, <1>3 DEF Announced
        <3> QED
            BY <1>0, <2>1, <3>1 DEF ReadyIsSeen
    <2>2. CASE timer[u].state # "READY"
        <3>1. u = t /\ op # "none"
            BY <1>3, <2>2
        <3> QED
            BY <1>3, <3>1 DEF Announced
    <2> QED
        BY <2>1, <2>2
<1>8. WaitingIsActive'
    <2>1. \A u \in Timers : timer'[u].state = "WAITING" => timer[u].state = "WAITING"
        BY <1>3
    <2> QED
        BY <1>0, <1>1, <1>3, <2>1 DEF WaitingIsActive
<1> QED
    BY <1>2, <1>4, <1>5, <1>6, <1>7, <1>8 DEF IInv

\* restart_timer
LEMMA RestartStep ==
    ASSUME IInv, NEW c \in Callers, NEW t \in Timers, restart_timer(c, t)
    PROVE  IInv'
<1>1. MayUse(c, t) /\ timer[t].state \in {"INACTIVE", "READY", "WAITING"}
    BY DEF restart_timer, IInv, Typed
<1>2. CASE timer[t].state = "INACTIVE"
    <2>1. PICK op \in {"notify", "notify_until"} : Begin(c, t, "READY", op)
        BY <1>2 DEF restart_timer
    <2> QED
        BY <1>1, <2>1, BeginStep
<1>3. CASE timer[t].state # "INACTIVE"
    <2>1. Begin(c, t, timer[t].state, "none")
        BY <1>3 DEF restart_timer
    <2> QED
        BY <1>1, <2>1, BeginStep
<1> QED
    BY <1>2, <1>3

\* cancel_timer
LEMMA CancelStep ==
    ASSUME IInv, NEW c \in Callers, NEW t \in Timers, cancel_timer(c, t)
    PROVE  IInv'
<1>1. MayUse(c, t)
    BY DEF cancel_timer
<1>2. PICK op \in {"none", "notify"} : Begin(c, t, "INACTIVE", op)
    BY DEF cancel_timer
<1> QED
    BY <1>1, <1>2, BeginStep
\* A step that leaves the timers, the calls and the vectors alone keeps what is
\* not about the service thread.
LEMMA ServiceOnly ==
    ASSUME IInv, UNCHANGED <<timer, pending, active, call, gave_up>>,
           At("place") <=> At("place")', service'.at = service.at
    PROVE  Forgotten' /\ ReadyIsSeen' /\ WaitingIsActive'
<1>1. Forgotten /\ ReadyIsSeen /\ WaitingIsActive
    BY DEF IInv
<1>2. Forgotten'
    BY <1>1 DEF Forgotten
<1>3. ReadyIsSeen'
    BY <1>1 DEF ReadyIsSeen, Announced
<1>4. WaitingIsActive'
    BY <1>1 DEF WaitingIsActive
<1> QED
    BY <1>2, <1>3, <1>4

\* update_interval
LEMMA IntervalStep ==
    ASSUME IInv, NEW c \in Callers, NEW t \in Timers, update_interval(c, t)
    PROVE  IInv'
<1>0. Typed /\ InStep /\ InOrder /\ Forgotten /\ ReadyIsSeen /\ WaitingIsActive
    BY DEF IInv
<1>1. PICK interval \in Intervals : timer' = [timer EXCEPT ![t].interval = interval]
    BY Zenon DEF update_interval
<1>2. UNCHANGED <<pending, active, allow, service, lag, call, gave_up>>
    BY DEF update_interval
<1>3. Typed'
    <2>1. timer' \in [Timers -> TimerRecord]
        BY ZenonT(40), <1>0, <1>1 DEF Typed
    <2> QED
        BY <1>0, <1>2, <2>1 DEF Typed
<1>4. \A u \in Timers : /\ timer'[u].alive = timer[u].alive
                        /\ timer'[u].next = timer[u].next
                        /\ timer'[u].state = timer[u].state
    BY <1>0, <1>1 DEF Typed
<1>5. \A i \in 1 .. Len(active) : active[i] \in Timers
    BY <1>0 DEF Typed
<1>6. InStep'
    <2>1. At("callback") => active[service.at] \in Timers
        BY <1>0 DEF Typed, InStep
    <2> QED
        BY <1>0, <1>2, <1>4, <2>1 DEF InStep, At
<1>7. InOrder'
    <2>1. Sorted(active, timer) => Sorted(active, timer')
        BY <1>4, <1>5 DEF Sorted
    <2> QED
        BY <1>0, <1>2, <2>1 DEF InOrder, At
<1>8. Forgotten'
    BY <1>0, <1>2, <1>4 DEF Forgotten
<1>9. ReadyIsSeen'
    BY <1>0, <1>2, <1>4 DEF ReadyIsSeen, Announced, At
<1>10. WaitingIsActive'
    BY <1>0, <1>2, <1>4 DEF WaitingIsActive
<1> QED
    BY <1>3, <1>6, <1>7, <1>8, <1>9, <1>10 DEF IInv

\* Waking the service changes nothing but a flag.
LEMMA NotifiedFacts ==
    ASSUME Typed
    PROVE  /\ Notified.pc = service.pc /\ Notified.at = service.at
           /\ Notified.did_something = service.did_something
           /\ Notified.stop = service.stop
           /\ Notified \in ServiceRecord
    BY Zenon DEF Notified, Typed

\* The second half of a call: the timer is made pending, or the call gives up.
LEMMA NotifyStep ==
    ASSUME IInv, NEW c \in Callers, notify(c)
    PROVE  IInv'
<1> USE CallerFacts
<1> DEFINE t == call[c].timer
<1>0. /\ Typed /\ InStep /\ InOrder /\ Forgotten /\ ReadyIsSeen /\ WaitingIsActive
      /\ t \in Timers
    BY DEF IInv, Typed
<1>1. /\ call[c].op \in {"notify", "notify_until"}
      /\ call' = [call EXCEPT ![c] = NoCall]
      /\ UNCHANGED <<timer, active, allow, lag>>
    BY DEF notify
<1>2. /\ \A d \in Callers : d # c => call'[d] = call[d]
      /\ call'[c] = NoCall
    BY <1>0, <1>1 DEF Typed
<1>3. call' \in [Callers -> CallRecord]
    BY <1>0, <1>1 DEF Typed
<1>4. \/ /\ ~At("place")
         /\ pending' = IF Contains(pending, t) THEN pending ELSE Append(pending, t)
         /\ service' = service \/ service' = Notified
         /\ gave_up' = gave_up \ {t}
      \/ gave_up' = gave_up \cup {t} /\ UNCHANGED <<pending, service>>
    BY DEF notify, register_timer_nts, Locked
<1>5. /\ service'.pc = service.pc /\ service'.at = service.at
      /\ service'.did_something = service.did_something
      /\ service' \in ServiceRecord
    BY <1>0, <1>4, NotifiedFacts DEF Typed
<1>6. /\ pending' \in Seq(Timers) /\ Distinct(pending')
      /\ \A u \in Timers : Contains(pending', u) => (Contains(pending, u) \/ u = t)
      /\ \A u \in Timers : Contains(pending, u) => Contains(pending', u)
      /\ Contains(pending', t) \/ t \in gave_up'
    <2>1. CASE pending' = pending
        BY <1>0, <1>4, <2>1 DEF Typed, InOrder, Contains
    <2>2. CASE pending' = Append(pending, t) /\ ~Contains(pending, t)
        <3>1. /\ pending \in Seq(Timers) /\ Len(pending) \in Nat
              /\ pending' \in Seq(Timers)
              /\ Len(pending') = Len(pending) + 1
              /\ \A i \in 1 .. Len(pending) : pending'[i] = pending[i]
              /\ pending'[Len(pending) + 1] = t
            BY <1>0, <2>2 DEF Typed
        <3>2. \A i \in 1 .. Len(pending') : i \in 1 .. Len(pending) \/ i = Len(pending) + 1
            BY <3>1
        <3>3. Distinct(pending')
            BY <1>0, <2>2, <3>1, <3>2 DEF InOrder, Distinct, Contains
        <3> QED
            BY <3>1, <3>2, <3>3 DEF Contains
    <2> QED
        BY <1>4, <2>1, <2>2
<1>7. Typed'
    BY <1>0, <1>1, <1>3, <1>4, <1>5, <1>6 DEF Typed
<1>8. InStep'
    BY <1>0, <1>1, <1>2, <1>5 DEF InStep, At
<1>9. InOrder'
    BY <1>0, <1>1, <1>5, <1>6 DEF InOrder, At
<1>10. Forgotten'
    <2>1. ASSUME NEW u \in Timers, ~timer[u].alive
          PROVE  /\ timer[u].state = "INACTIVE"
                 /\ ~Contains(pending', u) /\ ~Contains(active, u)
                 /\ \A d \in Callers : call'[d].op # "none" => call'[d].timer # u
        <3>1. u # t
            BY <1>0, <1>1, <2>1 DEF Forgotten
        <3> QED
            BY <1>0, <1>2, <1>6, <2>1, <3>1 DEF Forgotten
    <2>2. \A d, e \in Threads :
            (d # e /\ call'[d].op = "unregister" /\ call'[e].op # "none")
                => call'[d].timer # call'[e].timer
        BY <1>0, <1>2 DEF Forgotten
    <2> QED
        BY <1>1, <2>1, <2>2 DEF Forgotten
<1>11. ReadyIsSeen'
    <2> SUFFICES ASSUME NEW u \in Timers, timer[u].state = "READY"
                 PROVE  \/ \E i \in 1 .. Len(pending') :
                                pending'[i] = u /\ (At("place")' => service'.at <= i)
                        \/ Announced(u)'
                        \/ u \in gave_up'
        BY <1>1 DEF ReadyIsSeen
    <2>1. u # t => (Announced(u) => Announced(u)')
        BY <1>2 DEF Announced
    <2>2. u # t => (u \in gave_up => u \in gave_up')
        BY <1>4
    <2>3. CASE At("place")
        <3>1. UNCHANGED <<pending, service>> /\ t \in gave_up'
            BY <1>4, <2>3
        <3> QED
            BY <1>0, <2>1, <2>2, <3>1 DEF ReadyIsSeen, At
    <2>4. CASE ~At("place")
        <3>1. ~At("place")'
            BY <1>5, <2>4 DEF At
        <3>2. Contains(pending', u) \/ Announced(u)' \/ u \in gave_up'
            BY <1>0, <1>6, <2>1, <2>2 DEF ReadyIsSeen, Contains
        <3> QED
            BY <3>1, <3>2 DEF Contains
    <2> QED
        BY <2>3, <2>4
<1>12. WaitingIsActive'
    BY <1>0, <1>1 DEF WaitingIsActive
<1> QED
    BY <1>7, <1>8, <1>9, <1>10, <1>11, <1>12 DEF IInv
\* A new timer is known to nobody.
LEMMA CreateStep ==
    ASSUME IInv, NEW c \in Callers, NEW t \in Timers, create(c, t)
    PROVE  IInv'
<1>0. Typed /\ InStep /\ InOrder /\ Forgotten /\ ReadyIsSeen /\ WaitingIsActive
    BY DEF IInv
<1>1. /\ ~timer[t].alive
      /\ timer' = [timer EXCEPT ![t] = Created(t)]
      /\ service' = Notified
      /\ UNCHANGED <<pending, active, allow, lag, call, gave_up>>
    BY DEF create
<1>2. /\ service'.pc = service.pc /\ service'.at = service.at
      /\ service'.did_something = service.did_something
    BY <1>0, <1>1, NotifiedFacts
<1>3. /\ \A u \in Timers : u # t => timer'[u] = timer[u]
      /\ timer'[t].state = "INACTIVE" /\ timer'[t].alive
    BY <1>0, <1>1 DEF Typed, Created
<1>4. Typed'
    <2>1. Created(t) \in TimerRecord
        BY Zenon, CreatedFacts
    <2>2. timer' \in [Timers -> TimerRecord]
        BY <1>0, <1>1, <2>1 DEF Typed
    <2> QED
        BY <1>0, <1>1, <2>2, NotifiedFacts DEF Typed
<1>5. \A i \in 1 .. Len(active) : active[i] \in Timers /\ active[i] # t
    BY <1>0, <1>1 DEF Typed, Forgotten, Contains
<1>6. InStep'
    <2>1. At("callback") => timer'[active[service.at]] = timer[active[service.at]]
        BY <1>0, <1>3, <1>5 DEF Typed, InStep
    <2> QED
        BY <1>0, <1>1, <1>2, <2>1 DEF InStep, At
<1>7. InOrder'
    <2>1. Sorted(active, timer) => Sorted(active, timer')
        BY <1>3, <1>5 DEF Sorted
    <2> QED
        BY <1>0, <1>1, <1>2, <2>1 DEF InOrder, At
<1>8. Forgotten'
    BY <1>0, <1>1, <1>3 DEF Forgotten
<1>9. ReadyIsSeen'
    BY <1>0, <1>1, <1>2, <1>3 DEF ReadyIsSeen, Announced, At
<1>10. WaitingIsActive'
    BY <1>0, <1>1, <1>3 DEF WaitingIsActive
<1> QED
    BY <1>4, <1>6, <1>7, <1>8, <1>9, <1>10 DEF IInv

\* The destructor begins when no thread is in a call on the timer.
LEMMA DestroyStep ==
    ASSUME IInv, NEW c \in Callers, NEW t \in Timers, destroy(c, t)
    PROVE  IInv'
<1> USE CallerFacts
<1>0. Typed /\ InStep /\ InOrder /\ Forgotten /\ ReadyIsSeen /\ WaitingIsActive
    BY DEF IInv
<1>1. /\ c \in Threads /\ call[c].op = "none" /\ timer[t].alive
      /\ \A d \in Threads : call[d].op # "none" => call[d].timer # t
      /\ call' = [call EXCEPT ![c] = [op |-> "unregister", timer |-> t]]
      /\ UNCHANGED <<timer, pending, active, allow, service, lag, gave_up>>
    BY DEF destroy, MayUse, MayCall
<1>2. /\ \A d \in Callers : d # c => call'[d] = call[d]
      /\ call'[c].op = "unregister" /\ call'[c].timer = t
    BY <1>0, <1>1 DEF Typed
<1>3. Typed'
    <2>1. call' \in [Callers -> CallRecord]
        BY <1>0, <1>1 DEF Typed
    <2> QED
        BY <1>0, <1>1, <2>1 DEF Typed
<1>4. InStep'
    BY <1>0, <1>1, <1>2 DEF InStep, At
<1>5. InOrder'
    BY <1>0, <1>1 DEF InOrder, At
<1>6. Forgotten'
    <2>1. ASSUME NEW u \in Timers, ~timer[u].alive, NEW d \in Callers, call'[d].op # "none"
          PROVE  call'[d].timer # u
        BY <1>0, <1>1, <1>2, <2>1 DEF Forgotten
    <2>2. ASSUME NEW d \in Threads, NEW e \in Threads, d # e,
                 call'[d].op = "unregister", call'[e].op # "none"
          PROVE  call'[d].timer # call'[e].timer
        <3>1. CASE d = c
            BY <1>1, <1>2, <2>2, <3>1
        <3>2. CASE e = c
            BY <1>1, <1>2, <2>2, <3>2
        <3>3. CASE d # c /\ e # c
            BY <1>0, <1>2, <2>2, <3>3 DEF Forgotten
        <3> QED
            BY <3>1, <3>2, <3>3
    <2> QED
        BY <1>0, <1>1, <2>1, <2>2 DEF Forgotten
<1>7. ReadyIsSeen'
    <2>1. \A u \in Timers : Announced(u) => Announced(u)'
        BY <1>1, <1>2 DEF Announced
    <2> QED
        BY <1>0, <1>1, <2>1 DEF ReadyIsSeen, At
<1>8. WaitingIsActive'
    BY <1>0, <1>1 DEF WaitingIsActive
<1> QED
    BY <1>3, <1>4, <1>5, <1>6, <1>7, <1>8 DEF IInv

\* The timer is taken from both vectors, and nobody is in a call on it.
LEMMA UnregisterStep ==
    ASSUME IInv, NEW c \in Callers, unregister_timer(c)
    PROVE  IInv'
<1> USE CallerFacts
<1> DEFINE t == call[c].timer
<1>0. /\ Typed /\ InStep /\ InOrder /\ Forgotten /\ ReadyIsSeen /\ WaitingIsActive
      /\ t \in Timers
    BY DEF IInv, Typed
<1>1. /\ call[c].op = "unregister" /\ allow
      /\ pending' = erase(pending, find(pending, 1, t))
      /\ active' = erase(active, find(active, 1, t))
      /\ service' = Notified \/ service' = service
      /\ timer' = [timer EXCEPT ![t] = [Created(t) EXCEPT !.alive = FALSE]]
      /\ gave_up' = gave_up \ {t}
      /\ call' = [call EXCEPT ![c] = NoCall]
      /\ UNCHANGED <<allow, lag>>
    BY DEF unregister_timer, erase_pending
<1>2. /\ service'.pc = "wait" /\ service'.pc = service.pc
      /\ service' \in ServiceRecord
    BY <1>0, <1>1, NotifiedFacts DEF Typed, InStep, At
<1>3. c \in Threads /\ \A d \in Callers : (d # c /\ call[d].op # "none") => call[d].timer # t
    <2>1. call["callback"].op = "none"
        BY <1>0, <1>2 DEF InStep, At
    <2> QED
        BY <1>0, <1>1, <2>1 DEF Forgotten
<1>4. /\ \A d \in Callers : d # c => call'[d] = call[d]
      /\ call'[c] = NoCall
    BY <1>0, <1>1 DEF Typed
<1>5. /\ \A u \in Timers : u # t => timer'[u] = timer[u]
      /\ timer'[t].state = "INACTIVE" /\ ~timer'[t].alive
    BY <1>0, <1>1 DEF Typed, Created
<1>6. /\ pending' \in Seq(Timers) /\ Distinct(pending') /\ ~Contains(pending', t)
      /\ \A u \in Timers \ {t} : Contains(pending', u) <=> Contains(pending, u)
    <2>1. pending \in Seq(Timers) /\ Distinct(pending)
        BY <1>0 DEF Typed, InOrder
    <2>2. 1 \in Nat \ {0} /\ \A k \in 1 .. (1 - 1) : k <= Len(pending) => pending[k] # t
        OBVIOUS
    <2> HIDE DEF t
    <2>3. t \in Timers
        BY <1>0
    <2> QED
        BY Zenon, <1>1, <2>1, <2>2, <2>3, Erased
<1>7. /\ active' \in Seq(Timers) /\ Distinct(active') /\ ~Contains(active', t)
      /\ \A u \in Timers \ {t} : Contains(active', u) <=> Contains(active, u)
      /\ Sorted(active', timer)
    <2>1. active \in Seq(Timers) /\ Distinct(active) /\ Sorted(active, timer)
        BY <1>0, <1>2 DEF Typed, InOrder, At
    <2>2. 1 \in Nat \ {0} /\ \A k \in 1 .. (1 - 1) : k <= Len(active) => active[k] # t
        OBVIOUS
    <2> HIDE DEF t
    <2>3. t \in Timers
        BY <1>0
    <2> QED
        BY Zenon, <1>1, <2>1, <2>2, <2>3, Erased
<1> HIDE DEF t
<1>8. Typed'
    <2>1. [Created(t) EXCEPT !.alive = FALSE]
                \in TimerRecord
        BY <1>0, CreatedFacts
    <2>2. timer' \in [Timers -> TimerRecord]
        BY <1>0, <1>1, <2>1 DEF Typed
    <2>3. call' \in [Callers -> CallRecord]
        BY <1>0, <1>1 DEF Typed
    <2> QED
        BY <1>0, <1>1, <1>2, <1>6, <1>7, <2>2, <2>3 DEF Typed
<1>9. InStep'
    BY <1>0, <1>1, <1>2, <1>3, <1>4 DEF InStep, At
<1>10. InOrder'
    <2>1. \A i \in 1 .. Len(active') : active'[i] \in Timers /\ active'[i] # t
        BY <1>7 DEF Contains
    <2>2. Sorted(active', timer')
        BY <1>5, <1>7, <2>1 DEF Sorted
    <2> QED
        BY <1>6, <1>7, <2>2 DEF InOrder
<1>11. Forgotten'
    <2>1. ASSUME NEW u \in Timers, ~timer'[u].alive
          PROVE  /\ timer'[u].state = "INACTIVE"
                 /\ ~Contains(pending', u) /\ ~Contains(active', u)
                 /\ \A d \in Callers : call'[d].op # "none" => call'[d].timer # u
        <3>1. CASE u = t
            BY <1>3, <1>4, <1>5, <1>6, <1>7, <3>1
        <3>2. CASE u # t
            BY <1>0, <1>4, <1>5, <1>6, <1>7, <2>1, <3>2 DEF Forgotten
        <3> QED
            BY <3>1, <3>2
    <2>2. \A d, e \in Threads :
            (d # e /\ call'[d].op = "unregister" /\ call'[e].op # "none")
                => call'[d].timer # call'[e].timer
        BY <1>0, <1>4 DEF Forgotten
    <2> QED
        BY <2>1, <2>2 DEF Forgotten
<1>12. ReadyIsSeen'
    <2> SUFFICES ASSUME NEW u \in Timers, timer'[u].state = "READY"
                 PROVE  \/ Contains(pending', u)
                        \/ Announced(u)'
                        \/ u \in gave_up'
        BY <1>2 DEF ReadyIsSeen, At, Contains
    <2>1. u # t /\ timer[u].state = "READY"
        BY <1>5
    <2>2. Announced(u) => Announced(u)'
        BY <1>1, <1>4 DEF Announced
    <2>3. Contains(pending, u) \/ Announced(u) \/ u \in gave_up
        BY <1>0, <2>1 DEF ReadyIsSeen, Contains
    <2> QED
        BY <1>1, <1>6, <2>1, <2>2, <2>3
<1>13. WaitingIsActive'
    BY <1>0, <1>5, <1>7 DEF WaitingIsActive
<1> QED
    BY <1>8, <1>9, <1>10, <1>11, <1>12, <1>13 DEF IInv

\* ~ResourceEvent only sets a flag.
LEMMA StopStep ==
    ASSUME IInv, stop
    PROVE  IInv'
<1>0. Typed /\ InStep /\ InOrder
    BY DEF IInv
<1>1. /\ service' = [Notified EXCEPT !.stop = TRUE]
      /\ UNCHANGED <<timer, pending, active, allow, lag, call, gave_up>>
    BY DEF stop
<1>2. /\ service'.pc = service.pc /\ service'.at = service.at
      /\ service'.did_something = service.did_something
      /\ service' \in ServiceRecord
    BY Zenon, <1>0, <1>1, NotifiedFacts
<1>3. Typed'
    BY <1>0, <1>1, <1>2 DEF Typed
<1>4. InStep' /\ InOrder'
    BY <1>0, <1>1, <1>2 DEF InStep, InOrder, At
<1>5. Forgotten' /\ ReadyIsSeen' /\ WaitingIsActive'
    <2>1. At("place") <=> At("place")'
        BY <1>2 DEF At
    <2> QED
        BY <1>1, <1>2, <2>1, ServiceOnly
<1> QED
    BY <1>3, <1>4, <1>5 DEF IInv
\* The clock is read: the times of the active timers come nearer alike.
LEMMA CurrentTimeStep ==
    ASSUME IInv, update_current_time
    PROVE  IInv'
<1>0. Typed /\ InStep /\ InOrder /\ Forgotten /\ ReadyIsSeen /\ WaitingIsActive
    BY DEF IInv
<1>1. /\ service.pc = "update" /\ service' = [service EXCEPT !.pc = "pending"]
      /\ timer' = [t \in Timers |->
                    [timer[t] EXCEPT !.next = IF Contains(active, t) THEN @ - lag ELSE @]]
      /\ lag' = 0
      /\ UNCHANGED <<pending, active, allow, call, gave_up>>
    BY DEF update_current_time, At, Goto
<1>2. /\ service'.pc = "pending"
      /\ service' \in ServiceRecord
    BY Zenon, <1>0, <1>1 DEF Typed
<1>3. \A t \in Timers :
        /\ timer'[t].alive = timer[t].alive /\ timer'[t].state = timer[t].state
        /\ timer[t].next \in Int /\ lag \in Nat
        /\ timer'[t].next = IF Contains(active, t) THEN timer[t].next - lag ELSE timer[t].next
    BY <1>0, <1>1 DEF Typed
<1>4. timer' \in [Timers -> TimerRecord]
    <2>1. ASSUME NEW t \in Timers, NEW n \in Int
          PROVE  [timer[t] EXCEPT !.next = n]
                    \in TimerRecord
        <3>1. timer[t] \in TimerRecord
            BY <1>0 DEF Typed
        <3> QED
            BY <3>1
    <2>2. ASSUME NEW t \in Timers
          PROVE  timer'[t] \in TimerRecord
        <3>1. timer'[t] = [timer[t] EXCEPT !.next = IF Contains(active, t) THEN timer[t].next - lag
                                                    ELSE timer[t].next]
            BY <1>1
        <3>2. timer[t].next \in Int /\ timer[t].next - lag \in Int
            BY <1>3
        <3> QED
            BY <2>1, <3>1, <3>2
    <2> QED
        BY <1>1, <2>2
<1>5. Typed'
    BY <1>0, <1>1, <1>2, <1>4 DEF Typed
<1>6. InStep'
    BY <1>0, <1>1, <1>2 DEF InStep, At
<1>7. InOrder'
    <2>1. \A i \in 1 .. Len(active) : active[i] \in Timers /\ Contains(active, active[i])
        BY <1>0 DEF Typed, Contains
    <2>2. Sorted(active, timer)
        BY <1>0, <1>1 DEF InOrder, At
    <2>3. Sorted(active, timer')
        <3> SUFFICES ASSUME NEW i \in 1 .. Len(active), NEW j \in 1 .. Len(active), i < j
                     PROVE  timer'[active[i]].next <= timer'[active[j]].next
            BY DEF Sorted
        <3>1. timer[active[i]].next <= timer[active[j]].next
            BY <2>2 DEF Sorted
        <3> QED
            BY SMTT(30), <1>3, <2>1, <3>1
    <2> QED
        BY <1>0, <1>1, <2>3 DEF InOrder
<1>8. Forgotten'
    BY <1>0, <1>1, <1>3 DEF Forgotten
<1>9. ReadyIsSeen'
    BY <1>0, <1>1, <1>2, <1>3 DEF ReadyIsSeen, Announced, At
<1>10. WaitingIsActive'
    <2> SUFFICES ASSUME NEW t \in Timers, timer[t].state = "WAITING"
                 PROVE  Contains(active, t) /\ timer'[t].next < CancelTime
        BY Zenon, <1>1, <1>3 DEF WaitingIsActive
    <2>1. Contains(active, t) /\ timer[t].next < CancelTime
        BY <1>0 DEF WaitingIsActive
    <2> QED
        BY <1>3, <2>1, IntervalFacts
<1> QED
    BY <1>5, <1>6, <1>7, <1>8, <1>9, <1>10 DEF IInv

\* The mutex is taken.
LEMMA LockPendingStep ==
    ASSUME IInv, lock_pending
    PROVE  IInv'
<1>0. Typed /\ InStep /\ InOrder /\ Forgotten /\ ReadyIsSeen /\ WaitingIsActive
    BY DEF IInv
<1>1. /\ service.pc = "pending" /\ service' = [service EXCEPT !.pc = "place", !.at = 1]
      /\ UNCHANGED <<timer, pending, active, allow, lag, call, gave_up>>
    BY DEF lock_pending, At
<1>2. /\ service'.pc = "place" /\ service'.at = 1
      /\ service' \in ServiceRecord
    <2>1. service \in ServiceRecord /\ 1 \in Nat \ {0} /\ TRUE \in BOOLEAN
        BY <1>0 DEF Typed
    <2>2. service' \in ServiceRecord
        <3> HIDE DEF ServiceRecord
        <3>1. [service EXCEPT !.pc = "place", !.at = 1] \in ServiceRecord
            BY Zenon, <2>1, ServiceMoves
        <3> QED
            BY Zenon, <1>1, <3>1
    <2> QED
        BY <1>1, <2>1, <2>2
<1>3. Typed'
    BY <1>0, <1>1, <1>2 DEF Typed
<1>4. InStep' /\ InOrder'
    BY <1>0, <1>1, <1>2 DEF InStep, InOrder, At
<1>5. Forgotten' /\ WaitingIsActive'
    BY <1>0, <1>1 DEF Forgotten, WaitingIsActive
<1>6. ReadyIsSeen'
    <2> SUFFICES ASSUME NEW t \in Timers, timer[t].state = "READY"
                 PROVE  (\E i \in 1 .. Len(pending) : pending[i] = t /\ 1 <= i)
                            \/ Announced(t) \/ t \in gave_up
        BY <1>1, <1>2 DEF ReadyIsSeen, Announced, At
    <2> QED
        BY <1>0 DEF ReadyIsSeen
<1> QED
    BY <1>3, <1>4, <1>5, <1>6 DEF IInv

\* TimedEventImpl::update
LEMMA UpdateFacts ==
    ASSUME NEW tp \in TimerRecord
    PROVE  /\ update(tp) \in TimerRecord
           /\ update(tp).alive = tp.alive
           /\ update(tp).state # "READY"
           /\ update(tp).state = "INACTIVE" <=> tp.state = "INACTIVE"
           /\ update(tp).state = "WAITING" => (tp.state = "WAITING" /\ update(tp) = tp)
                                              \/ update(tp).next < CancelTime
<1>1. tp.interval \in Int /\ tp.interval < CancelTime /\ CancelTime \in Nat
    BY IntervalFacts
<1>2. CASE tp.state = "READY"
    <2>1. update(tp) = [tp EXCEPT !.state = "WAITING", !.next = tp.interval]
        BY <1>2 DEF update
    <2> QED
        BY Zenon, <1>1, <1>2, <2>1
<1>3. CASE tp.state = "INACTIVE"
    <2>1. update(tp) = [tp EXCEPT !.next = CancelTime]
        BY <1>3 DEF update
    <2> QED
        BY <1>1, <1>3, <2>1
<1>4. CASE tp.state = "WAITING"
    <2>1. update(tp) = tp
        BY <1>4 DEF update
    <2> QED
        BY <1>4, <2>1
<1> QED
    BY <1>2, <1>3, <1>4
\* A pending timer is put in its place, or the pass over them ends.
LEMMA PlaceStep ==
    ASSUME IInv, place
    PROVE  IInv'
<1>0. Typed /\ InStep /\ InOrder /\ Forgotten /\ ReadyIsSeen /\ WaitingIsActive
    BY DEF IInv
<1>1. service.pc = "place" /\ UNCHANGED <<allow, lag, call, gave_up>>
    BY DEF place, At
<1>2. CASE service.at <= Len(pending)
    <2> DEFINE t       == pending[service.at]
               updated == [timer EXCEPT ![t] = update(@)]
               rest    == erase(active, find(active, lower_bound(active, timer, t), t))
    <2>1. /\ timer' = updated
          /\ active' = IF timer[t].state = "INACTIVE" THEN rest
                       ELSE emplace(rest, lower_bound(rest, updated, t), t)
          /\ service' = [service EXCEPT !.at = @ + 1]
          /\ UNCHANGED pending
        BY <1>2 DEF place
    <2>2. t \in Timers /\ service.at \in 1 .. Len(pending)
        BY <1>0, <1>2 DEF Typed
    <2> HIDE DEF t
    <2>3. /\ updated \in [Timers -> TimerRecord]
          /\ \A u \in Timers : u # t => updated[u] = timer[u]
          /\ updated[t] = update(timer[t])
          /\ timer[t] \in TimerRecord
        BY <1>0, <2>2, UpdateFacts DEF Typed
    <2> HIDE DEF updated
    <2>4. /\ rest \in Seq(Timers) /\ Distinct(rest) /\ ~Contains(rest, t)
          /\ \A u \in Timers \ {t} : Contains(rest, u) <=> Contains(active, u)
          /\ Sorted(rest, timer)
        <3>1. active \in Seq(Timers) /\ Distinct(active) /\ Sorted(active, timer)
            BY <1>0, <1>1 DEF Typed, InOrder, At
        <3>2. /\ lower_bound(active, timer, t) \in 1 .. (Len(active) + 1)
              /\ \A k \in 1 .. (lower_bound(active, timer, t) - 1) :
                    ~(timer[active[k]].next >= timer[t].next)
            BY Zenon, <3>1, LowerBound
        <3> DEFINE from == lower_bound(active, timer, t)
        <3> HIDE DEF from
        <3>3. from \in Nat \ {0} /\ \A k \in 1 .. (from - 1) : ~(timer[active[k]].next >= timer[t].next)
            BY <3>1, <3>2 DEF from
        <3>4. timer[t].next >= timer[t].next
            BY <1>0, <2>2 DEF Typed
        <3>5. \A k \in 1 .. (from - 1) : k <= Len(active) => active[k] # t
            BY <3>3, <3>4
        <3>6. rest = erase(active, find(active, from, t))
            BY DEF from
        <3> HIDE DEF rest
        <3> QED
            BY Zenon, <2>2, <3>1, <3>3, <3>5, <3>6, Erased
    <2> HIDE DEF rest
    <2>5. Sorted(rest, updated) /\ \A u \in Timers : updated[u].next \in Int
        <3>1. \A i \in 1 .. Len(rest) : rest[i] \in Timers /\ rest[i] # t
            BY <2>4 DEF Contains
        <3>2. Sorted(rest, updated)
            BY <2>3, <2>4, <3>1 DEF Sorted
        <3> QED
            BY <2>3, <3>2
    <2>6. /\ active' \in Seq(Timers) /\ Distinct(active') /\ Sorted(active', timer')
          /\ Contains(active', t) <=> timer[t].state # "INACTIVE"
          /\ \A u \in Timers : u # t => (Contains(active', u) <=> Contains(active, u))
        <3>1. CASE timer[t].state = "INACTIVE"
            BY <2>1, <2>2, <2>4, <2>5, <3>1
        <3>2. CASE timer[t].state # "INACTIVE"
            <4> DEFINE r == emplace(rest, lower_bound(rest, updated, t), t)
            <4>1. active' = r
                BY <2>1, <3>2
            <4>2. /\ r \in Seq(Timers) /\ Distinct(r) /\ Contains(r, t)
                  /\ \A u \in Timers : u # t => (Contains(r, u) <=> Contains(rest, u))
                  /\ Sorted(r, updated)
                BY Zenon, <2>2, <2>4, <2>5, Emplaced
            <4> HIDE DEF r
            <4>3. \A u \in Timers : u # t => (Contains(r, u) <=> Contains(active, u))
                BY <2>4, <4>2
            <4> QED
                BY <2>1, <3>2, <4>1, <4>2, <4>3
        <3> QED
            BY <3>1, <3>2
    <2>7. /\ service'.pc = "place" /\ service'.at = service.at + 1
          /\ service' \in ServiceRecord
        <3>1. service \in ServiceRecord
            BY <1>0 DEF Typed
        <3> QED
            BY <1>1, <2>1, <3>1
    <2>8. /\ timer'[t].alive = timer[t].alive
          /\ timer'[t].state # "READY"
          /\ timer'[t].state = "INACTIVE" <=> timer[t].state = "INACTIVE"
          /\ timer'[t].state = "WAITING" => \/ timer[t].state = "WAITING" /\ timer'[t] = timer[t]
                                            \/ timer'[t].next < CancelTime
          /\ \A u \in Timers : u # t => timer'[u] = timer[u]
        BY <2>1, <2>3, UpdateFacts
    <2>9. Typed'
        BY <1>0, <1>1, <2>1, <2>3, <2>6, <2>7 DEF Typed
    <2>10. InStep'
        BY <1>0, <1>1, <2>7 DEF InStep, At
    <2>11. InOrder'
        BY <1>0, <2>1, <2>6 DEF InOrder
    <2>12. Forgotten'
        <3>1. Contains(pending, t)
            BY <2>2 DEF Contains, t
        <3>2. timer[t].alive
            BY <1>0, <2>2, <3>1 DEF Forgotten
        <3> QED
            BY Zenon, <1>0, <1>1, <2>1, <2>6, <2>8, <3>2 DEF Forgotten
    <2>13. ReadyIsSeen'
        <3> SUFFICES ASSUME NEW u \in Timers, timer'[u].state = "READY"
                     PROVE  \/ \E i \in 1 .. Len(pending) : pending[i] = u /\ service.at + 1 <= i
                            \/ Announced(u) \/ u \in gave_up
            BY <1>1, <2>1, <2>7 DEF ReadyIsSeen, Announced, At
        <3>1. u # t /\ timer[u].state = "READY"
            BY <2>8
        <3>2. CASE Announced(u) \/ u \in gave_up
            BY <3>2
        <3>3. CASE \E i \in 1 .. Len(pending) : pending[i] = u /\ service.at <= i
            <4>1. PICK i \in 1 .. Len(pending) : pending[i] = u /\ service.at <= i
                BY <3>3
            <4>2. i # service.at
                BY <3>1, <4>1 DEF t
            <4> QED
                BY <2>2, <4>1, <4>2
        <3> QED
            BY <1>0, <1>1, <3>1, <3>2, <3>3 DEF ReadyIsSeen, At
    <2>14. WaitingIsActive'
        <3> SUFFICES ASSUME NEW u \in Timers, timer'[u].state = "WAITING"
                     PROVE  Contains(active', u) /\ timer'[u].next < CancelTime
            BY DEF WaitingIsActive
        <3>1. CASE u = t
            BY <1>0, <2>6, <2>8, <3>1 DEF WaitingIsActive
        <3>2. CASE u # t
            BY <1>0, <2>6, <2>8, <3>2 DEF WaitingIsActive
        <3> QED
            BY <3>1, <3>2
    <2> QED
        BY <2>9, <2>10, <2>11, <2>12, <2>13, <2>14 DEF IInv
<1>3. CASE ~(service.at <= Len(pending))
    <2>1. /\ pending' = <<>>
          /\ service' = [service EXCEPT !.pc = "trigger", !.at = 1, !.did_something = FALSE]
          /\ UNCHANGED <<timer, active>>
        BY <1>3 DEF place
    <2>2. /\ service'.pc = "trigger" /\ service'.at = 1
          /\ service' \in ServiceRecord
        <3>1. service \in ServiceRecord /\ 1 \in Nat \ {0} /\ FALSE \in BOOLEAN
            BY <1>0 DEF Typed
        <3>2. service' \in ServiceRecord
            <4> HIDE DEF ServiceRecord
            <4>1. [service EXCEPT !.pc = "trigger", !.at = 1, !.did_something = FALSE]
                    \in ServiceRecord
                BY Zenon, <3>1, ServiceMoves
            <4> QED
                BY Zenon, <2>1, <4>1
        <3> QED
            BY <2>1, <3>1, <3>2
    <2>3. pending' \in Seq(Timers) /\ Distinct(pending') /\ \A u : ~Contains(pending', u)
        BY <2>1 DEF Distinct, Contains
    <2>4. Typed'
        BY <1>0, <1>1, <2>1, <2>2, <2>3 DEF Typed
    <2>5. InStep'
        <3>1. Len(active) \in Nat
            BY <1>0 DEF Typed
        <3> QED
            BY <1>0, <1>1, <2>1, <2>2, <3>1 DEF InStep, At
    <2>6. InOrder'
        <3>1. Sorted(active, timer)
            BY <1>0, <1>1 DEF InOrder, At
        <3> QED
            BY <1>0, <2>1, <2>3, <3>1 DEF InOrder
    <2>7. Forgotten'
        BY <1>0, <1>1, <2>1, <2>3 DEF Forgotten
    <2>8. ReadyIsSeen'
        <3>1. ~\E i \in 1 .. Len(pending) : service.at <= i
            BY <1>0, <1>3 DEF Typed
        <3> QED
            BY <1>0, <1>1, <2>1, <3>1 DEF ReadyIsSeen, Announced, At
    <2>9. WaitingIsActive'
        BY <1>0, <2>1 DEF WaitingIsActive
    <2> QED
        BY <2>4, <2>5, <2>6, <2>7, <2>8, <2>9 DEF IInv
<1> QED
    BY <1>2, <1>3
\* A timer that is due goes off, or was cancelled; the loop ends at the first
\* that is not due.
LEMMA TriggerStep ==
    ASSUME IInv, trigger
    PROVE  IInv'
<1> DEFINE t == active[service.at]
<1>0. /\ Typed /\ InStep /\ InOrder /\ Forgotten /\ ReadyIsSeen /\ WaitingIsActive
      /\ service \in ServiceRecord /\ Len(active) \in Nat
    BY DEF IInv, Typed
<1>1. /\ service.pc = "trigger" /\ service.at <= Len(active) + 1 /\ service.at \in Nat \ {0}
      /\ ~allow /\ call["callback"].op = "none"
      /\ UNCHANGED <<pending, active, allow, lag, call, gave_up>>
    BY <1>0 DEF trigger, InStep, At, Typed
<1>2. CASE service.at <= Len(active) /\ timer[t].next <= 0 /\ timer[t].state = "WAITING"
    <2>1. /\ timer' = [timer EXCEPT ![t].state = "INACTIVE"]
          /\ service' = [service EXCEPT !.pc = "callback", !.did_something = TRUE]
        BY <1>2 DEF trigger
    <2>2. t \in Timers
        BY <1>0, <1>1, <1>2 DEF Typed
    <2> HIDE DEF t
    <2>3. service' \in ServiceRecord
        <3>1. service \in ServiceRecord /\ service.at \in Nat \ {0} /\ TRUE \in BOOLEAN
            BY <1>0, <1>1
        <3>2. "callback" \in {"update", "pending", "place", "trigger", "callback", "sort", "lock",
                              "wait", "joined"}
            OBVIOUS
        <3> HIDE DEF ServiceRecord
        <3>3. [service EXCEPT !.pc = "callback", !.did_something = TRUE] \in ServiceRecord
            BY Zenon, <3>1, <3>2, ServiceMoves
        <3> QED
            BY Zenon, <2>1, <3>3
    <2>4. service'.pc = "callback" /\ service'.at = service.at /\ service'.did_something
        BY <1>0, <2>1
    <2>5. /\ timer' \in [Timers -> TimerRecord]
          /\ \A u \in Timers : /\ timer'[u].alive = timer[u].alive
                               /\ timer'[u].next = timer[u].next
                               /\ u # t => timer'[u].state = timer[u].state
          /\ timer'[t].state = "INACTIVE"
        <3>1. timer \in [Timers -> TimerRecord]
            BY <1>0 DEF Typed
        <3> QED
            BY <2>1, <2>2, <3>1
    <2>6. Typed'
        BY <1>0, <1>1, <2>3, <2>5 DEF Typed
    <2>7. InStep'
        BY <1>0, <1>1, <1>2, <2>4, <2>5 DEF InStep, At, t
    <2>8. InOrder'
        BY Zenon, <1>0, <1>1, <2>4 DEF InOrder
    <2>9. Forgotten'
        BY <1>0, <1>1, <2>5 DEF Forgotten
    <2>10. ReadyIsSeen'
        BY <1>0, <1>1, <2>4, <2>5 DEF ReadyIsSeen, Announced, At
    <2>11. WaitingIsActive'
        BY <1>0, <1>1, <2>5 DEF WaitingIsActive
    <2> QED
        BY <2>6, <2>7, <2>8, <2>9, <2>10, <2>11 DEF IInv
<1>3. CASE service.at <= Len(active) /\ timer[t].next <= 0 /\ timer[t].state # "WAITING"
    <2>1. /\ timer' = [timer EXCEPT ![t].next = CancelTime]
          /\ service' = [service EXCEPT !.at = @ + 1, !.did_something = TRUE]
        BY <1>3 DEF trigger
    <2>2. t \in Timers
        BY <1>0, <1>1, <1>3 DEF Typed
    <2> HIDE DEF t
    <2>3. service' \in ServiceRecord
        <3>1. service \in ServiceRecord /\ service.at + 1 \in Nat \ {0} /\ TRUE \in BOOLEAN
            BY <1>0, <1>1
        <3>2. service.pc \in {"update", "pending", "place", "trigger", "callback", "sort", "lock",
                              "wait", "joined"}
            BY <1>1
        <3> HIDE DEF ServiceRecord
        <3>3. [service EXCEPT !.at = service.at + 1, !.did_something = TRUE] \in ServiceRecord
            BY Zenon, <3>1, <3>2, ServiceMoves
        <3> QED
            BY Zenon, <2>1, <3>3
    <2>4. service'.pc = "trigger" /\ service'.at = service.at + 1 /\ service'.did_something
        BY <1>0, <1>1, <2>1
    <2>5. /\ timer' \in [Timers -> TimerRecord]
          /\ \A u \in Timers : /\ timer'[u].alive = timer[u].alive
                               /\ timer'[u].state = timer[u].state
                               /\ u # t => timer'[u].next = timer[u].next
        <3>1. timer \in [Timers -> TimerRecord] /\ CancelTime \in Int
            BY <1>0, IntervalFacts DEF Typed
        <3> QED
            BY <2>1, <2>2, <3>1
    <2>6. Typed'
        BY <1>0, <1>1, <2>3, <2>5 DEF Typed
    <2>7. InStep'
        BY <1>0, <1>1, <1>3, <2>4 DEF InStep, At
    <2>8. InOrder'
        BY <1>0, <1>1, <2>4 DEF InOrder, At
    <2>9. Forgotten'
        BY <1>0, <1>1, <2>5 DEF Forgotten
    <2>10. ReadyIsSeen'
        BY <1>0, <1>1, <2>4, <2>5 DEF ReadyIsSeen, Announced, At
    <2>11. WaitingIsActive'
        BY <1>0, <1>1, <1>3, <2>5 DEF WaitingIsActive
    <2> QED
        BY <2>6, <2>7, <2>8, <2>9, <2>10, <2>11 DEF IInv
<1>4. CASE ~(service.at <= Len(active) /\ timer[t].next <= 0)
    <2>1. /\ service' = [service EXCEPT !.pc = IF service.did_something THEN "sort" ELSE "lock"]
          /\ UNCHANGED timer
        BY <1>4 DEF trigger, Goto
    <2>2. /\ service' \in ServiceRecord
          /\ service'.pc = (IF service.did_something THEN "sort" ELSE "lock")
          /\ service'.at = service.at
        BY <1>0, <2>1
    <2>3. Typed'
        BY <1>0, <1>1, <2>1, <2>2 DEF Typed
    <2>4. InStep'
        BY <1>0, <1>1, <2>2 DEF InStep, At
    <2>5. InOrder'
        <3>1. ~service.did_something => Sorted(active, timer)
            BY <1>0, <1>1 DEF InOrder, At
        <3> QED
            BY <1>0, <1>1, <2>1, <2>2, <3>1 DEF InOrder
    <2>6. Forgotten' /\ ReadyIsSeen' /\ WaitingIsActive'
        <3>1. ~At("place") /\ ~At("place")'
            BY <1>1, <2>2 DEF At
        <3> QED
            BY <1>1, <2>1, <2>2, <3>1, ServiceOnly
    <2> QED
        BY <2>3, <2>4, <2>5, <2>6 DEF IInv
<1> QED
    BY <1>2, <1>3, <1>4

\* The callback returns: the timer waits again if the callback asked for it and
\* nobody restarted it meanwhile.
LEMMA CallbackStep ==
    ASSUME IInv, callback_returns
    PROVE  IInv'
<1> DEFINE t == active[service.at]
<1>0. /\ Typed /\ InStep /\ InOrder /\ Forgotten /\ ReadyIsSeen /\ WaitingIsActive
      /\ service \in ServiceRecord /\ Len(active) \in Nat
    BY DEF IInv, Typed
<1>1. /\ service.pc = "callback" /\ call["callback"].op = "none" /\ service.did_something
      /\ service.at <= Len(active) /\ service.at \in Nat \ {0}
      /\ timer[t].state # "WAITING" /\ ~allow
      /\ service' = [service EXCEPT !.pc = "trigger", !.at = @ + 1]
      /\ UNCHANGED <<pending, active, allow, lag, call, gave_up>>
    BY <1>0 DEF callback_returns, InStep, At, Typed
<1>2. PICK restart \in BOOLEAN : timer' = [timer EXCEPT ![t] = rearm(@, restart)]
    BY Zenon DEF callback_returns
<1>3. t \in Timers /\ Contains(active, t)
    <2>1. service.at \in 1 .. Len(active) /\ active \in Seq(Timers)
        BY <1>0, <1>1 DEF Typed
    <2> QED
        BY <2>1 DEF Contains
<1>4. service'.pc = "trigger" /\ service'.at = service.at + 1 /\ service'.did_something
    BY <1>0, <1>1
<1>5. service' \in ServiceRecord
    <2>1. service \in ServiceRecord /\ service.at + 1 \in Nat \ {0} /\ TRUE \in BOOLEAN
        BY <1>0, <1>1
    <2> HIDE DEF ServiceRecord
    <2>2. [service EXCEPT !.pc = "trigger", !.at = service.at + 1] \in ServiceRecord
        BY Zenon, <2>1, ServiceMoves
    <2> QED
        BY Zenon, <1>1, <2>2
<1> HIDE DEF t
<1>6. /\ timer' \in [Timers -> TimerRecord]
      /\ \A u \in Timers : u # t => timer'[u] = timer[u]
      /\ timer'[t].alive = timer[t].alive
      /\ timer'[t].state = "READY" <=> timer[t].state = "READY"
      /\ timer'[t].state = "WAITING" => timer'[t].next < CancelTime
      /\ timer[t].state = "INACTIVE" => timer'[t].state \in {"INACTIVE", "WAITING"}
    <2>1. timer \in [Timers -> TimerRecord] /\ timer[t] \in TimerRecord
        BY <1>0, <1>3 DEF Typed
    <2>2. timer[t].interval \in Int /\ timer[t].interval < CancelTime /\ CancelTime \in Int
        BY <2>1, IntervalFacts
    <2>3. CASE restart /\ timer[t].state = "INACTIVE"
        <3>1. timer' = [timer EXCEPT ![t] = [timer[t] EXCEPT !.state = "WAITING",
                                                             !.next = timer[t].interval]]
            BY <1>2, <2>3 DEF rearm
        <3> QED
            BY Zenon, <1>3, <2>1, <2>2, <2>3, <3>1
    <2>4. CASE ~(restart /\ timer[t].state = "INACTIVE")
        <3>1. timer' = [timer EXCEPT ![t] = [timer[t] EXCEPT !.next = CancelTime]]
            BY Zenon, <1>2, <2>4 DEF rearm
        <3> QED
            BY Zenon, <1>1, <1>3, <2>1, <2>2, <3>1 DEF t
    <2> QED
        BY <2>3, <2>4
<1>7. Typed'
    BY <1>0, <1>1, <1>5, <1>6 DEF Typed
<1>8. InStep'
    BY <1>0, <1>1, <1>4 DEF InStep, At
<1>9. InOrder'
    BY <1>0, <1>1, <1>4 DEF InOrder, At
<1>10. Forgotten'
    <2>1. timer'[t].alive
        BY <1>0, <1>3, <1>6 DEF Forgotten
    <2> QED
        BY <1>0, <1>1, <1>6, <2>1 DEF Forgotten
<1>11. ReadyIsSeen'
    BY <1>0, <1>1, <1>4, <1>6 DEF ReadyIsSeen, Announced, At
<1>12. WaitingIsActive'
    BY <1>0, <1>1, <1>3, <1>6 DEF WaitingIsActive
<1> QED
    BY <1>7, <1>8, <1>9, <1>10, <1>11, <1>12 DEF IInv

\* The timers are sorted and the cancelled ones cut off.
LEMMA SortStep ==
    ASSUME IInv, sort_and_erase
    PROVE  IInv'
<1>0. /\ Typed /\ InStep /\ InOrder /\ Forgotten /\ ReadyIsSeen /\ WaitingIsActive
      /\ service \in ServiceRecord
    BY DEF IInv, Typed
<1>1. /\ service.pc = "sort" /\ service' = [service EXCEPT !.pc = "lock", !.at = 1]
      /\ UNCHANGED <<timer, pending, allow, lag, call, gave_up>>
    BY DEF sort_and_erase, At
<1>2. service' \in ServiceRecord
    <2>1. service \in ServiceRecord /\ 1 \in Nat \ {0} /\ TRUE \in BOOLEAN
        BY <1>0
    <2> HIDE DEF ServiceRecord
    <2>2. [service EXCEPT !.pc = "lock", !.at = 1] \in ServiceRecord
        BY Zenon, <2>1, ServiceMoves
    <2> QED
        BY Zenon, <1>1, <2>2
<1>3. service'.pc = "lock"
    BY <1>0, <1>1
<1>4. active \in Seq(Timers) /\ Distinct(active) /\ \A u \in Timers : timer[u].next \in Int
    BY <1>0 DEF Typed, InOrder
<1>5. PICK s \in sort_timers(active) :
        active' = SubSeq(s, 1, Min({i \in 1 .. Len(s) : timer[s[i]].next >= CancelTime}
                                        \cup {Len(s) + 1}) - 1)
    BY Zenon DEF sort_and_erase
<1>6. /\ s \in Seq(Timers) /\ Distinct(s) /\ Sorted(s, timer)
      /\ \A u \in Timers : Contains(s, u) <=> Contains(active, u)
    BY Zenon, <1>4, SortedTimers
<1>7. /\ active' \in Seq(Timers) /\ Distinct(active') /\ Sorted(active', timer)
      /\ \A u \in Timers : Contains(active', u) => Contains(s, u)
      /\ \A u \in Timers : (Contains(s, u) /\ timer[u].next < CancelTime) => Contains(active', u)
    BY Zenon, <1>4, <1>5, <1>6, CutOff, IntervalFacts
<1>8. Typed'
    BY <1>0, <1>1, <1>2, <1>7 DEF Typed
<1>9. InStep'
    BY <1>0, <1>1, <1>3 DEF InStep, At
<1>10. InOrder'
    BY <1>0, <1>1, <1>7 DEF InOrder
<1>11. Forgotten'
    BY <1>0, <1>1, <1>6, <1>7 DEF Forgotten
<1>12. ReadyIsSeen'
    BY <1>0, <1>1, <1>3 DEF ReadyIsSeen, Announced, At
<1>13. WaitingIsActive'
    BY <1>0, <1>1, <1>6, <1>7 DEF WaitingIsActive
<1> QED
    BY <1>8, <1>9, <1>10, <1>11, <1>12, <1>13 DEF IInv
\* The thread takes the mutex to stop, to go on or to wait.
LEMMA LockStep ==
    ASSUME IInv, lock
    PROVE  IInv'
<1> DEFINE pc == CASE service.stop -> "joined"
                   [] ~service.stop /\ pending # <<>> -> "update"
                   [] OTHER -> "wait"
<1>0. Typed /\ InStep /\ InOrder /\ service \in ServiceRecord /\ service.stop \in BOOLEAN
    BY DEF IInv, Typed
<1>1. /\ service.pc = "lock" /\ service' = [service EXCEPT !.notified = FALSE, !.pc = pc]
      /\ allow' = (~service.stop /\ pending = <<>>)
      /\ UNCHANGED <<timer, pending, active, lag, call, gave_up>>
    BY DEF lock, lets_others_in, At
<1>2. pc \in {"joined", "update", "wait"} /\ (~service.stop /\ pending = <<>> => pc = "wait")
    BY <1>0
<1> HIDE DEF pc
<1>3. service' \in ServiceRecord
    <2>1. /\ service \in ServiceRecord /\ 1 \in Nat \ {0} /\ FALSE \in BOOLEAN
          /\ pc \in {"update", "pending", "place", "trigger", "callback", "sort", "lock", "wait",
                     "joined"}
        BY <1>0, <1>2
    <2> HIDE DEF ServiceRecord
    <2>2. [service EXCEPT !.notified = FALSE, !.pc = pc] \in ServiceRecord
        BY Zenon, <2>1, ServiceMoves
    <2> QED
        BY Zenon, <1>1, <2>2
<1>4. service'.pc = pc /\ service'.at = service.at
    BY <1>0, <1>1
<1>5. Typed'
    BY <1>0, <1>1, <1>3 DEF Typed
<1>6. InStep'
    BY Zenon, <1>0, <1>1, <1>2, <1>4 DEF InStep, At
<1>7. InOrder'
    <2>1. Sorted(active, timer)
        BY <1>0, <1>1 DEF InOrder, At
    <2> QED
        BY <1>0, <1>1, <2>1 DEF InOrder
<1>8. Forgotten' /\ ReadyIsSeen' /\ WaitingIsActive'
    <2>1. ~At("place") /\ ~At("place")'
        BY <1>1, <1>2, <1>4 DEF At
    <2> QED
        BY <1>1, <1>4, <2>1, ServiceOnly
<1> QED
    BY <1>5, <1>6, <1>7, <1>8 DEF IInv

\* wait_until returns.
LEMMA WakeStep ==
    ASSUME IInv, wake
    PROVE  IInv'
<1> DEFINE pc == IF service.stop THEN "joined" ELSE "update"
<1>0. Typed /\ InStep /\ InOrder /\ service \in ServiceRecord
    BY DEF IInv, Typed
<1>1. /\ service.pc = "wait" /\ service' = [service EXCEPT !.pc = pc, !.notified = FALSE]
      /\ allow' = FALSE
      /\ UNCHANGED <<timer, pending, active, lag, call, gave_up>>
    BY DEF wake, At
<1>2. pc \in {"joined", "update"}
    OBVIOUS
<1> HIDE DEF pc
<1>3. service' \in ServiceRecord
    <2>1. /\ service \in ServiceRecord /\ 1 \in Nat \ {0} /\ FALSE \in BOOLEAN
          /\ pc \in {"update", "pending", "place", "trigger", "callback", "sort", "lock", "wait",
                     "joined"}
        BY <1>0, <1>2
    <2> HIDE DEF ServiceRecord
    <2>2. [service EXCEPT !.pc = pc, !.notified = FALSE] \in ServiceRecord
        BY Zenon, <2>1, ServiceMoves
    <2> QED
        BY Zenon, <1>1, <2>2
<1>4. service'.pc = pc /\ service'.at = service.at
    BY <1>0, <1>1
<1>5. Typed'
    BY Zenon, <1>0, <1>1, <1>3 DEF Typed
<1>6. InStep'
    BY <1>0, <1>1, <1>2, <1>4 DEF InStep, At
<1>7. InOrder'
    <2>1. Sorted(active, timer)
        BY <1>0, <1>1 DEF InOrder, At
    <2> QED
        BY <1>0, <1>1, <2>1 DEF InOrder
<1>8. Forgotten' /\ ReadyIsSeen' /\ WaitingIsActive'
    <2>1. ~At("place") /\ ~At("place")'
        BY <1>1, <1>2, <1>4 DEF At
    <2> QED
        BY <1>1, <1>4, <2>1, ServiceOnly
<1> QED
    BY <1>5, <1>6, <1>7, <1>8 DEF IInv

\* The clock goes on, or nothing happens.
LEMMA IdleStep ==
    ASSUME IInv, UNCHANGED <<timer, pending, active, allow, service, call, gave_up>>,
           lag' = lag \/ lag' = lag + 1
    PROVE  IInv'
<1>0. Typed /\ InStep /\ InOrder
    BY DEF IInv
<1>1. Typed'
    BY <1>0 DEF Typed
<1>2. InStep' /\ InOrder'
    BY <1>0 DEF InStep, InOrder, At
<1>3. Forgotten' /\ ReadyIsSeen' /\ WaitingIsActive'
    <2>1. At("place") <=> At("place")'
        BY DEF At
    <2> QED
        BY <2>1, ServiceOnly
<1> QED
    BY <1>1, <1>2, <1>3 DEF IInv

----------------------------------------------------------------------------
(* The theorem.                                                            *)

\* At the start nothing is armed.
LEMMA InitIInv == Init => IInv
<1> SUFFICES ASSUME Init PROVE IInv
    OBVIOUS
<1> USE CallerFacts DEF Init
<1>1. \A t \in Timers : Created(t) \in TimerRecord
    BY Zenon, CreatedFacts
<1>2. /\ \A t \in Timers : timer[t] = Created(t)
      /\ \A t \in Timers : timer[t].state = "INACTIVE" /\ timer[t].alive
      /\ \A c \in Callers : call[c].op = "none"
    BY DEF Created
<1>3. timer \in [Timers -> TimerRecord]
    BY <1>1
<1>4. call \in [Callers -> CallRecord]
    BY Zenon
<1>5. Typed
    <2>1. service \in ServiceRecord
        OBVIOUS
    <2>2. pending \in Seq(Timers) /\ active \in Seq(Timers)
        OBVIOUS
    <2>3. allow \in BOOLEAN /\ lag \in Nat /\ gave_up \subseteq Timers
        BY Zenon
    <2> QED
        BY Zenon, <1>3, <1>4, <2>1, <2>2, <2>3 DEF Typed
<1>6. InStep
    BY <1>2 DEF InStep, At
<1>7. InOrder
    BY DEF InOrder, Distinct, Sorted
<1>8. Forgotten
    BY <1>2 DEF Forgotten
<1>9. ReadyIsSeen /\ WaitingIsActive
    BY <1>2 DEF ReadyIsSeen, WaitingIsActive
<1> QED
    BY <1>5, <1>6, <1>7, <1>8, <1>9 DEF IInv

\* Every step of the service and of its users keeps the invariant.
LEMMA NextIInv == IInv /\ [Next]_vars => IInv'
<1> SUFFICES ASSUME IInv, [Next]_vars PROVE IInv'
    OBVIOUS
<1>1. CASE Calls
    <2>1. CASE stop
        BY <2>1, StopStep
    <2>2. ASSUME NEW c \in Callers, notify(c) \/ unregister_timer(c)
          PROVE  IInv'
        BY <2>2, NotifyStep, UnregisterStep
    <2>3. ASSUME NEW c \in Callers, NEW t \in Timers,
                 \/ restart_timer(c, t) \/ cancel_timer(c, t) \/ update_interval(c, t)
                 \/ create(c, t) \/ destroy(c, t)
          PROVE  IInv'
        BY <2>3, RestartStep, CancelStep, IntervalStep, CreateStep, DestroyStep
    <2> QED
        BY Zenon, <1>1, <2>1, <2>2, <2>3 DEF Calls
<1>2. CASE event_service
    BY <1>2, CurrentTimeStep, LockPendingStep, PlaceStep, TriggerStep, CallbackStep, SortStep,
       LockStep DEF event_service
<1>3. CASE wake
    BY <1>3, WakeStep
<1>4. CASE Tick
    BY <1>4, IdleStep DEF Tick
<1>5. CASE Joined \/ UNCHANGED vars
    BY <1>5, IdleStep DEF Joined, vars
<1> QED
    BY <1>1, <1>2, <1>3, <1>4, <1>5 DEF Next

\* The invariant holds for any number of timers and threads.
LEMMA AlwaysIInv == Spec => []IInv
BY InitIInv, NextIInv, PTL DEF Spec

\* A timer that is armed is never lost between the threads that arm it
\* (TimedEventImpl::go_ready and ResourceEvent::notify) and the service: the
\* service has it among its active timers or will still be told of it.
THEOREM ArmedStaysScheduled == Spec => []ArmedIsScheduled
<1>1. IInv => ArmedIsScheduled
    BY DEF IInv, ReadyIsSeen, WaitingIsActive, ArmedIsScheduled, Contains
<1> QED
    BY <1>1, AlwaysIInv, PTL

\* The searches of do_timer_actions in the active timers meet them in order and
\* each of them once.
THEOREM ActiveStaysSorted == Spec => []ActiveIsSorted
<1>1. IInv => ActiveIsSorted
    <2> SUFFICES ASSUME IInv PROVE ActiveIsSorted
        OBVIOUS
    <2>1. DOMAIN active = 1 .. Len(active)
        BY DEF IInv, Typed
    <2> QED
        BY <2>1 DEF IInv, InOrder, Sorted, Distinct, ActiveIsSorted, At
<1> QED
    BY <1>1, AlwaysIInv, PTL

\* The service holds no pointer to a timer whose destructor has returned
\* (ResourceEvent::unregister_timer).
THEOREM DestroyedStaysForgotten == Spec => []DestroyedIsForgotten
<1>1. IInv => DestroyedIsForgotten
    <2> SUFFICES ASSUME IInv, NEW t \in Timers, ~timer[t].alive
                 PROVE  ~Contains(pending, t) /\ ~Contains(active, t) /\ ~Running(t)
        BY DEF DestroyedIsForgotten
    <2>1. ~Contains(pending, t) /\ ~Contains(active, t)
        BY DEF IInv, Forgotten
    <2>2. At("callback") => service.at \in 1 .. Len(active)
        BY DEF IInv, Typed, InStep
    <2> QED
        BY <2>1, <2>2 DEF Running, Contains
<1> QED
    BY <1>1, AlwaysIInv, PTL
============================================================================
