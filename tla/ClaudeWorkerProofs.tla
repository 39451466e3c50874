------------------------- MODULE ClaudeWorkerProofs -------------------------
(***************************************************************************)
(* What holds of ClaudeWorker for any number of messages, retries,         *)
(* interrupts, losses and failures.                                        *)
(***************************************************************************)
EXTENDS ClaudeWorker, SequenceTheorems, FiniteSetTheorems, WellFoundedInduction, TLAPS

-----------------------------------------------------------------------------
(* Numbers and sequences.                                                  *)

\* Every non-empty set of numbers has a least element: induction as a fact.
LEMMA Smallest ==
    ASSUME NEW N \in SUBSET Nat, N # {}
    PROVE  \E n \in N : \A m \in N : n <= m
<1>1. IsWellFoundedOn({ss \in Nat \X Nat : ss[1] < ss[2]}, Nat)
    BY NatLessThanWellFounded DEF OpToRel
<1>2. PICK n \in N : \A m \in N : ~(<<m, n>> \in {ss \in Nat \X Nat : ss[1] < ss[2]})
    BY <1>1, WFMin
<1>3. n \in Nat /\ \A m \in N : m \in Nat /\ ~(m < n)
    BY <1>2
<1> QED
    BY <1>2, <1>3

\* What Only has taken of the first n elements.
Taking(s, S, n, f) ==
    f = [i \in 0..n |-> IF i = 0 THEN <<>> ELSE IF s[i] \in S THEN Append(f[i - 1], s[i]) ELSE f[i - 1]]

LEMMA TakingExists ==
    ASSUME NEW s, NEW S, NEW n \in Nat
    PROVE  \E f : Taking(s, S, n, f)
<1> DEFINE Bad == {m \in Nat : ~\E f : Taking(s, S, m, f)}
<1> SUFFICES ASSUME Bad # {} PROVE FALSE
    OBVIOUS
<1>1. PICK m \in Bad : \A k \in Bad : m <= k
    BY Smallest
<1>2. Taking(s, S, 0, [i \in 0..0 |-> <<>>])
    BY DEF Taking
<1>3. m # 0 /\ m \in Nat /\ m - 1 \in Nat /\ m - 1 \notin Bad
    BY <1>1, <1>2
<1>4. PICK f : Taking(s, S, m - 1, f)
    BY <1>3
<1> DEFINE last == IF s[m] \in S THEN Append(f[m - 1], s[m]) ELSE f[m - 1]
           g == [i \in 0..m |-> IF i = m THEN last ELSE f[i]]
<1>5. \A i \in 0..(m - 1) : f[i] = IF i = 0 THEN <<>> ELSE IF s[i] \in S THEN Append(f[i - 1], s[i]) ELSE f[i - 1]
    BY <1>4 DEF Taking
<1>6. \A i \in 0..m : g[i] = IF i = 0 THEN <<>> ELSE IF s[i] \in S THEN Append(g[i - 1], s[i]) ELSE g[i - 1]
    <2> TAKE i \in 0..m
    <2>1. CASE i = m
        BY <1>3, <2>1
    <2>2. CASE i # m
        <3>1. i \in 0..(m - 1) /\ (i # 0 => i - 1 \in 0..(m - 1) /\ i - 1 # m)
            BY <1>3, <2>2
        <3> QED
            BY <1>3, <1>5, <2>2, <3>1
    <2> QED
        BY <2>1, <2>2
<1>7. Taking(s, S, m, g)
    <2> HIDE DEF g
    <2>1. g = [i \in 0..m |-> g[i]]
        BY DEF g
    <2> QED
        BY <1>6, <2>1 DEF Taking
<1> QED
    BY <1>1, <1>7

LEMMA OnlyIsTaken ==
    ASSUME NEW s, Len(s) \in Nat, NEW S
    PROVE  \E f : Taking(s, S, Len(s), f) /\ Only(s, S) = f[Len(s)]
<1> DEFINE F == CHOOSE f : Taking(s, S, Len(s), f)
<1>1. Taking(s, S, Len(s), F)
    BY TakingExists
<1>2. Only(s, S) = F[Len(s)]
    BY DEF Only, Taking
<1> QED
    BY <1>1, <1>2

\* The elements that n elements of s leave in S, as an increasing choice e of
\* the positions of s.
Chosen(s, S, n, r, e) ==
    /\ e \in [1..Len(r) -> 1..n]
    /\ \A i, j \in 1..Len(r) : i < j => e[i] < e[j]
    /\ \A i \in 1..Len(r) : r[i] = s[e[i]] /\ s[e[i]] \in S
    /\ \A k \in 1..n : s[k] \in S => \E i \in 1..Len(r) : e[i] = k

LEMMA ChosenStep ==
    ASSUME NEW T, NEW s \in Seq(T), NEW S, NEW n \in Nat, n + 1 <= Len(s),
           NEW r \in Seq(T), NEW e, Chosen(s, S, n, r, e)
    PROVE  /\ s[n + 1] \notin S => Chosen(s, S, n + 1, r, e)
           /\ s[n + 1] \in S => /\ Append(r, s[n + 1]) \in Seq(T)
                                /\ \E g : Chosen(s, S, n + 1, Append(r, s[n + 1]), g)
<1> DEFINE x == s[n + 1]
<1>1. x \in T /\ n + 1 \in Nat
    OBVIOUS
<1>2. ASSUME x \notin S PROVE Chosen(s, S, n + 1, r, e)
    <2>1. \A k \in 1..(n + 1) : s[k] \in S => k \in 1..n
        BY <1>2
    <2>2. e \in [1..Len(r) -> 1..(n + 1)]
        BY DEF Chosen
    <2> QED
        BY <2>1, <2>2 DEF Chosen
<1>3. ASSUME x \in S
      PROVE  Append(r, x) \in Seq(T) /\ \E g : Chosen(s, S, n + 1, Append(r, x), g)
    <2> DEFINE q == Append(r, x)
               m == Len(r)
               g == [i \in 1..(m + 1) |-> IF i = m + 1 THEN n + 1 ELSE e[i]]
    <2>1. q \in Seq(T) /\ Len(q) = m + 1 /\ q[m + 1] = x /\ m \in Nat /\ \A i \in 1..m : q[i] = r[i]
        BY <1>1
    <2>2. \A i \in 1..m : e[i] \in 1..n /\ r[i] = s[e[i]] /\ s[e[i]] \in S
        BY DEF Chosen
    <2>3. g \in [1..(m + 1) -> 1..(n + 1)]
        BY <2>1, <2>2
    <2>4. ASSUME NEW i \in 1..(m + 1), NEW j \in 1..(m + 1), i < j PROVE g[i] < g[j]
        <3>1. i \in 1..m /\ e[i] < n + 1
            BY <2>1, <2>2, <2>4
        <3>2. CASE j = m + 1
            BY <2>1, <2>4, <3>1, <3>2
        <3>3. CASE j \in 1..m
            BY <2>1, <2>4, <3>1, <3>3 DEF Chosen
        <3> QED
            BY <2>1, <3>2, <3>3
    <2>5. \A i \in 1..(m + 1) : q[i] = s[g[i]] /\ s[g[i]] \in S
        BY <1>3, <2>1, <2>2
    <2>6. \A k \in 1..(n + 1) : s[k] \in S => \E i \in 1..(m + 1) : g[i] = k
        <3> SUFFICES ASSUME NEW k \in 1..(n + 1), s[k] \in S PROVE \E i \in 1..(m + 1) : g[i] = k
            OBVIOUS
        <3>1. CASE k = n + 1
            <4>1. m + 1 \in 1..(m + 1) /\ g[m + 1] = n + 1
                BY <2>1
            <4> QED
                BY <3>1, <4>1
        <3>2. CASE k \in 1..n
            <4>1. PICK i \in 1..m : e[i] = k
                BY <3>2 DEF Chosen
            <4> QED
                BY <2>1, <4>1
        <3> QED
            BY <3>1, <3>2
    <2> HIDE DEF q, g
    <2>7. Chosen(s, S, n + 1, q, g)
        BY <2>1, <2>3, <2>4, <2>5, <2>6 DEF Chosen
    <2> QED
        BY <2>1, <2>7 DEF q
<1> QED
    BY <1>2, <1>3

\* What Only returns: an increasing choice of exactly the elements in S.
LEMMA OnlyChooses ==
    ASSUME NEW T, NEW s \in Seq(T), NEW S
    PROVE  /\ Only(s, S) \in Seq(T)
           /\ \E e : Chosen(s, S, Len(s), Only(s, S), e)
<1>1. PICK f : Taking(s, S, Len(s), f) /\ Only(s, S) = f[Len(s)]
    BY OnlyIsTaken
<1>2. \A i \in 0..Len(s) : f[i] = IF i = 0 THEN <<>> ELSE IF s[i] \in S THEN Append(f[i - 1], s[i]) ELSE f[i - 1]
    BY <1>1 DEF Taking
<1> DEFINE Good(n) == f[n] \in Seq(T) /\ \E e : Chosen(s, S, n, f[n], e)
           Bad == {n \in 0..Len(s) : ~Good(n)}
<1> SUFFICES Bad = {}
    BY <1>1
<1> SUFFICES ASSUME Bad # {} PROVE FALSE
    OBVIOUS
<1>3. PICK m \in Bad : \A k \in Bad : m <= k
    <2>1. Bad \subseteq 0..Len(s) /\ 0..Len(s) \subseteq Nat
        OBVIOUS
    <2> HIDE DEF Bad
    <2>2. Bad \in SUBSET Nat
        BY <2>1
    <2> QED
        BY <2>2, Smallest
<1>4. m # 0
    <2>1. f[0] = <<>>
        BY <1>2
    <2> DEFINE none == [i \in 1..0 |-> 0]
    <2>2. none \in [1..Len(<<>>) -> 1..0] /\ Len(<<>>) = 0 /\ <<>> \in Seq(T)
        OBVIOUS
    <2> HIDE DEF none
    <2>3. Chosen(s, S, 0, <<>>, none)
        BY <2>2 DEF Chosen
    <2>4. Good(0)
        BY <2>1, <2>2, <2>3
    <2> QED
        BY <1>3, <2>4
<1>5. m - 1 \in Nat /\ m - 1 \in 0..Len(s) /\ (m - 1) + 1 = m /\ m <= Len(s)
    BY <1>3, <1>4
<1>6. Good(m - 1)
    <2>1. m \in Nat /\ ~(m <= m - 1)
        BY <1>3
    <2>2. m - 1 \notin Bad
        <3> HIDE DEF Bad
        <3> QED
            BY <1>3, <2>1
    <2> QED
        BY <1>5, <2>2
<1>7. f[m] = IF s[m] \in S THEN Append(f[m - 1], s[m]) ELSE f[m - 1]
    BY <1>2, <1>3, <1>4
<1>8. PICK e : Chosen(s, S, m - 1, f[m - 1], e)
    BY <1>6
<1>9. Good(m)
    <2> DEFINE n == m - 1
               r == f[m - 1]
    <2>1. n \in Nat /\ n + 1 = m /\ n + 1 <= Len(s) /\ r \in Seq(T) /\ Chosen(s, S, n, r, e)
        BY <1>5, <1>6, <1>8
    <2> HIDE DEF n, r
    <2>2. /\ s[n + 1] \notin S => Chosen(s, S, n + 1, r, e)
          /\ s[n + 1] \in S => /\ Append(r, s[n + 1]) \in Seq(T)
                               /\ \E g : Chosen(s, S, n + 1, Append(r, s[n + 1]), g)
        BY <2>1, ChosenStep
    <2>3. f[m] = IF s[m] \in S THEN Append(r, s[m]) ELSE r
        BY <1>7 DEF r
    <2> QED
        BY <2>1, <2>2, <2>3
<1> QED
    BY <1>3, <1>9

-----------------------------------------------------------------------------
(* The order of a sequence without repetitions.                            *)
Before(s, x, y) == \E i, j \in DOMAIN s : i < j /\ s[i] = x /\ s[j] = y
Distinct(s) == \A i, j \in DOMAIN s : s[i] = s[j] => i = j

LEMMA ToSetOf ==
    ASSUME NEW T, NEW s \in Seq(T)
    PROVE  /\ ToSet(s) \subseteq T
           /\ \A i \in DOMAIN s : s[i] \in ToSet(s)
           /\ \A x \in ToSet(s) : \E i \in DOMAIN s : s[i] = x
           /\ ToSet(s) = {} <=> s = <<>>
           /\ s # <<>> => Head(s) = s[1] /\ s[1] \in ToSet(s) /\ 1 \in DOMAIN s
BY DEF ToSet

LEMMA OnlyFacts ==
    ASSUME NEW T, NEW s \in Seq(T), NEW S
    PROVE  /\ Only(s, S) \in Seq(T)
           /\ ToSet(Only(s, S)) = ToSet(s) \cap S
           /\ Distinct(s) => Distinct(Only(s, S))
           /\ \A x, y : Before(Only(s, S), x, y) <=> x \in S /\ y \in S /\ Before(s, x, y)
<1> DEFINE r == Only(s, S)
<1>1. r \in Seq(T)
    BY OnlyChooses
<1>2. PICK e : Chosen(s, S, Len(s), r, e)
    BY OnlyChooses
<1> HIDE DEF r
<1>3. DOMAIN s = 1..Len(s) /\ DOMAIN r = 1..Len(r) /\ Len(s) \in Nat /\ Len(r) \in Nat
    BY <1>1
<1>4. \A i \in DOMAIN r : e[i] \in DOMAIN s /\ r[i] = s[e[i]] /\ s[e[i]] \in S
    BY <1>2, <1>3 DEF Chosen
<1>5. \A k \in DOMAIN s : s[k] \in S => \E i \in DOMAIN r : e[i] = k
    BY <1>2, <1>3 DEF Chosen
<1>6. \A i, j \in DOMAIN r : i < j => e[i] < e[j]
    BY <1>2, <1>3 DEF Chosen
<1>7. \A i, j \in DOMAIN r : e[i] < e[j] => i < j
    <2> SUFFICES ASSUME NEW i \in DOMAIN r, NEW j \in DOMAIN r, e[i] < e[j], ~(i < j) PROVE FALSE
        OBVIOUS
    <2>1. i = j \/ j < i
        BY <1>3
    <2> QED
        BY <1>3, <1>4, <1>6, <2>1
<1>8. ToSet(r) = ToSet(s) \cap S
    BY <1>4, <1>5 DEF ToSet
<1>9. ASSUME Distinct(s) PROVE Distinct(r)
    <2> SUFFICES ASSUME NEW i \in DOMAIN r, NEW j \in DOMAIN r, r[i] = r[j], i # j PROVE FALSE
        BY DEF Distinct
    <2>1. e[i] = e[j]
        BY <1>4, <1>9 DEF Distinct
    <2>2. i < j \/ j < i
        BY <1>3
    <2> QED
        BY <1>3, <1>4, <1>6, <2>1, <2>2
<1>10. ASSUME NEW x, NEW y, Before(r, x, y) PROVE x \in S /\ y \in S /\ Before(s, x, y)
    BY <1>4, <1>6, <1>10 DEF Before
<1>11. ASSUME NEW x, NEW y, x \in S, y \in S, Before(s, x, y) PROVE Before(r, x, y)
    <2>1. PICK k, l \in DOMAIN s : k < l /\ s[k] = x /\ s[l] = y
        BY <1>11 DEF Before
    <2>2. PICK i \in DOMAIN r : e[i] = k
        BY <1>5, <1>11, <2>1
    <2>3. PICK j \in DOMAIN r : e[j] = l
        BY <1>5, <1>11, <2>1
    <2>4. i < j /\ r[i] = x /\ r[j] = y
        BY <1>4, <1>7, <2>1, <2>2, <2>3
    <2> QED
        BY <2>4 DEF Before
<1> QED
    BY <1>1, <1>8, <1>9, <1>10, <1>11 DEF r

LEMMA OnlyHead ==
    ASSUME NEW T, NEW s \in Seq(T), NEW S, Distinct(s), s # <<>>, s[1] \in S
    PROVE  Only(s, S) # <<>> /\ Only(s, S)[1] = s[1]
<1> DEFINE r == Only(s, S)
<1>1. r \in Seq(T) /\ ToSet(r) = ToSet(s) \cap S /\ Distinct(r)
    BY OnlyFacts
<1>2. \A x, y : Before(r, x, y) => Before(s, x, y)
    BY OnlyFacts
<1> HIDE DEF r
<1>3. s[1] \in ToSet(r)
    BY <1>1, ToSetOf
<1>4. PICK k \in DOMAIN r : r[k] = s[1]
    BY <1>1, <1>3, ToSetOf
<1>5. ASSUME k # 1 PROVE FALSE
    <2>1. 1 \in DOMAIN r /\ 1 < k
        BY <1>1, <1>5
    <2>2. Before(s, r[1], s[1])
        <3>1. Before(r, r[1], s[1])
            BY <1>4, <2>1 DEF Before
        <3> QED
            BY <1>2, <3>1
    <2>3. PICK i, j \in DOMAIN s : i < j /\ s[j] = s[1]
        BY <2>2 DEF Before
    <2>4. 1 \in DOMAIN s /\ i >= 1 /\ j \in Nat /\ i \in Nat
        OBVIOUS
    <2>5. j = 1
        BY <2>3, <2>4 DEF Distinct
    <2> QED
        BY <2>3, <2>4, <2>5
<1> QED
    BY <1>1, <1>4, <1>5 DEF r

\* In a sequence without repetitions the order is total, and its head is least.
LEMMA OrderFacts ==
    ASSUME NEW T, NEW s \in Seq(T), Distinct(s)
    PROVE  /\ \A x, y : Before(s, x, y) => x \in ToSet(s) /\ y \in ToSet(s) /\ x # y /\ ~Before(s, y, x)
           /\ \A x, y \in ToSet(s) : x # y => Before(s, x, y) \/ Before(s, y, x)
           /\ \A x, y, z : Before(s, x, y) /\ Before(s, y, z) => Before(s, x, z)
           /\ s # <<>> => \A x \in ToSet(s) : x # s[1] => Before(s, s[1], x)
           /\ s # <<>> => \A x : ~Before(s, x, s[1])
<1>0. DOMAIN s = 1..Len(s) /\ Len(s) \in Nat
    OBVIOUS
<1>1. ASSUME NEW x, NEW y, Before(s, x, y)
      PROVE  x \in ToSet(s) /\ y \in ToSet(s) /\ x # y /\ ~Before(s, y, x)
    <2>1. PICK i, j \in DOMAIN s : i < j /\ s[i] = x /\ s[j] = y
        BY <1>1 DEF Before
    <2>2. ASSUME Before(s, y, x) PROVE FALSE
        <3>1. PICK k, l \in DOMAIN s : k < l /\ s[k] = y /\ s[l] = x
            BY <2>2 DEF Before
        <3>2. k = j /\ l = i
            BY <2>1, <3>1 DEF Distinct
        <3> QED
            BY <1>0, <2>1, <3>1, <3>2
    <2> QED
        BY <1>0, <2>1, <2>2, ToSetOf DEF Distinct
<1>2. ASSUME NEW x \in ToSet(s), NEW y \in ToSet(s), x # y PROVE Before(s, x, y) \/ Before(s, y, x)
    <2>1. PICK i \in DOMAIN s : s[i] = x
        BY ToSetOf
    <2>2. PICK j \in DOMAIN s : s[j] = y
        BY ToSetOf
    <2>3. i < j \/ j < i
        BY <1>0, <1>2, <2>1, <2>2
    <2> QED
        BY <2>1, <2>2, <2>3 DEF Before
<1>3. ASSUME NEW x, NEW y, NEW z, Before(s, x, y), Before(s, y, z) PROVE Before(s, x, z)
    <2>1. PICK i, j \in DOMAIN s : i < j /\ s[i] = x /\ s[j] = y
        BY <1>3 DEF Before
    <2>2. PICK k, l \in DOMAIN s : k < l /\ s[k] = y /\ s[l] = z
        BY <1>3 DEF Before
    <2>3. j = k
        BY <2>1, <2>2 DEF Distinct
    <2>4. i < l
        BY <1>0, <2>1, <2>2, <2>3
    <2> QED
        BY <2>1, <2>2, <2>4 DEF Before
<1>4. ASSUME s # <<>>, NEW x \in ToSet(s), x # s[1] PROVE Before(s, s[1], x)
    <2>1. PICK j \in DOMAIN s : s[j] = x
        BY ToSetOf
    <2>2. 1 \in DOMAIN s /\ 1 < j
        BY <1>0, <1>4, <2>1
    <2> QED
        BY <2>1, <2>2 DEF Before
<1>5. ASSUME s # <<>>, NEW x, Before(s, x, s[1]) PROVE FALSE
    <2>1. PICK i, j \in DOMAIN s : i < j /\ s[i] = x /\ s[j] = s[1]
        BY <1>5 DEF Before
    <2>2. 1 \in DOMAIN s /\ j = 1
        BY <1>0, <2>1 DEF Distinct
    <2> QED
        BY <1>0, <2>1, <2>2
<1> QED
    BY <1>1, <1>2, <1>3, <1>4, <1>5

LEMMA AppendFacts ==
    ASSUME NEW T, NEW s \in Seq(T), NEW t \in T
    PROVE  /\ Append(s, t) \in Seq(T) /\ Append(s, t) # <<>> /\ Len(Append(s, t)) = Len(s) + 1
           /\ ToSet(Append(s, t)) = ToSet(s) \cup {t}
           /\ Append(s, t)[1] = (IF s = <<>> THEN t ELSE s[1]) /\ Append(s, t)[Len(s) + 1] = t
           /\ Distinct(s) /\ t \notin ToSet(s) => Distinct(Append(s, t))
           /\ \A x, y : Before(Append(s, t), x, y) <=> Before(s, x, y) \/ (x \in ToSet(s) /\ y = t)
<1> DEFINE r == Append(s, t)
           n == Len(s)
<1>1. r \in Seq(T) /\ n \in Nat /\ Len(r) = n + 1 /\ r[n + 1] = t /\ \A i \in 1..n : r[i] = s[i]
    OBVIOUS
<1> HIDE DEF r
<1>2. DOMAIN r = 1..(n + 1) /\ DOMAIN s = 1..n
    BY <1>1
<1>3. ToSet(r) = ToSet(s) \cup {t}
    BY <1>1, <1>2 DEF ToSet
<1>4. ASSUME Distinct(s), t \notin ToSet(s) PROVE Distinct(r)
    <2>1. \A i \in 1..n : s[i] # t
        BY <1>2, <1>4, ToSetOf
    <2> QED
        BY <1>1, <1>2, <1>4, <2>1 DEF Distinct
<1>5. ASSUME NEW x, NEW y, Before(r, x, y) PROVE Before(s, x, y) \/ (x \in ToSet(s) /\ y = t)
    <2>1. PICK i, j \in 1..(n + 1) : i < j /\ r[i] = x /\ r[j] = y
        BY <1>2, <1>5 DEF Before
    <2>2. i \in 1..n /\ s[i] = x
        BY <1>1, <2>1
    <2>3. x \in ToSet(s)
        BY <1>2, <2>2, ToSetOf
    <2>4. CASE j = n + 1
        BY <1>1, <2>1, <2>3, <2>4
    <2>5. CASE j \in 1..n
        BY <1>1, <1>2, <2>1, <2>2, <2>5 DEF Before
    <2> QED
        BY <1>1, <2>4, <2>5
<1>6. ASSUME NEW x, NEW y, Before(s, x, y) PROVE Before(r, x, y)
    <2>1. PICK i, j \in 1..n : i < j /\ s[i] = x /\ s[j] = y
        BY <1>2, <1>6 DEF Before
    <2> QED
        BY <1>1, <1>2, <2>1 DEF Before
<1>7. ASSUME NEW x \in ToSet(s) PROVE Before(r, x, t)
    <2>1. PICK i \in 1..n : s[i] = x
        BY <1>2, ToSetOf
    <2>2. i < n + 1 /\ n + 1 \in 1..(n + 1) /\ i \in 1..(n + 1)
        BY <1>1
    <2> QED
        BY <1>1, <1>2, <2>1, <2>2 DEF Before
<1>8. r # <<>> /\ r[1] = IF s = <<>> THEN t ELSE s[1]
    <2>1. s # <<>> => 1 \in 1..n
        BY <1>1
    <2>2. s = <<>> => n = 0
        BY <1>1
    <2> QED
        BY <1>1, <1>2, <2>1, <2>2
<1> QED
    BY <1>1, <1>3, <1>4, <1>5, <1>6, <1>7, <1>8 DEF r

LEMMA TailFacts ==
    ASSUME NEW T, NEW s \in Seq(T), s # <<>>
    PROVE  /\ Tail(s) \in Seq(T) /\ Len(Tail(s)) = Len(s) - 1
           /\ \A i \in DOMAIN Tail(s) : i + 1 \in DOMAIN s /\ Tail(s)[i] = s[i + 1]
           /\ \A i \in DOMAIN s : i # 1 => i - 1 \in DOMAIN Tail(s) /\ Tail(s)[i - 1] = s[i]
           /\ ToSet(Tail(s)) \subseteq ToSet(s) /\ ToSet(s) = ToSet(Tail(s)) \cup {s[1]}
           /\ Distinct(s) => Distinct(Tail(s)) /\ ToSet(Tail(s)) = ToSet(s) \ {s[1]}
           /\ \A x, y : Before(Tail(s), x, y) => Before(s, x, y)
           /\ \A x, y : Before(s, x, y) /\ x # s[1] => Before(Tail(s), x, y)
<1> DEFINE r == Tail(s)
<1>1. /\ r \in Seq(T) /\ Len(r) = Len(s) - 1 /\ Len(s) \in Nat /\ Len(s) > 0
      /\ \A i \in 1..(Len(s) - 1) : r[i] = s[i + 1]
    OBVIOUS
<1> HIDE DEF r
<1>2. DOMAIN r = 1..(Len(s) - 1) /\ DOMAIN s = 1..Len(s) /\ 1 \in DOMAIN s
    BY <1>1
<1>3. \A i \in DOMAIN r : i + 1 \in DOMAIN s /\ r[i] = s[i + 1]
    BY <1>1, <1>2
<1>4. \A i \in DOMAIN s : i # 1 => i - 1 \in DOMAIN r /\ r[i - 1] = s[i]
    <2> TAKE i \in DOMAIN s
    <2>1. i # 1 => i - 1 \in 1..(Len(s) - 1) /\ (i - 1) + 1 = i
        BY <1>1, <1>2
    <2> QED
        BY <1>1, <1>2, <2>1
<1>5. ToSet(r) \subseteq ToSet(s)
    BY <1>3 DEF ToSet
<1>6. ToSet(s) = ToSet(r) \cup {s[1]}
    <2>1. \A i \in DOMAIN s : s[i] = s[1] \/ s[i] \in ToSet(r)
        BY <1>4 DEF ToSet
    <2> QED
        BY <1>2, <1>5, <2>1 DEF ToSet
<1>7. ASSUME Distinct(s) PROVE Distinct(r) /\ s[1] \notin ToSet(r)
    <2>1. \A i \in DOMAIN r : i \in Nat /\ i + 1 # 1
        BY <1>2
    <2>2. s[1] \notin ToSet(r)
        BY <1>2, <1>3, <1>7, <2>1 DEF ToSet, Distinct
    <2>3. Distinct(r)
        <3> SUFFICES ASSUME NEW i \in DOMAIN r, NEW j \in DOMAIN r, r[i] = r[j] PROVE i = j
            BY DEF Distinct
        <3>1. i + 1 = j + 1
            BY <1>3, <1>7 DEF Distinct
        <3> QED
            BY <2>1, <3>1
    <2> QED
        BY <2>2, <2>3
<1>8. ASSUME NEW x, NEW y, Before(r, x, y) PROVE Before(s, x, y)
    <2>1. PICK i, j \in DOMAIN r : i < j /\ r[i] = x /\ r[j] = y
        BY <1>8 DEF Before
    <2>2. i + 1 < j + 1
        BY <1>2, <2>1
    <2> QED
        BY <1>3, <2>1, <2>2 DEF Before
<1>9. ASSUME NEW x, NEW y, Before(s, x, y), x # s[1] PROVE Before(r, x, y)
    <2>1. PICK i, j \in DOMAIN s : i < j /\ s[i] = x /\ s[j] = y
        BY <1>9 DEF Before
    <2>2. i # 1 /\ j # 1 /\ i - 1 < j - 1
        BY <1>2, <1>9, <2>1
    <2> QED
        BY <1>4, <2>1, <2>2 DEF Before
<1> QED
    BY <1>1, <1>3, <1>4, <1>5, <1>6, <1>7, <1>8, <1>9 DEF r

\* Two sequences without repetitions that hold the same in the same order.
LEMMA SameSequence ==
    ASSUME NEW T, NEW s \in Seq(T), NEW t \in Seq(T), Distinct(s), Distinct(t), ToSet(s) = ToSet(t),
           \A x, y : Before(s, x, y) => Before(t, x, y)
    PROVE  s = t
<1>0. DOMAIN s = 1..Len(s) /\ Len(s) \in Nat /\ DOMAIN t = 1..Len(t) /\ Len(t) \in Nat
    OBVIOUS
<1>1. \A x, y : Before(t, x, y) => Before(s, x, y)
    <2> SUFFICES ASSUME NEW x, NEW y, Before(t, x, y) PROVE Before(s, x, y)
        OBVIOUS
    <2>1. x \in ToSet(t) /\ y \in ToSet(t) /\ x # y /\ ~Before(t, y, x)
        BY OrderFacts
    <2>2. Before(s, x, y) \/ Before(s, y, x)
        BY <2>1, OrderFacts
    <2> QED
        BY <2>1, <2>2
<1> DEFINE Bad == {i \in Nat : i \in DOMAIN s \cup DOMAIN t /\ ~(i \in DOMAIN s /\ i \in DOMAIN t /\ s[i] = t[i])}
<1>2. ASSUME Bad # {} PROVE FALSE
    <2>1. PICK m \in Bad : \A k \in Bad : m <= k
        BY <1>2, Smallest
    <2>2. m \in Nat /\ m \in DOMAIN s \cup DOMAIN t /\ ~(m \in DOMAIN s /\ m \in DOMAIN t /\ s[m] = t[m])
        OBVIOUS
    <2>3. \A i \in Nat : i < m /\ i \in DOMAIN s \cup DOMAIN t => i \in DOMAIN s /\ i \in DOMAIN t /\ s[i] = t[i]
        <3> TAKE i \in Nat
        <3>1. i < m => ~(m <= i)
            BY <2>2
        <3> QED
            BY <2>1, <3>1
    <2>4. ASSUME NEW a \in Seq(T), NEW b \in Seq(T), Distinct(a), Distinct(b), ToSet(a) = ToSet(b),
                 DOMAIN a = 1..Len(a), DOMAIN b = 1..Len(b),
                 \A x, y : Before(a, x, y) <=> Before(b, x, y),
                 m \in DOMAIN a, ~(m \in DOMAIN b /\ a[m] = b[m]),
                 \A i \in Nat : i < m /\ i \in DOMAIN a \cup DOMAIN b => i \in DOMAIN a /\ i \in DOMAIN b /\ a[i] = b[i]
          PROVE  FALSE
        <3>1. PICK k \in DOMAIN b : b[k] = a[m]
            BY <2>4, ToSetOf
        <3>2. ~(k < m)
            BY <2>4, <3>1 DEF Distinct
        <3>3. k # m
            BY <2>4, <3>1
        <3>4. m < k /\ m \in DOMAIN b
            BY <2>2, <2>4, <3>1, <3>2, <3>3
        <3>5. Before(b, b[m], a[m])
            BY <3>1, <3>4 DEF Before
        <3>6. PICK i, j \in DOMAIN a : i < j /\ a[i] = b[m] /\ a[j] = a[m]
            BY <2>4, <3>5 DEF Before
        <3>7. j = m
            BY <2>4, <3>6 DEF Distinct
        <3>8. i \in DOMAIN b /\ b[i] = b[m]
            BY <2>4, <3>6, <3>7
        <3>9. i = m
            BY <2>4, <3>4, <3>8 DEF Distinct
        <3> QED
            BY <2>2, <3>6, <3>7, <3>9
    <2>5. CASE m \in DOMAIN s
        BY <1>0, <1>1, <2>2, <2>3, <2>4, <2>5
    <2>6. CASE m \in DOMAIN t
        BY <1>0, <1>1, <2>2, <2>3, <2>4, <2>6
    <2> QED
        BY <2>2, <2>5, <2>6
<1>3. DOMAIN s = DOMAIN t /\ \A i \in DOMAIN s : s[i] = t[i]
    <2>1. DOMAIN s \cup DOMAIN t \subseteq Nat
        BY <1>0
    <2>2. \A i \in DOMAIN s \cup DOMAIN t : i \in DOMAIN s /\ i \in DOMAIN t /\ s[i] = t[i]
        BY <1>2, <2>1
    <2> QED
        BY <2>2
<1> QED
    BY <1>3

-----------------------------------------------------------------------------
(* What the operators of the view return.                                  *)
Turns == Nat \ {0}
Views == [ready : BOOLEAN, status : Statuses, turn : Nat, gen : Nat, rev : Nat]
Tokens == [gen : Nat, rev : Nat]
Sessions == [view : Views, dead : SUBSET Turns, asked : SUBSET Nat]

Sound(s) ==
    /\ s.view.status = "active" <=> s.view.turn # 0
    /\ s.view.status # "error"
    /\ s.view.turn = 0 \/ s.view.turn \notin s.dead

\* n comes of s by operators that keep the generation: a changed view has a
\* revision of its own, and nothing makes a known status unknown.
Onward(s, n) ==
    /\ n.view.gen = s.view.gen /\ n.view.ready = s.view.ready /\ n.view.rev >= s.view.rev
    /\ n.view.rev = s.view.rev => n.view = s.view
    /\ n.view.status = "unknown" => s.view.status = "unknown"
    /\ s.dead \subseteq n.dead

Sure(s, n) == n \in Sessions /\ Onward(s, n) /\ (Sound(s) => Sound(n))

LEMMA SureOfItself ==
    ASSUME NEW s \in Sessions
    PROVE  Sure(s, s)
BY DEF Sessions, Views, Sure, Onward

LEMMA SureTwice ==
    ASSUME NEW s \in Sessions, NEW n \in Sessions, NEW m \in Sessions, Sure(s, n), Sure(n, m)
    PROVE  Sure(s, m)
<1>1. Onward(s, n) /\ Onward(n, m)
    BY DEF Sure
<1>2. s.view.rev \in Nat /\ n.view.rev \in Nat /\ m.view.rev \in Nat
    BY DEF Sessions, Views
<1>3. Onward(s, m)
    BY <1>1, <1>2 DEF Onward
<1> QED
    BY <1>3 DEF Sure

LEMMA SureUnasked ==
    ASSUME NEW s \in Sessions, NEW n \in Sessions, Sure(s, n)
    PROVE  /\ Sure(s, [n EXCEPT !.asked = {}])
           /\ [n EXCEPT !.asked = {}].view = n.view /\ [n EXCEPT !.asked = {}].dead = n.dead
BY DEF Sure, Onward, Sound, Sessions, Views

LEMMA ViewExcept ==
    ASSUME NEW x \in Views, NEW status \in Statuses, NEW turn \in Nat, NEW rev \in Nat
    PROVE  [x EXCEPT !.status = status, !.turn = turn, !.rev = rev]
                = [ready |-> x.ready, status |-> status, turn |-> turn, gen |-> x.gen, rev |-> rev]
<1> DEFINE y == [x EXCEPT !.status = status]
           z == [y EXCEPT !.turn = turn]
           w == [z EXCEPT !.rev = rev]
<1>1. y \in Views /\ y = [ready |-> x.ready, status |-> status, turn |-> x.turn, gen |-> x.gen, rev |-> x.rev]
    BY DEF Views
<1>2. [x EXCEPT !.status = status, !.turn = turn, !.rev = rev] = w
    OBVIOUS
<1> HIDE DEF y
<1>3. z \in Views /\ z = [ready |-> x.ready, status |-> status, turn |-> turn, gen |-> x.gen, rev |-> x.rev]
    BY <1>1 DEF Views
<1> HIDE DEF z
<1>4. w = [ready |-> x.ready, status |-> status, turn |-> turn, gen |-> x.gen, rev |-> rev]
    BY <1>3 DEF Views
<1> QED
    BY <1>2, <1>4

LEMMA ApplyIs ==
    ASSUME NEW s \in Sessions, NEW status \in Statuses, NEW turn \in Nat
    PROVE  /\ Apply(s, status, turn) \in Sessions
           /\ Apply(s, status, turn).view = [ready |-> s.view.ready, status |-> status, turn |-> turn,
                                             gen |-> s.view.gen, rev |-> s.view.rev + 1]
           /\ Apply(s, status, turn).dead = s.dead /\ Apply(s, status, turn).asked = s.asked
<1> DEFINE v == [ready |-> s.view.ready, status |-> status, turn |-> turn, gen |-> s.view.gen, rev |-> s.view.rev + 1]
<1>0. s.view \in Views
    BY DEF Sessions
<1>1. v \in Views
    BY <1>0 DEF Views
<1>2. [s.view EXCEPT !.status = status, !.turn = turn, !.rev = s.view.rev + 1] = v
    <2>1. s.view.rev + 1 \in Nat
        BY <1>0 DEF Views
    <2> QED
        BY <1>0, <2>1, ViewExcept
<1> HIDE DEF v
<1>3. Apply(s, status, turn) = [s EXCEPT !.view = v]
    BY <1>0, <1>2 DEF Apply, Sessions
<1>4. Apply(s, status, turn) \in Sessions
    BY <1>1, <1>3 DEF Sessions
<1>5. Apply(s, status, turn).view = v /\ Apply(s, status, turn).dead = s.dead /\ Apply(s, status, turn).asked = s.asked
    BY <1>3 DEF Sessions
<1> QED
    BY <1>4, <1>5 DEF v

LEMMA AskingIs ==
    ASSUME NEW s \in Sessions
    PROVE  Asking(s) \in Sessions /\ Asking(s).view = s.view /\ Asking(s).dead = s.dead
BY DEF Asking, Sessions, Views

LEMMA ExecutingIs ==
    ASSUME NEW s \in Sessions, NEW turn \in Turns
    PROVE  /\ Sure(s, Executing(s, turn))
           /\ Executing(s, turn).dead = s.dead /\ Executing(s, turn).asked = s.asked
           /\ ~s.view.ready \/ turn \in s.dead => Executing(s, turn) = s
           /\ s.view.ready /\ turn \notin s.dead =>
                Executing(s, turn).view.status = "active" /\ Executing(s, turn).view.turn = turn
<1>1. CASE ~s.view.ready \/ turn \in s.dead
    BY <1>1, SureOfItself DEF Executing
<1>2. CASE ~(~s.view.ready \/ turn \in s.dead)
    <2> DEFINE n == Apply(s, "active", turn)
    <2>1. Executing(s, turn) = n
        BY <1>2 DEF Executing
    <2>2. "active" \in Statuses /\ turn \in Nat /\ turn # 0
        BY DEF Statuses, Turns
    <2>3. /\ n \in Sessions /\ n.dead = s.dead /\ n.asked = s.asked
          /\ n.view = [ready |-> s.view.ready, status |-> "active", turn |-> turn, gen |-> s.view.gen, rev |-> s.view.rev + 1]
        BY <2>2, ApplyIs
    <2> HIDE DEF n
    <2>4. s.view.rev \in Nat
        BY DEF Sessions, Views
    <2> QED
        BY <1>2, <2>1, <2>2, <2>3, <2>4 DEF Sure, Onward, Sound
<1> QED
    BY <1>1, <1>2

LEMMA CompletedIs ==
    ASSUME NEW s \in Sessions, NEW turn \in Turns
    PROVE  /\ Sure(s, Completed(s, turn))
           /\ ~s.view.ready => Completed(s, turn) = s
           /\ s.view.ready =>
                /\ Completed(s, turn).dead = s.dead \cup {turn}
                /\ Completed(s, turn).view.rev = s.view.rev + 1
                /\ IF s.view.turn = turn \/ s.view.status = "idle"
                     THEN Completed(s, turn).view.status = "idle" /\ Completed(s, turn).view.turn = 0
                     ELSE Completed(s, turn).view.status = s.view.status /\ Completed(s, turn).view.turn = s.view.turn
<1>1. CASE ~s.view.ready
    BY <1>1, SureOfItself DEF Completed
<1>2. CASE s.view.ready
    <2> DEFINE d == [s EXCEPT !.dead = s.dead \cup {turn}]
    <2>1. d \in Sessions /\ d.view = s.view /\ d.dead = s.dead \cup {turn}
        BY DEF Sessions
    <2>2. s.view.rev \in Nat /\ s.view.status \in Statuses /\ s.view.turn \in Nat /\ "idle" \in Statuses
        BY DEF Sessions, Views, Statuses
    <2> HIDE DEF d
    <2>3. CASE s.view.turn = turn \/ s.view.status = "idle"
        <3> DEFINE n == Apply(d, "idle", 0)
        <3>1. /\ n \in Sessions /\ n.dead = d.dead
              /\ n.view = [ready |-> d.view.ready, status |-> "idle", turn |-> 0, gen |-> d.view.gen, rev |-> d.view.rev + 1]
            BY <2>1, <2>2, ApplyIs
        <3>2. Completed(s, turn) = n
            BY <1>2, <2>3 DEF Completed, d
        <3> HIDE DEF n
        <3>3. n.view.status = "idle" /\ n.view.turn = 0 /\ n.view.rev = s.view.rev + 1 /\ n.view.ready = s.view.ready /\ n.view.gen = s.view.gen
            BY <2>1, <3>1
        <3>4. Onward(s, n) /\ Sound(n)
            BY <2>1, <2>2, <3>1, <3>3 DEF Onward, Sound
        <3> QED
            BY <1>2, <2>1, <2>3, <3>1, <3>2, <3>3, <3>4 DEF Sure
    <2>4. CASE ~(s.view.turn = turn \/ s.view.status = "idle")
        <3> DEFINE m == Apply(d, s.view.status, s.view.turn)
                   n == Asking(m)
        <3>1. /\ m \in Sessions /\ m.dead = d.dead
              /\ m.view = [ready |-> d.view.ready, status |-> s.view.status, turn |-> s.view.turn, gen |-> d.view.gen, rev |-> d.view.rev + 1]
            BY <2>1, <2>2, ApplyIs
        <3>2. Completed(s, turn) = n
            BY <1>2, <2>4 DEF Completed, d
        <3> HIDE DEF m
        <3>3. n \in Sessions /\ n.view = m.view /\ n.dead = m.dead
            BY <3>1, AskingIs
        <3> HIDE DEF n
        <3> QED
            BY <1>2, <2>1, <2>2, <2>4, <3>1, <3>2, <3>3 DEF Sure, Onward, Sound
    <2> QED
        BY <2>3, <2>4
<1> QED
    BY <1>1, <1>2

LEMMA IdledIs ==
    ASSUME NEW s \in Sessions
    PROVE  /\ Sure(s, StatusChanged(s, "idle"))
           /\ StatusChanged(s, "idle").dead = s.dead
           /\ ~s.view.ready => StatusChanged(s, "idle") = s
           /\ s.view.ready => StatusChanged(s, "idle").view.status = "idle" /\ StatusChanged(s, "idle").view.turn = 0
<1>1. CASE ~s.view.ready
    BY <1>1, SureOfItself DEF StatusChanged
<1>2. CASE s.view.ready
    <2> DEFINE n == Apply(s, "idle", 0)
    <2>1. /\ n \in Sessions /\ n.dead = s.dead
          /\ n.view = [ready |-> s.view.ready, status |-> "idle", turn |-> 0, gen |-> s.view.gen, rev |-> s.view.rev + 1]
        BY ApplyIs DEF Statuses
    <2>2. StatusChanged(s, "idle") = n
        BY <1>2 DEF StatusChanged
    <2>3. s.view.rev \in Nat
        BY DEF Sessions, Views
    <2> HIDE DEF n
    <2>4. n.view.status = "idle" /\ n.view.turn = 0 /\ n.view.rev = s.view.rev + 1 /\ n.view.ready = s.view.ready /\ n.view.gen = s.view.gen
        BY <2>1
    <2>5. Onward(s, n) /\ Sound(n)
        BY <2>1, <2>3, <2>4 DEF Onward, Sound
    <2> QED
        BY <1>2, <2>1, <2>2, <2>4, <2>5 DEF Sure
<1> QED
    BY <1>1, <1>2

LEMMA RefreshedIs ==
    ASSUME NEW s \in Sessions, NEW token, NEW status \in Statuses, NEW turn \in Nat,
           status # "error", status = "active" => turn # 0,
           Fits(s, token) /\ status = "unknown" => s.view.status = "unknown"
    PROVE  /\ Sure(s, Refreshed(s, token, status, turn))
           /\ Refreshed(s, token, status, turn).dead = s.dead
           /\ ~Fits(s, token) => Refreshed(s, token, status, turn) = s
           /\ Fits(s, token) =>
                IF status # "active" THEN /\ Refreshed(s, token, status, turn).view.status = status
                                          /\ Refreshed(s, token, status, turn).view.turn = 0
                ELSE IF turn \in s.dead THEN /\ Refreshed(s, token, status, turn).view.status = "idle"
                                             /\ Refreshed(s, token, status, turn).view.turn = 0
                ELSE /\ Refreshed(s, token, status, turn).view.status = "active"
                     /\ Refreshed(s, token, status, turn).view.turn = turn
<1>1. CASE ~Fits(s, token)
    BY <1>1, SureOfItself DEF Refreshed
<1>2. CASE Fits(s, token)
    <2> DEFINE t == IF status # "active" THEN 0 ELSE turn
               x == IF t # 0 /\ t \in s.dead THEN "idle" ELSE status
               y == IF t # 0 /\ t \in s.dead THEN 0 ELSE t
               n == Apply(s, x, y)
    <2>1. Refreshed(s, token, status, turn) = n
        BY <1>2 DEF Refreshed
    <2>2. x \in Statuses /\ y \in Nat
        BY DEF Statuses
    <2>3. /\ n \in Sessions /\ n.dead = s.dead
          /\ n.view = [ready |-> s.view.ready, status |-> x, turn |-> y, gen |-> s.view.gen, rev |-> s.view.rev + 1]
        <3> HIDE DEF x, y
        <3> QED
            BY <2>2, ApplyIs
    <2>4. s.view.rev \in Nat
        BY DEF Sessions, Views
    <2> HIDE DEF n
    <2> QED
        BY <1>2, <2>1, <2>3, <2>4 DEF Sure, Onward, Sound
<1> QED
    BY <1>1, <1>2

LEMMA StartAnsweredIs ==
    ASSUME NEW s \in Sessions, NEW token, NEW turn \in Turns
    PROVE  /\ Sure(s, StartAnswered(s, token, turn))
           /\ StartAnswered(s, token, turn).dead = s.dead
           /\ \/ StartAnswered(s, token, turn) = s
              \/ /\ turn \notin s.dead
                 /\ StartAnswered(s, token, turn).view.status = "active" /\ StartAnswered(s, token, turn).view.turn = turn
<1>1. CASE StartRefused(s, token, turn) \/ s.view.rev # token.rev
    BY <1>1, SureOfItself DEF StartAnswered
<1>2. CASE ~(StartRefused(s, token, turn) \/ s.view.rev # token.rev)
    <2> DEFINE n == Apply(s, "active", turn)
    <2>1. StartAnswered(s, token, turn) = n
        BY <1>2 DEF StartAnswered
    <2>2. turn \notin s.dead
        BY <1>2 DEF StartRefused
    <2>3. /\ n \in Sessions /\ n.dead = s.dead /\ turn # 0
          /\ n.view = [ready |-> s.view.ready, status |-> "active", turn |-> turn, gen |-> s.view.gen, rev |-> s.view.rev + 1]
        BY ApplyIs DEF Statuses, Turns
    <2>4. s.view.rev \in Nat
        BY DEF Sessions, Views
    <2> HIDE DEF n
    <2> QED
        BY <2>1, <2>2, <2>3, <2>4 DEF Sure, Onward, Sound
<1> QED
    BY <1>1, <1>2

\* A repair applies to a view that has not changed since it began.
LEMMA RepairedIs ==
    ASSUME NEW s \in Sessions, NEW before \in Views, NEW latest \in Nat, Sound(s),
           before.gen = s.view.gen /\ before.rev = s.view.rev => before = s.view
    PROVE  /\ Sure(s, Repaired(s, before, latest))
           /\ Repaired(s, before, latest).dead = s.dead
           /\ \/ Repaired(s, before, latest).view.status = s.view.status /\ Repaired(s, before, latest).view.turn = s.view.turn
              \/ Repaired(s, before, latest).view.status = "idle" /\ latest \in s.dead
              \/ /\ latest # 0 /\ latest \notin s.dead
                 /\ Repaired(s, before, latest).view.status = "active" /\ Repaired(s, before, latest).view.turn = latest
<1> DEFINE token == [gen |-> before.gen, rev |-> before.rev]
           turn == IF latest # 0 THEN latest ELSE before.turn
           status == IF turn # 0 THEN "active" ELSE IF before.status = "active" THEN "unknown" ELSE before.status
<1>1. Repaired(s, before, latest) = Refreshed(s, token, status, turn)
    BY DEF Repaired
<1>2. Fits(s, token) => before = s.view
    BY DEF Fits, Token
<1>3. CASE ~Fits(s, token)
    <2>1. Repaired(s, before, latest) = s
        BY <1>1, <1>3 DEF Refreshed
    <2> QED
        BY <2>1, SureOfItself
<1>4. CASE Fits(s, token)
    <2>1. turn \in Nat /\ status \in Statuses
        BY DEF Views, Statuses
    <2>2. /\ status # "error" /\ (status = "active" => turn # 0)
          /\ Fits(s, token) /\ status = "unknown" => s.view.status = "unknown"
        BY <1>2, <1>4 DEF Sound
    <2>3. /\ turn = 0 => s.view.turn = 0 /\ status = s.view.status
          /\ turn # 0 => status = "active" /\ (latest = 0 => turn = s.view.turn /\ turn \notin s.dead /\ s.view.status = "active")
          /\ latest # 0 => turn = latest
        BY <1>2, <1>4 DEF Sound
    <2> HIDE DEF turn, status, token
    <2>4. /\ Sure(s, Refreshed(s, token, status, turn))
          /\ Refreshed(s, token, status, turn).dead = s.dead
          /\ IF status # "active" THEN /\ Refreshed(s, token, status, turn).view.status = status
                                       /\ Refreshed(s, token, status, turn).view.turn = 0
             ELSE IF turn \in s.dead THEN /\ Refreshed(s, token, status, turn).view.status = "idle"
                                          /\ Refreshed(s, token, status, turn).view.turn = 0
             ELSE /\ Refreshed(s, token, status, turn).view.status = "active"
                  /\ Refreshed(s, token, status, turn).view.turn = turn
        BY <1>4, <2>1, <2>2, RefreshedIs
    <2> QED
        BY <1>1, <2>2, <2>3, <2>4
<1> QED
    BY <1>3, <1>4

-----------------------------------------------------------------------------
(* Types.                                                                  *)
Asked == {"status", "held", "recovered", "checked"}
Messages == [kind : Asked \cup {"done", "sent", "interrupted"}, turn : Nat, folded : BOOLEAN, set : SUBSET Turns]
Requests == [kind : Asked \cup {"send", "interrupt"}, turn : Nat]
Repairs == [of : Nat, pc : {"asked", "reads"}, before : Views]
Calls == [op : {"none", "send", "interrupt", "resume"},
          pc : Starting \cup {"none", "choose", "sent", "observe", "recover", "check", "view", "last"},
          turn : Nat, token : Tokens, steer : BOOLEAN]
Processes == [run : Nat, queue : Seq(Turns), results : Seq(Nat)]
Hosts == [inFlight : Seq(Turns), aborting : Nat]
Interrupts == [pc : {"none", "asked", "told"}, asked : [of : Nat, outstanding : BOOLEAN, candidates : SUBSET Turns],
               survivors : SUBSET Turns, client : Nat]
Troubles == {"misread", "forgot", "unstarted", "unadopted", "lost"}
Spent == [turns : Nat, retries : Nat, interrupts : Nat, losses : Nat, failures : Nat]

\* A message that ends a turn or sends one names it; so does a call that is
\* about one.
Typed ==
    /\ sdk \in Processes /\ host \in Hosts /\ accepted \subseteq Turns /\ interrupt \in Interrupts
    /\ reqs \in Seq(Requests) /\ wire \in Seq(Messages) /\ up \in BOOLEAN
    /\ running \in Seq(Turns) /\ sweep \in BOOLEAN /\ resumed \in BOOLEAN
    /\ native \in Sessions /\ probes \subseteq Repairs
    /\ call \in Calls /\ cut \subseteq Turns /\ trouble \subseteq Troubles /\ targets \subseteq Turns
    /\ used \in Spent
    /\ \A i \in DOMAIN reqs : reqs[i].kind = "send" => reqs[i].turn # 0
    /\ \A i \in DOMAIN wire : wire[i].kind = "done" => wire[i].turn # 0
    /\ call.pc \in Starting \cup {"choose"} \/ call.op = "interrupt" => call.turn # 0

\* The messages of w that end a turn.
EndsNamed(w) == \A i \in DOMAIN w : w[i].kind = "done" => w[i].turn # 0

LEMMA ConcatFacts ==
    ASSUME NEW T, NEW s \in Seq(T), NEW t \in Seq(T)
    PROVE  /\ s \o t \in Seq(T) /\ Len(s \o t) = Len(s) + Len(t)
           /\ \A i \in DOMAIN s : i \in DOMAIN (s \o t) /\ (s \o t)[i] = s[i]
           /\ \A i \in DOMAIN t : Len(s) + i \in DOMAIN (s \o t) /\ (s \o t)[Len(s) + i] = t[i]
           /\ \A i \in DOMAIN (s \o t) : i \in DOMAIN s \/ (i > Len(s) /\ i - Len(s) \in DOMAIN t /\ i = Len(s) + (i - Len(s)))
           /\ ToSet(s \o t) = ToSet(s) \cup ToSet(t)
<1> DEFINE r == s \o t
           m == Len(s)
           n == Len(t)
<1>1. /\ r \in Seq(T) /\ Len(r) = m + n /\ m \in Nat /\ n \in Nat
      /\ DOMAIN r = 1..(m + n) /\ DOMAIN s = 1..m /\ DOMAIN t = 1..n
    OBVIOUS
<1>2. \A i \in 1..m : i \in DOMAIN r /\ r[i] = s[i]
    OBVIOUS
<1>3. \A i \in 1..n : m + i \in DOMAIN r /\ r[m + i] = t[i]
    OBVIOUS
<1> HIDE DEF r
<1>4. \A i \in DOMAIN r : i \in 1..m \/ (i > m /\ i - m \in 1..n /\ i = m + (i - m))
    <2> HIDE DEF m, n
    <2> QED
        BY <1>1
<1>5. ToSet(r) = ToSet(s) \cup ToSet(t)
    <2>1. ASSUME NEW i \in DOMAIN r PROVE r[i] \in ToSet(s) \cup ToSet(t)
        <3>1. CASE i \in 1..m
            BY <1>1, <1>2, <3>1 DEF ToSet
        <3>2. CASE i - m \in 1..n /\ i = m + (i - m)
            <4>1. r[i] = t[i - m]
                BY <1>3, <3>2
            <4> QED
                BY <1>1, <3>2, <4>1 DEF ToSet
        <3> QED
            BY <1>4, <2>1, <3>1, <3>2
    <2>2. \A i \in 1..m : s[i] \in ToSet(r)
        BY <1>2 DEF ToSet
    <2>3. \A i \in 1..n : t[i] \in ToSet(r)
        BY <1>3 DEF ToSet
    <2>4. ToSet(s) \subseteq ToSet(r) /\ ToSet(t) \subseteq ToSet(r)
        BY <1>1, <2>2, <2>3, ToSetOf
    <2>5. ToSet(r) \subseteq ToSet(s) \cup ToSet(t)
        BY <1>1, <2>1, ToSetOf
    <2> QED
        BY <2>4, <2>5
<1> QED
    BY <1>1, <1>2, <1>3, <1>4, <1>5 DEF r

\* Dropping the element at r from w leaves v: an increasing choice of the others.
Drops(w, r, v, e) ==
    /\ \A i \in DOMAIN v : e[i] \in DOMAIN w /\ e[i] # r /\ v[i] = w[e[i]]
    /\ \A i, j \in DOMAIN v : e[i] < e[j] <=> i < j
    /\ \A i, j \in DOMAIN v : e[i] = e[j] => i = j
    /\ \A k \in DOMAIN w : k # r => \E i \in DOMAIN v : e[i] = k

LEMMA TailDrops ==
    ASSUME NEW T, NEW w \in Seq(T), w # <<>>
    PROVE  Tail(w) \in Seq(T) /\ \E e : Drops(w, 1, Tail(w), e)
<1> DEFINE v == Tail(w)
           e == [i \in DOMAIN v |-> i + 1]
<1>1. v \in Seq(T) /\ DOMAIN v \subseteq Nat /\ DOMAIN w \subseteq Nat
    BY TailFacts
<1>2. \A i \in DOMAIN v : i + 1 \in DOMAIN w /\ v[i] = w[i + 1] /\ i + 1 # 1
    BY <1>1, TailFacts
<1>3. \A k \in DOMAIN w : k # 1 => k - 1 \in DOMAIN v
    BY TailFacts
<1> HIDE DEF v
<1>4. \A i \in DOMAIN v : e[i] = i + 1
    OBVIOUS
<1>5. \A k \in DOMAIN w : k # 1 => e[k - 1] = k
    BY <1>1, <1>3, <1>4
<1> HIDE DEF e
<1>6. \A i, j \in DOMAIN v : (e[i] < e[j] <=> i < j) /\ (e[i] = e[j] => i = j)
    BY <1>1, <1>4
<1>7. Drops(w, 1, v, e)
    BY <1>2, <1>3, <1>4, <1>5, <1>6 DEF Drops
<1> QED
    BY <1>1, <1>7 DEF v

LEMMA RemoveAtDrops ==
    ASSUME NEW T, NEW w \in Seq(T), NEW r \in DOMAIN w
    PROVE  RemoveAt(w, r) \in Seq(T) /\ \E e : Drops(w, r, RemoveAt(w, r), e)
<1> DEFINE n == Len(w)
           v == RemoveAt(w, r)
           e == [i \in DOMAIN v |-> IF i < r THEN i ELSE i + 1]
<1>1. n \in Nat /\ r \in 1..n /\ DOMAIN w = 1..n
    OBVIOUS
<1>2. v \in Seq(T) /\ Len(v) = n - 1 /\ \A i \in 1..(n - 1) : v[i] = IF i < r THEN w[i] ELSE w[i + 1]
    <2> DEFINE a == SubSeq(w, 1, r - 1)
               b == SubSeq(w, r + 1, n)
    <2>1. a \in Seq(T) /\ Len(a) = r - 1 /\ \A i \in 1..(r - 1) : a[i] = w[i]
        BY <1>1
    <2>2. b \in Seq(T) /\ Len(b) = n - r /\ \A i \in 1..(n - r) : b[i] = w[r + i]
        BY <1>1
    <2>3. v = a \o b
        BY DEF RemoveAt
    <2> HIDE DEF v, a, b, n
    <2>4. v \in Seq(T) /\ Len(v) = n - 1
        <3>1. v \in Seq(T) /\ Len(v) = Len(a) + Len(b)
            BY <2>1, <2>2, <2>3, ConcatFacts
        <3> QED
            BY <1>1, <2>1, <2>2, <3>1
    <2>5. ASSUME NEW i \in 1..(n - 1) PROVE v[i] = IF i < r THEN w[i] ELSE w[i + 1]
        <3>1. CASE i < r
            BY <1>1, <2>1, <2>2, <2>3, <3>1
        <3>2. CASE ~(i < r)
            <4>1. i - (r - 1) \in 1..(n - r) /\ r + (i - (r - 1)) = i + 1
                BY <1>1, <3>2
            <4>2. \A j \in DOMAIN b : v[Len(a) + j] = b[j]
                BY <2>1, <2>2, <2>3, ConcatFacts
            <4>3. v[i] = b[i - (r - 1)]
                <5>1. DOMAIN b = 1..(n - r) /\ Len(a) + (i - (r - 1)) = i
                    BY <1>1, <2>1, <2>2
                <5> QED
                    BY <4>1, <4>2, <5>1
            <4> QED
                BY <2>2, <3>2, <4>1, <4>3
        <3> QED
            BY <3>1, <3>2
    <2> QED
        BY <2>4, <2>5
<1> HIDE DEF v
<1>3. DOMAIN v = 1..(n - 1)
    BY <1>2
<1>4. \A i \in DOMAIN v : e[i] = IF i < r THEN i ELSE i + 1
    OBVIOUS
<1> HIDE DEF e, n
<1>5. \A i \in DOMAIN v : e[i] \in DOMAIN w /\ e[i] # r /\ v[i] = w[e[i]]
    BY <1>1, <1>2, <1>3, <1>4
<1>6. \A i, j \in DOMAIN v : (e[i] < e[j] <=> i < j) /\ (e[i] = e[j] => i = j)
    BY <1>1, <1>3, <1>4
<1>7. \A k \in DOMAIN w : k # r => \E i \in DOMAIN v : e[i] = k
    <2> SUFFICES ASSUME NEW k \in DOMAIN w, k # r PROVE \E i \in DOMAIN v : e[i] = k
        OBVIOUS
    <2>1. CASE k < r
        BY <1>1, <1>3, <1>4, <2>1
    <2>2. CASE k > r
        <3>1. k - 1 \in DOMAIN v /\ ~(k - 1 < r) /\ (k - 1) + 1 = k
            BY <1>1, <1>3, <2>2
        <3> QED
            BY <1>4, <3>1
    <2> QED
        BY <1>1, <2>1, <2>2
<1>8. Drops(w, r, v, e)
    BY <1>5, <1>6, <1>7 DEF Drops
<1> QED
    BY <1>2, <1>8 DEF v

-----------------------------------------------------------------------------
(* What the host emits.                                                    *)
DoneOnly(m) == m \in Seq(Messages) /\ \A i \in DOMAIN m : m[i].kind = "done" /\ m[i].turn # 0

LEMMA FunctionIsSeq ==
    ASSUME NEW T, NEW n \in Nat, NEW f, f = [i \in 1..n |-> f[i]], \A i \in 1..n : f[i] \in T
    PROVE  f \in Seq(T) /\ Len(f) = n /\ DOMAIN f = 1..n
<1>1. f \in [1..n -> T]
    OBVIOUS
<1> QED
    BY <1>1

LEMMA DoneIs ==
    ASSUME NEW turn \in Turns, NEW folded \in BOOLEAN
    PROVE  Done(turn, folded) \in Messages /\ Done(turn, folded).kind = "done" /\ Done(turn, folded).turn = turn
<1>1. turn \in Nat
    BY DEF Turns
<1> DEFINE none == {}
           kind == "done"
<1>2. none \in SUBSET Turns /\ kind \in Asked \cup {"done"}
    OBVIOUS
<1>3. Done(turn, folded) = [kind |-> kind, turn |-> turn, folded |-> folded, set |-> none]
    BY DEF Done
<1> HIDE DEF none, kind
<1>4. Done(turn, folded) \in Messages /\ Done(turn, folded).kind = kind /\ Done(turn, folded).turn = turn
    BY <1>1, <1>2, <1>3 DEF Messages
<1> QED
    BY <1>4 DEF kind

LEMMA ReplyIs ==
    ASSUME NEW kind \in Asked \cup {"sent", "interrupted"}, NEW turn \in Nat, NEW set \in SUBSET Turns
    PROVE  /\ Reply(kind, turn, set) \in Messages /\ Reply(kind, turn, set).kind = kind
           /\ Reply(kind, turn, set).turn = turn /\ Reply(kind, turn, set).set = set
BY DEF Reply, Messages

LEMMA EndsIs ==
    ASSUME NEW h \in Hosts, NEW turn \in Nat
    PROVE  /\ Ends(h, turn) \in Seq(Turns) /\ ToSet(Ends(h, turn)) \subseteq ToSet(h.inFlight)
           /\ h.inFlight # <<>> /\ turn = 0 => Ends(h, turn) = <<h.inFlight[1]>>
           /\ turn # 0 /\ turn \in ToSet(h.inFlight) => Ends(h, turn) = h.inFlight
           /\ h.inFlight = <<>> \/ (turn # 0 /\ turn \notin ToSet(h.inFlight)) => Ends(h, turn) = <<>>
           /\ turn # 0 /\ Ends(h, turn) # <<>> => turn \in ToSet(Ends(h, turn))
           /\ turn = 0 /\ Ends(h, turn) # <<>> => Len(Ends(h, turn)) = 1
<1>1. h.inFlight \in Seq(Turns)
    BY DEF Hosts
<1>2. ToSet(<<>>) = {}
    BY DEF ToSet
<1>3. CASE h.inFlight = <<>>
    BY <1>1, <1>2, <1>3 DEF Ends
<1>4. CASE h.inFlight # <<>> /\ turn = 0
    <2>1. Head(h.inFlight) = h.inFlight[1] /\ h.inFlight[1] \in ToSet(h.inFlight) /\ h.inFlight[1] \in Turns
        BY <1>1, <1>4, ToSetOf
    <2>2. Ends(h, turn) = <<h.inFlight[1]>>
        BY <1>4, <2>1 DEF Ends
    <2>3. ToSet(<<h.inFlight[1]>>) = {h.inFlight[1]}
        BY DEF ToSet
    <2> DEFINE x == h.inFlight[1]
    <2>4. x \in Turns
        BY <2>1
    <2> HIDE DEF x
    <2>5. <<x>> \in Seq(Turns) /\ Len(<<x>>) = 1 /\ <<x>> # <<>>
        BY <2>4
    <2>6. Ends(h, turn) = <<x>> /\ ToSet(<<x>>) = {x} /\ x \in ToSet(h.inFlight)
        BY <2>1, <2>2, <2>3 DEF x
    <2>7. Ends(h, turn) = <<h.inFlight[1]>> /\ Len(Ends(h, turn)) = 1
        BY <2>2, <2>5, <2>6
    <2>8. Ends(h, turn) \in Seq(Turns) /\ ToSet(Ends(h, turn)) \subseteq ToSet(h.inFlight)
        BY <2>5, <2>6
    <2> QED
        BY <1>4, <2>7, <2>8
<1>5. CASE h.inFlight # <<>> /\ turn # 0
    BY <1>1, <1>2, <1>5 DEF Ends
<1> QED
    BY <1>3, <1>4, <1>5

\* The events of a result: one for each turn it ends.
LEMMA ResultEventsAre ==
    ASSUME NEW h \in Hosts, NEW turn \in Nat
    PROVE  /\ DoneOnly(ResultEvents(h, turn))
           /\ {ResultEvents(h, turn)[i].turn : i \in DOMAIN ResultEvents(h, turn)} = ToSet(Ends(h, turn))
<1> DEFINE ends == Ends(h, turn)
           n == Len(ends)
           p == IF turn = 0 THEN 1 ELSE CHOOSE i \in DOMAIN ends : ends[i] = turn
           a == [i \in 1 .. p - 1 |-> Done(ends[i], FALSE)]
           b == [i \in 1 .. n - p |-> Done(ends[p + i], TRUE)]
           c == <<Done(ends[p], FALSE)>>
           r == ResultEvents(h, turn)
<1>1. ends \in Seq(Turns) /\ n \in Nat /\ DOMAIN ends = 1..n
    BY EndsIs
<1>2. CASE ends = <<>>
    <2>1. r = <<>>
        BY <1>2 DEF ResultEvents
    <2>2. DOMAIN r = {} /\ r \in Seq(Messages) /\ ToSet(ends) = {}
        BY <1>2, <2>1 DEF ToSet
    <2> HIDE DEF r, ends
    <2> QED
        BY <2>2 DEF DoneOnly, ends, r
<1>3. CASE ends # <<>>
    <2>1. p \in 1..n
        <3>1. CASE turn = 0
            BY <1>1, <1>3, <3>1
        <3>2. CASE turn # 0
            <4>1. turn \in ToSet(ends)
                BY <1>3, <3>2, EndsIs
            <4>2. \E i \in DOMAIN ends : ends[i] = turn
                BY <1>1, <4>1, ToSetOf
            <4>3. p = CHOOSE i \in DOMAIN ends : ends[i] = turn
                BY <3>2
            <4> HIDE DEF ends, p
            <4> QED
                BY <1>1, <4>2, <4>3
        <3> QED
            BY <3>1, <3>2
    <2>2. r = (a \o b) \o c
        BY <1>3 DEF ResultEvents
    <2> HIDE DEF p, ends, n, r
    <2>3. \A i \in 1..n : ends[i] \in Turns
        BY <1>1
    <2>4. \A i \in 1..n, f \in BOOLEAN : /\ Done(ends[i], f) \in Messages /\ Done(ends[i], f).kind = "done"
                                         /\ Done(ends[i], f).turn = ends[i] /\ ends[i] # 0
        BY <2>3, DoneIs DEF Turns
    <2>5. /\ a \in Seq(Messages) /\ DOMAIN a = 1..(p - 1)
          /\ \A i \in 1..(p - 1) : i \in 1..n /\ a[i] = Done(ends[i], FALSE)
        <3>1. \A i \in 1..(p - 1) : i \in 1..n
            BY <1>1, <2>1
        <3>2. p - 1 \in Nat
            BY <1>1, <2>1
        <3>3. \A i \in 1..(p - 1) : a[i] = Done(ends[i], FALSE) /\ Done(ends[i], FALSE) \in Messages
            BY <2>4, <3>1
        <3>4. a = [i \in 1..(p - 1) |-> a[i]] /\ \A i \in 1..(p - 1) : a[i] \in Messages
            BY <3>3
        <3> HIDE DEF a, p
        <3>5. a \in Seq(Messages) /\ DOMAIN a = 1..(p - 1)
            BY <3>2, <3>4, FunctionIsSeq
        <3> QED
            BY <3>1, <3>3, <3>5
    <2>6. /\ b \in Seq(Messages) /\ DOMAIN b = 1..(n - p)
          /\ \A i \in 1..(n - p) : p + i \in 1..n /\ b[i] = Done(ends[p + i], TRUE)
        <3>1. \A i \in 1..(n - p) : p + i \in 1..n
            BY <1>1, <2>1
        <3>2. n - p \in Nat
            BY <1>1, <2>1
        <3>3. \A i \in 1..(n - p) : b[i] = Done(ends[p + i], TRUE) /\ Done(ends[p + i], TRUE) \in Messages
            BY <2>4, <3>1
        <3>4. b = [i \in 1..(n - p) |-> b[i]] /\ \A i \in 1..(n - p) : b[i] \in Messages
            BY <3>3
        <3> HIDE DEF b, p
        <3>5. b \in Seq(Messages) /\ DOMAIN b = 1..(n - p)
            BY <3>2, <3>4, FunctionIsSeq
        <3> QED
            BY <3>1, <3>3, <3>5
    <2>7. c \in Seq(Messages) /\ DOMAIN c = {1} /\ c[1] = Done(ends[p], FALSE)
        <3> DEFINE x == Done(ends[p], FALSE)
        <3>1. x \in Messages
            BY <2>1, <2>4
        <3>2. c = <<x>>
            OBVIOUS
        <3> HIDE DEF x, c
        <3>3. c \in Seq(Messages) /\ DOMAIN c = {1} /\ c[1] = x
            BY <3>1, <3>2
        <3> QED
            BY <3>3 DEF x
    <2> HIDE DEF a, b, c
    <2>8. /\ a \o b \in Seq(Messages) /\ ToSet(a \o b) = ToSet(a) \cup ToSet(b)
          /\ r \in Seq(Messages) /\ ToSet(r) = ToSet(a) \cup ToSet(b) \cup ToSet(c)
        <3>1. a \o b \in Seq(Messages) /\ ToSet(a \o b) = ToSet(a) \cup ToSet(b)
            BY <2>5, <2>6, ConcatFacts
        <3> DEFINE d == a \o b
        <3>2. d \in Seq(Messages) /\ r = d \o c
            BY <2>2, <3>1
        <3> HIDE DEF d
        <3>3. r \in Seq(Messages) /\ ToSet(r) = ToSet(d) \cup ToSet(c)
            BY <2>7, <3>2, ConcatFacts
        <3> QED
            BY <3>1, <3>3 DEF d
    <2>9. ASSUME NEW i \in DOMAIN r
          PROVE  r[i].kind = "done" /\ r[i].turn # 0 /\ r[i].turn \in ToSet(ends)
        <3>1. r[i] \in ToSet(a) \cup ToSet(b) \cup ToSet(c)
            BY <2>8, ToSetOf
        <3>2. \E k \in 1..n, f \in BOOLEAN : r[i] = Done(ends[k], f)
            <4>1. CASE r[i] \in ToSet(a)
                BY <2>5, <4>1 DEF ToSet
            <4>2. CASE r[i] \in ToSet(b)
                BY <2>6, <4>2 DEF ToSet
            <4>3. CASE r[i] \in ToSet(c)
                BY <2>1, <2>7, <4>3 DEF ToSet
            <4> QED
                BY <3>1, <4>1, <4>2, <4>3
        <3> QED
            BY <1>1, <2>4, <3>2, ToSetOf
    <2>10. ASSUME NEW k \in 1..n PROVE \E i \in DOMAIN r : r[i].turn = ends[k]
        <3>1. \E m \in ToSet(r) : m.turn = ends[k]
            <4>1. CASE k = p
                <5>1. c[1] \in ToSet(c) /\ c[1].turn = ends[k]
                    BY <2>4, <2>7, <4>1, ToSetOf
                <5> QED
                    BY <2>8, <5>1
            <4>2. CASE k \in 1..(p - 1)
                <5>1. a[k] \in ToSet(a) /\ a[k].turn = ends[k]
                    BY <2>4, <2>5, <4>2, ToSetOf
                <5> QED
                    BY <2>8, <5>1
            <4>3. CASE k > p
                <5>1. k - p \in 1..(n - p) /\ p + (k - p) = k
                    BY <1>1, <2>1, <4>3
                <5>2. b[k - p] \in ToSet(b) /\ b[k - p].turn = ends[k]
                    BY <2>4, <2>6, <5>1, ToSetOf
                <5> QED
                    BY <2>8, <5>2
            <4> QED
                BY <1>1, <2>1, <4>1, <4>2, <4>3
        <3> QED
            BY <2>8, <3>1, ToSetOf
    <2>11. {r[i].turn : i \in DOMAIN r} = ToSet(ends)
        <3>1. \A x \in ToSet(ends) : \E k \in 1..n : ends[k] = x
            BY <1>1, ToSetOf
        <3> QED
            BY <2>9, <2>10, <3>1
    <2> QED
        BY <2>8, <2>9, <2>11 DEF DoneOnly, ends, r
<1> QED
    BY <1>2, <1>3

LEMMA FoldedEventsAre ==
    ASSUME NEW h \in Hosts, NEW folded
    PROVE  /\ DoneOnly(FoldedEvents(h, folded))
           /\ {FoldedEvents(h, folded)[i].turn : i \in DOMAIN FoldedEvents(h, folded)} = ToSet(h.inFlight) \cap folded
<1> DEFINE gone == Only(h.inFlight, folded)
           r == FoldedEvents(h, folded)
<1>1. h.inFlight \in Seq(Turns)
    BY DEF Hosts
<1>2. gone \in Seq(Turns) /\ ToSet(gone) = ToSet(h.inFlight) \cap folded
    BY <1>1, OnlyFacts
<1>3. r = [i \in DOMAIN gone |-> Done(gone[i], TRUE)]
    BY DEF FoldedEvents
<1> HIDE DEF gone, r
<1>4. DOMAIN gone = 1..Len(gone) /\ Len(gone) \in Nat
    BY <1>2
<1>5. \A i \in DOMAIN gone : Done(gone[i], TRUE) \in Messages /\ Done(gone[i], TRUE).kind = "done"
                             /\ Done(gone[i], TRUE).turn = gone[i] /\ gone[i] # 0
    <2>1. \A i \in DOMAIN gone : gone[i] \in Turns /\ gone[i] # 0
        BY <1>2 DEF Turns
    <2> QED
        BY <2>1, DoneIs
<1>6. r \in Seq(Messages) /\ DOMAIN r = DOMAIN gone
    <2>1. r = [i \in 1..Len(gone) |-> r[i]] /\ \A i \in 1..Len(gone) : r[i] \in Messages
        BY <1>3, <1>4, <1>5
    <2> QED
        BY <1>4, <2>1, FunctionIsSeq
<1>7. \A i \in DOMAIN r : r[i].kind = "done" /\ r[i].turn # 0 /\ r[i].turn = gone[i]
    BY <1>3, <1>5
<1>8. {r[i].turn : i \in DOMAIN r} = ToSet(gone)
    BY <1>6, <1>7 DEF ToSet
<1> QED
    BY <1>2, <1>6, <1>7, <1>8 DEF DoneOnly, r

LEMMA HostAfter ==
    ASSUME NEW h \in Hosts, NEW S
    PROVE  /\ [h EXCEPT !.inFlight = Only(h.inFlight, S)] \in Hosts
           /\ [h EXCEPT !.inFlight = Only(h.inFlight, S)].inFlight = Only(h.inFlight, S)
           /\ [h EXCEPT !.inFlight = Only(h.inFlight, S)].aborting = h.aborting
<1>1. Only(h.inFlight, S) \in Seq(Turns)
    BY OnlyFacts DEF Hosts
<1> QED
    BY <1>1 DEF Hosts

-----------------------------------------------------------------------------
(* Settle completes one turn after the other.                              *)
Ending(s, gone, n, f) == f = [i \in 0..n |-> IF i = 0 THEN s ELSE Completed(f[i - 1], gone[i])]

LEMMA EndingExists ==
    ASSUME NEW s, NEW gone, NEW n \in Nat
    PROVE  \E f : Ending(s, gone, n, f)
<1> DEFINE Bad == {m \in Nat : ~\E f : Ending(s, gone, m, f)}
<1> SUFFICES ASSUME Bad # {} PROVE FALSE
    OBVIOUS
<1>1. PICK m \in Bad : \A k \in Bad : m <= k
    BY Smallest
<1>2. Ending(s, gone, 0, [i \in 0..0 |-> s])
    BY DEF Ending
<1>3. m # 0 /\ m \in Nat /\ m - 1 \in Nat /\ m - 1 \notin Bad
    BY <1>1, <1>2
<1>4. PICK f : Ending(s, gone, m - 1, f)
    BY <1>3
<1> DEFINE last == Completed(f[m - 1], gone[m])
           g == [i \in 0..m |-> IF i = m THEN last ELSE f[i]]
<1>5. \A i \in 0..(m - 1) : f[i] = IF i = 0 THEN s ELSE Completed(f[i - 1], gone[i])
    BY <1>4 DEF Ending
<1>6. \A i \in 0..m : g[i] = IF i = 0 THEN s ELSE Completed(g[i - 1], gone[i])
    <2> TAKE i \in 0..m
    <2>1. CASE i = m
        BY <1>3, <2>1
    <2>2. CASE i # m
        <3>1. i \in 0..(m - 1) /\ (i # 0 => i - 1 \in 0..(m - 1) /\ i - 1 # m /\ i - 1 \in 0..m)
            BY <1>3, <2>2
        <3> QED
            BY <1>3, <1>5, <2>2, <3>1
    <2> QED
        BY <2>1, <2>2
<1>7. Ending(s, gone, m, g)
    <2> HIDE DEF g
    <2>1. g = [i \in 0..m |-> g[i]]
        BY DEF g
    <2> QED
        BY <1>6, <2>1 DEF Ending
<1> QED
    BY <1>1, <1>7

Kept(s, n) == n.view.status = s.view.status /\ n.view.turn = s.view.turn
Idle(n) == n.view.status = "idle" /\ n.view.turn = 0

LEMMA EndingIs ==
    ASSUME NEW s \in Sessions, s.view.ready, NEW gone \in Seq(Turns), NEW f, Ending(s, gone, Len(gone), f)
    PROVE  /\ Sure(s, f[Len(gone)])
           /\ f[Len(gone)].dead = s.dead \cup ToSet(gone)
           /\ Kept(s, f[Len(gone)]) \/ Idle(f[Len(gone)])
<1> DEFINE Good(n) == /\ Sure(s, f[n])
                      /\ f[n].dead = s.dead \cup {gone[k] : k \in 1..n}
                      /\ Kept(s, f[n]) \/ Idle(f[n])
           Bad == {n \in Nat : n <= Len(gone) /\ ~Good(n)}
<1>0. Len(gone) \in Nat /\ DOMAIN gone = 1..Len(gone)
    OBVIOUS
<1>1. \A i \in 0..Len(gone) : f[i] = IF i = 0 THEN s ELSE Completed(f[i - 1], gone[i])
    BY DEF Ending
<1>2. ASSUME Bad # {} PROVE FALSE
    <2>1. PICK m \in Bad : \A k \in Bad : m <= k
        <3>1. Bad \in SUBSET Nat
            OBVIOUS
        <3> HIDE DEF Bad
        <3> QED
            BY <1>2, <3>1, Smallest
    <2>2. m \in Nat /\ m <= Len(gone) /\ ~Good(m)
        OBVIOUS
    <2>3. Good(0)
        <3>1. f[0] = s
            BY <1>0, <1>1
        <3> QED
            BY <3>1, SureOfItself DEF Kept
    <2>4. m # 0
        BY <2>2, <2>3
    <2> DEFINE p == m - 1
    <2>5. p \in Nat /\ p <= Len(gone) /\ ~(m <= p) /\ p + 1 = m
        BY <1>0, <2>2, <2>4
    <2>6. Good(p)
        BY <2>1, <2>5
    <2>7. f[m] = Completed(f[p], gone[m]) /\ gone[m] \in Turns
        BY <1>0, <1>1, <2>2, <2>4
    <2> HIDE DEF p
    <2>8. f[p] \in Sessions /\ f[p].view.ready /\ Sure(s, f[p])
        BY <2>6 DEF Sure, Onward
    <2>9. /\ Sure(f[p], f[m]) /\ f[m].dead = f[p].dead \cup {gone[m]}
          /\ Kept(f[p], f[m]) \/ Idle(f[m])
        BY <2>7, <2>8, CompletedIs DEF Kept, Idle
    <2>10. Sure(s, f[m])
        BY <2>8, <2>9, SureTwice DEF Sure
    <2>11. Kept(s, f[m]) \/ Idle(f[m])
        BY <2>6, <2>9 DEF Kept, Idle
    <2>12. f[m].dead = s.dead \cup {gone[k] : k \in 1..m}
        <3>1. 1..m = 1..p \cup {m}
            BY <2>2, <2>5
        <3>2. {gone[k] : k \in 1..m} = {gone[k] : k \in 1..p} \cup {gone[m]}
            BY <3>1
        <3> QED
            BY <2>6, <2>9, <3>2
    <2> QED
        BY <2>2, <2>10, <2>11, <2>12
<1>3. Good(Len(gone))
    BY <1>0, <1>2
<1> QED
    BY <1>0, <1>3 DEF ToSet

LEMMA SettleIs ==
    ASSUME native \in Sessions, native.view.ready, NEW left \in Seq(Turns), NEW gone \in Seq(Turns)
    PROVE  /\ Sure(native, Settle(left, gone))
           /\ Settle(left, gone).dead = native.dead \cup ToSet(gone)
           /\ gone = <<>> => Settle(left, gone) = native
           /\ gone # <<>> =>
                IF left = <<>> THEN Idle(Settle(left, gone))
                ELSE IF left[1] \in Settle(left, gone).dead THEN Kept(native, Settle(left, gone)) \/ Idle(Settle(left, gone))
                ELSE Settle(left, gone).view.status = "active" /\ Settle(left, gone).view.turn = left[1]
<1>1. CASE gone = <<>>
    <2>1. Settle(left, gone) = native /\ ToSet(gone) = {}
        BY <1>1 DEF Settle, ToSet
    <2> QED
        BY <1>1, <2>1, SureOfItself
<1>2. CASE gone # <<>>
    <2> DEFINE F == CHOOSE f : Ending(native, gone, Len(gone), f)
               n == F[Len(gone)]
    <2>1. Ending(native, gone, Len(gone), F)
        BY EndingExists
    <2>2. Settle(left, gone) = IF left # <<>> THEN Executing(n, Head(left)) ELSE StatusChanged(n, "idle")
        BY <1>2 DEF Settle, Ending
    <2> HIDE DEF F
    <2>3. Sure(native, n) /\ n.dead = native.dead \cup ToSet(gone) /\ (Kept(native, n) \/ Idle(n))
        BY <2>1, EndingIs
    <2> HIDE DEF n
    <2>4. n \in Sessions /\ n.view.ready
        BY <2>3 DEF Sure, Onward
    <2>5. CASE left = <<>>
        <3> DEFINE m == StatusChanged(n, "idle")
        <3>1. Sure(n, m) /\ m.dead = n.dead /\ Idle(m)
            BY <2>4, IdledIs DEF Idle
        <3>2. Settle(left, gone) = m
            BY <2>2, <2>5
        <3> HIDE DEF m
        <3>3. Sure(native, m)
            BY <2>3, <2>4, <3>1, SureTwice DEF Sure
        <3> QED
            BY <1>2, <2>3, <2>5, <3>1, <3>2, <3>3
    <2>6. CASE left # <<>>
        <3> DEFINE t == left[1]
                   m == Executing(n, t)
        <3>1. t \in Turns /\ Head(left) = t
            BY <2>6
        <3>2. /\ Sure(n, m) /\ m.dead = n.dead
              /\ t \in n.dead => m = n
              /\ t \notin n.dead => m.view.status = "active" /\ m.view.turn = t
            BY <2>4, <3>1, ExecutingIs
        <3>3. Settle(left, gone) = m
            BY <2>2, <2>6, <3>1
        <3> HIDE DEF m, t
        <3>4. Sure(native, m)
            BY <2>3, <2>4, <3>2, SureTwice DEF Sure
        <3>5. IF t \in m.dead THEN Kept(native, m) \/ Idle(m) ELSE m.view.status = "active" /\ m.view.turn = t
            BY <2>3, <3>2
        <3> QED
            BY <1>2, <2>3, <2>6, <3>2, <3>3, <3>4, <3>5 DEF t
    <2> QED
        BY <2>5, <2>6
<1> QED
    BY <1>1, <1>2

-----------------------------------------------------------------------------
(* Requests and replies: what a call or the sweep waits for is, once, on its *)
(* way to the host, in the hands of the host, or on its way back.          *)
Answer(k) == IF k = "send" THEN "sent" ELSE IF k = "interrupt" THEN "interrupted" ELSE k

Awaited(c, s) ==
    {k \in Asked \cup {"sent", "interrupted"} :
        \/ k = "sent" /\ c.pc = "accept"
        \/ k = "interrupted" /\ c.op = "interrupt" /\ c.pc = "sent"
        \/ k = "held" /\ c.pc = "held"
        \/ k = "recovered" /\ c.pc = "recover"
        \/ k = "checked" /\ c.pc = "check"
        \/ k = "status" /\ s}

InHand == IF interrupt.pc # "none" /\ interrupt.client = native.view.gen /\ up THEN {"interrupted"} ELSE {}

\* Requests q, messages w, what the host has in hand, and what is awaited.
Orderly(q, w, hand, waits) ==
    /\ \A i \in DOMAIN q : Answer(q[i].kind) \in waits \ hand
    /\ \A i \in DOMAIN w : w[i].kind = "done" \/ w[i].kind \in waits \ hand
    /\ hand \subseteq waits
    /\ \A i, j \in DOMAIN q : Answer(q[i].kind) = Answer(q[j].kind) => i = j
    /\ \A i, j \in DOMAIN w : w[i].kind = w[j].kind /\ w[i].kind # "done" => i = j
    /\ \A i \in DOMAIN q, j \in DOMAIN w : Answer(q[i].kind) # w[j].kind

LEMMA OrderlyMore ==
    ASSUME NEW q, NEW w, NEW hand, NEW waits, NEW more, Orderly(q, w, hand, waits), waits \subseteq more
    PROVE  Orderly(q, w, hand, more)
BY DEF Orderly

LEMMA OrderlyDropped ==
    ASSUME NEW q, NEW w, NEW hand, NEW waits, NEW r, NEW v, NEW e, Drops(w, r, v, e), Orderly(q, w, hand, waits)
    PROVE  Orderly(q, v, hand, waits)
<1>1. \A i \in DOMAIN v : e[i] \in DOMAIN w /\ v[i] = w[e[i]]
    BY DEF Drops
<1>2. \A i, j \in DOMAIN v : e[i] = e[j] => i = j
    BY DEF Drops
<1> QED
    BY <1>1, <1>2 DEF Orderly

\* The oldest message is the answer to k, which is not awaited any more.
LEMMA OrderlyAnswered ==
    ASSUME NEW q, NEW w \in Seq(Messages), NEW hand, NEW waits, NEW more, NEW k, k # "done",
           w # <<>>, w[1].kind = k, Orderly(q, w, hand, waits), waits \ {k} \subseteq more
    PROVE  Orderly(q, Tail(w), hand, more)
<1> DEFINE v == Tail(w)
<1>1. PICK e : Drops(w, 1, v, e)
    BY TailDrops
<1> HIDE DEF v
<1>2. \A i \in DOMAIN v : e[i] \in DOMAIN w /\ e[i] # 1 /\ v[i] = w[e[i]]
    BY <1>1 DEF Drops
<1>3. 1 \in DOMAIN w
    BY ToSetOf
<1>4. \A i \in DOMAIN v : v[i].kind # k
    BY <1>2, <1>3 DEF Orderly
<1>5. \A i \in DOMAIN q : Answer(q[i].kind) # k
    BY <1>3 DEF Orderly
<1>6. k \notin hand
    BY <1>3 DEF Orderly
<1>7. Orderly(q, v, hand, waits)
    BY <1>1, OrderlyDropped
<1>8. Orderly(q, v, hand, more)
    BY <1>4, <1>5, <1>6, <1>7 DEF Orderly
<1> QED
    BY <1>8 DEF v

LEMMA OrderlyRequest ==
    ASSUME NEW q \in Seq(Requests), NEW w, NEW hand, NEW waits, NEW r \in Requests, Orderly(q, w, hand, waits),
           Answer(r.kind) \notin waits, NEW more, waits \cup {Answer(r.kind)} \subseteq more, Answer(r.kind) # "done"
    PROVE  Orderly(Append(q, r), w, hand, more)
<1> DEFINE p == Append(q, r)
           n == Len(q)
<1>1. /\ n \in Nat /\ DOMAIN p = 1..(n + 1) /\ DOMAIN q = 1..n
      /\ p[n + 1] = r /\ \A i \in 1..n : p[i] = q[i]
    OBVIOUS
<1> HIDE DEF p, n
<1>2. \A i \in DOMAIN p : i = n + 1 \/ i \in DOMAIN q
    BY <1>1
<1>3. \A i \in DOMAIN q : Answer(q[i].kind) # Answer(r.kind)
    BY DEF Orderly
<1>4. \A i \in DOMAIN w : w[i].kind # Answer(r.kind)
    BY DEF Orderly
<1>5. Answer(r.kind) \notin hand
    BY DEF Orderly
<1>6. \A i \in DOMAIN p : Answer(p[i].kind) \in more \ hand
    BY <1>1, <1>2, <1>5 DEF Orderly
<1>7. \A i, j \in DOMAIN p : Answer(p[i].kind) = Answer(p[j].kind) => i = j
    BY <1>1, <1>2, <1>3 DEF Orderly
<1>8. \A i \in DOMAIN p, j \in DOMAIN w : Answer(p[i].kind) # w[j].kind
    BY <1>1, <1>2, <1>4 DEF Orderly
<1>9. Orderly(p, w, hand, more)
    BY <1>6, <1>7, <1>8 DEF Orderly
<1> QED
    BY <1>9 DEF p

LEMMA OrderlyEmits ==
    ASSUME NEW q, NEW w \in Seq(Messages), NEW hand, NEW waits, NEW m, DoneOnly(m), Orderly(q, w, hand, waits),
           \A i \in DOMAIN q : Answer(q[i].kind) # "done"
    PROVE  Orderly(q, w \o m, hand, waits)
<1> DEFINE v == w \o m
<1>1. m \in Seq(Messages) /\ \A i \in DOMAIN m : m[i].kind = "done"
    BY DEF DoneOnly
<1>2. \A i \in DOMAIN v : (i \in DOMAIN w /\ v[i] = w[i]) \/ v[i].kind = "done"
    BY <1>1, ConcatFacts
<1> HIDE DEF v
<1>3. Orderly(q, v, hand, waits)
    BY <1>2 DEF Orderly
<1> QED
    BY <1>3 DEF v

\* A reply k that nothing else is to answer.
LEMMA OrderlyReply ==
    ASSUME NEW q, NEW w \in Seq(Messages), NEW hand, NEW waits, NEW m \in Messages, Orderly(q, w, hand, waits),
           m.kind \in waits \ hand, \A i \in DOMAIN q : Answer(q[i].kind) # m.kind, \A i \in DOMAIN w : w[i].kind # m.kind
    PROVE  Orderly(q, w \o <<m>>, hand, waits)
<1> DEFINE v == w \o <<m>>
           n == Len(w)
<1>1. n \in Nat /\ DOMAIN v = 1..(n + 1) /\ DOMAIN w = 1..n /\ v[n + 1] = m /\ \A i \in 1..n : v[i] = w[i]
    OBVIOUS
<1> HIDE DEF v, n
<1>2. \A i \in DOMAIN v : (i \in DOMAIN w /\ v[i] = w[i]) \/ (i = n + 1 /\ v[i] = m)
    BY <1>1
<1>3. Orderly(q, v, hand, waits)
    BY <1>2 DEF Orderly
<1> QED
    BY <1>3 DEF v

LEMMA OrderlyTaken ==
    ASSUME NEW q \in Seq(Requests), NEW w, NEW hand, NEW waits, q # <<>>, Orderly(q, w, hand, waits)
    PROVE  /\ Orderly(Tail(q), w, hand, waits)
           /\ Orderly(Tail(q), w, hand \cup {Answer(q[1].kind)}, waits)
           /\ Answer(q[1].kind) \in waits \ hand
           /\ \A i \in DOMAIN Tail(q) : Answer(Tail(q)[i].kind) # Answer(q[1].kind)
           /\ \A i \in DOMAIN w : w[i].kind # Answer(q[1].kind)
<1> DEFINE p == Tail(q)
<1>1. PICK e : Drops(q, 1, p, e)
    BY TailDrops
<1> HIDE DEF p
<1>2. \A i \in DOMAIN p : e[i] \in DOMAIN q /\ e[i] # 1 /\ p[i] = q[e[i]]
    BY <1>1 DEF Drops
<1>3. \A i, j \in DOMAIN p : e[i] = e[j] => i = j
    BY <1>1 DEF Drops
<1>4. 1 \in DOMAIN q
    BY ToSetOf
<1>5. Orderly(p, w, hand, waits)
    BY <1>2, <1>3 DEF Orderly
<1>6. \A i \in DOMAIN p : Answer(p[i].kind) # Answer(q[1].kind)
    BY <1>2, <1>4 DEF Orderly
<1>7. \A i \in DOMAIN w : w[i].kind # Answer(q[1].kind)
    BY <1>4 DEF Orderly
<1>8. Answer(q[1].kind) \in waits \ hand
    BY <1>4 DEF Orderly
<1>9. Orderly(p, w, hand \cup {Answer(q[1].kind)}, waits)
    BY <1>5, <1>6, <1>7, <1>8 DEF Orderly
<1> QED
    BY <1>5, <1>6, <1>7, <1>8, <1>9 DEF p

LEMMA OrderlyReleased ==
    ASSUME NEW q, NEW w, NEW waits, NEW k, Orderly(q, w, {k}, waits)
    PROVE  /\ Orderly(q, w, {}, waits) /\ k \in waits
           /\ \A i \in DOMAIN q : Answer(q[i].kind) # k
           /\ k # "done" => \A i \in DOMAIN w : w[i].kind # k
BY DEF Orderly

-----------------------------------------------------------------------------
(* The invariant of control: who waits for what, and what the view may be.  *)
Protocol ==
    /\ Orderly(reqs, wire, InHand, Awaited(call, sweep))
    /\ \A i \in DOMAIN reqs : reqs[i].kind = "send" => reqs[i].turn = call.turn
    /\ \A i \in DOMAIN wire : wire[i].kind = "sent" => wire[i].set \subseteq {call.turn} /\ call.turn \in accepted
    /\ interrupt.client <= native.view.gen

Shape ==
    /\ \/ call.op = "none" /\ call.pc = "none"
       \/ call.op = "send" /\ call.pc \in {"choose", "model", "accept", "held", "last"}
       \/ call.op = "interrupt" /\ call.pc \in {"sent", "observe", "last"}
       \/ call.op = "resume" /\ call.pc \in {"recover", "check", "view", "last"}
    /\ call.pc = "recover" => ~resumed
    /\ ~resumed => running = <<>> /\ ~sweep /\ call.pc \in {"none", "recover"}
    /\ ~up => reqs = <<>> /\ wire = <<>> /\ ~resumed /\ call.op = "none"
    /\ up <=> native.view.ready

\* A repair that reads has seen the view at the revision it began with.
Fresh(ps, s, u) ==
    \A p \in ps : p.pc = "reads" =>
        /\ u
        /\ p.before.gen = s.view.gen /\ p.before.rev <= s.view.rev
        /\ p.before.rev = s.view.rev => p.before = s.view

Viewed ==
    /\ Sound(native)
    /\ native.view.status = "unknown" /\ resumed => call.op = "resume" /\ call.pc \in {"check", "view"}
    /\ Fresh(probes, native, up)

Control == Typed /\ Protocol /\ Shape /\ Viewed

LEMMA FreshAfter ==
    ASSUME NEW ps \in SUBSET Repairs, NEW s \in Sessions, NEW n \in Sessions, NEW u, Sure(s, n), Fresh(ps, s, u)
    PROVE  Fresh(ps, n, u)
<1> SUFFICES ASSUME NEW p \in ps, p.pc = "reads"
             PROVE  /\ u
                    /\ p.before.gen = n.view.gen /\ p.before.rev <= n.view.rev
                    /\ p.before.rev = n.view.rev => p.before = n.view
    BY DEF Fresh
<1>1. p.before.rev \in Nat /\ s.view.rev \in Nat /\ n.view.rev \in Nat
    BY DEF Repairs, Views, Sessions
<1>2. Onward(s, n)
    BY DEF Sure
<1> QED
    BY <1>1, <1>2 DEF Fresh, Onward

\* Steps that change nothing but the process.
LEMMA SdkFoldsControl ==
    ASSUME Control, SdkFolds
    PROVE  Control'
<1>1. sdk.queue \in Seq(Turns) /\ sdk.queue # <<>> /\ sdk' = [sdk EXCEPT !.queue = Tail(sdk.queue)]
    BY DEF Control, Typed, Processes, SdkFolds, Folded
<1>2. Tail(sdk.queue) \in Seq(Turns)
    BY <1>1, TailFacts
<1>3. sdk' \in Processes
    BY <1>1, <1>2 DEF Control, Typed, Processes
<1> QED
    BY <1>3 DEF SdkFolds, viewVars, historyVars, Control, Typed, Protocol, Shape, Viewed, InHand

LEMMA SdkSucceedsControl ==
    ASSUME Control, SdkSucceeds
    PROVE  Control'
<1>1. sdk.results \in Seq(Nat) /\ sdk.run \in Nat /\ sdk' = [run |-> 0, queue |-> <<>>, results |-> Append(sdk.results, sdk.run)]
    BY DEF Control, Typed, Processes, SdkSucceeds, Succeeded
<1>2. Append(sdk.results, sdk.run) \in Seq(Nat) /\ <<>> \in Seq(Turns)
    BY <1>1
<1>3. sdk' \in Processes
    BY <1>1, <1>2 DEF Processes
<1> QED
    BY <1>3 DEF SdkSucceeds, viewVars, historyVars, Control, Typed, Protocol, Shape, Viewed, InHand

LEMMA AbortedIs ==
    ASSUME sdk \in Processes
    PROVE  /\ Aborted(sdk) \in Processes
           /\ sdk.run = 0 => Aborted(sdk) = sdk
           /\ sdk.run # 0 =>
                /\ Aborted(sdk).results = Append(sdk.results, 0)
                /\ sdk.queue = <<>> => Aborted(sdk).run = 0 /\ Aborted(sdk).queue = <<>>
                /\ sdk.queue # <<>> => Aborted(sdk).run = sdk.queue[1] /\ Aborted(sdk).queue = Tail(sdk.queue)
<1>1. sdk.queue \in Seq(Turns) /\ sdk.results \in Seq(Nat)
    BY DEF Processes
<1>2. CASE sdk.run = 0
    BY <1>2 DEF Aborted
<1>3. CASE sdk.run # 0
    <2> DEFINE r == IF sdk.queue = <<>> THEN 0 ELSE Head(sdk.queue)
               q == IF sdk.queue = <<>> THEN <<>> ELSE Tail(sdk.queue)
               s == Append(sdk.results, 0)
    <2>1. q \in Seq(Turns)
        BY <1>1, TailFacts
    <2>2. r \in Nat /\ (sdk.queue # <<>> => r = sdk.queue[1])
        BY <1>1, ToSetOf DEF Turns
    <2>3. s \in Seq(Nat)
        BY <1>1
    <2>4. Aborted(sdk) = [run |-> r, queue |-> q, results |-> s]
        BY <1>3 DEF Aborted
    <2>5. Aborted(sdk) \in Processes
        <3> HIDE DEF r, q, s
        <3> QED
            BY <2>1, <2>2, <2>3, <2>4 DEF Processes
    <2> QED
        BY <1>3, <2>2, <2>4, <2>5
<1> QED
    BY <1>2, <1>3

LEMMA SdkAbortsControl ==
    ASSUME Control, SdkAborts
    PROVE  Control'
<1>1. Typed
    BY DEF Control
<1>2. sdk' \in Processes
    BY <1>1, AbortedIs DEF Typed, SdkAborts
<1>3. Queued(sdk) \in SUBSET Turns
    BY <1>1, ToSetOf DEF Queued, Typed, Processes
<1>4. interrupt' \in Interrupts /\ interrupt'.pc = "told" /\ interrupt'.client = interrupt.client /\ interrupt.pc = "asked"
    BY <1>1, <1>3 DEF Typed, SdkAborts, Interrupts
<1>5. InHand' = InHand
    BY <1>4 DEF InHand, SdkAborts, viewVars
<1> QED
    BY <1>2, <1>4, <1>5 DEF SdkAborts, viewVars, historyVars, Control, Typed, Protocol, Shape, Viewed

\* What is emitted behind the messages: ends of turns, and perhaps one reply.
LEMMA EmitDone ==
    ASSUME Typed, Orderly(reqs, wire, InHand, Awaited(call, sweep)), NEW m, DoneOnly(m), Emit(m)
    PROVE  /\ wire' \in Seq(Messages) /\ EndsNamed(wire')
           /\ Orderly(reqs, wire', InHand, Awaited(call, sweep))
           /\ \A i \in DOMAIN wire' : wire'[i].kind = "sent" => i \in DOMAIN wire /\ wire'[i] = wire[i]
           /\ ~up => wire' = wire
<1>1. wire \in Seq(Messages) /\ m \in Seq(Messages) /\ EndsNamed(wire)
    BY DEF Typed, DoneOnly, EndsNamed
<1>2. \A i \in DOMAIN reqs : Answer(reqs[i].kind) # "done"
    BY DEF Orderly, Awaited, Asked
<1>3. CASE ~up
    BY <1>1, <1>3 DEF Emit
<1>4. CASE up
    <2>1. wire' = wire \o m
        BY <1>4 DEF Emit
    <2>2. Orderly(reqs, wire \o m, InHand, Awaited(call, sweep))
        BY <1>1, <1>2, OrderlyEmits
    <2>3. wire \o m \in Seq(Messages)
        BY <1>1, ConcatFacts
    <2>4. \A i \in DOMAIN (wire \o m) : \/ i \in DOMAIN wire /\ (wire \o m)[i] = wire[i]
                                        \/ (wire \o m)[i].kind = "done" /\ (wire \o m)[i].turn # 0
        BY <1>1, ConcatFacts DEF DoneOnly
    <2> QED
        BY <1>1, <1>4, <2>1, <2>2, <2>3, <2>4 DEF EndsNamed
<1> QED
    BY <1>3, <1>4

LEMMA HostReadsResultControl ==
    ASSUME Control, HostReadsResult
    PROVE  Control'
<1> DEFINE t == Head(sdk.results)
           m == ResultEvents(host, t)
<1>1. Typed
    BY DEF Control
<1>2. sdk.results \in Seq(Nat) /\ sdk.results # <<>> /\ t \in Nat
    BY <1>1 DEF HostReadsResult, Typed, Processes
<1>3. Tail(sdk.results) \in Seq(Nat)
    BY <1>2, TailFacts
<1>4. sdk' \in Processes
    BY <1>1, <1>3 DEF HostReadsResult, Typed, Processes
<1>5. host \in Hosts /\ host' = AfterResult(host, t)
    BY <1>1 DEF HostReadsResult, Typed
<1>6. host' \in Hosts
    BY <1>5, HostAfter DEF AfterResult
<1>7. DoneOnly(m)
    BY <1>2, <1>5, ResultEventsAre
<1>8. Emit(m)
    BY DEF HostReadsResult
<1> HIDE DEF m, t
<1>9. /\ wire' \in Seq(Messages) /\ EndsNamed(wire')
      /\ Orderly(reqs, wire', InHand, Awaited(call, sweep))
      /\ \A i \in DOMAIN wire' : wire'[i].kind = "sent" => i \in DOMAIN wire /\ wire'[i] = wire[i]
      /\ ~up => wire' = wire
    BY <1>1, <1>7, <1>8, EmitDone DEF Control, Protocol
<1>10. UNCHANGED <<accepted, interrupt, reqs, up, running, sweep, resumed, native, probes, call, cut, trouble, targets, used>>
    BY DEF HostReadsResult, viewVars, historyVars
<1>11. InHand' = InHand
    BY <1>10 DEF InHand
<1>12. Typed'
    BY <1>1, <1>4, <1>6, <1>9, <1>10 DEF Typed, EndsNamed
<1>13. Protocol'
    BY <1>9, <1>10, <1>11 DEF Control, Protocol
<1>14. Shape' /\ Viewed'
    BY <1>9, <1>10 DEF Control, Shape, Viewed
<1> QED
    BY <1>12, <1>13, <1>14 DEF Control

LEMMA NoInterruptIs ==
    NoInterrupt \in Interrupts /\ NoInterrupt.pc = "none" /\ NoInterrupt.client = 0
<1> DEFINE a == [of |-> 0, outstanding |-> FALSE, candidates |-> {}]
<1>1. Interrupting(Session) = a
    <2>1. Session.inFlight = <<>> /\ Session.aborting = 0
        BY DEF Session
    <2>2. ToSet(<<>>) = {}
        BY DEF ToSet
    <2>3. AbortInFlight(Session) = FALSE
        BY <2>1 DEF AbortInFlight
    <2> QED
        BY <2>1, <2>2, <2>3 DEF Interrupting
<1>2. a \in [of : Nat, outstanding : BOOLEAN, candidates : SUBSET Turns]
    OBVIOUS
<1> HIDE DEF a
<1> QED
    BY <1>1, <1>2 DEF NoInterrupt, Interrupts

LEMMA HostReadsReceiptControl ==
    ASSUME Control, HostReadsReceipt
    PROVE  Control'
<1> DEFINE folded == FoldedAcross(host, interrupt.asked, interrupt.survivors)
           d == FoldedEvents(host, folded)
           answers == interrupt.client = native.view.gen
           m == Reply("interrupted", 0, {})
<1>1. Typed
    BY DEF Control
<1>2. host \in Hosts /\ host' = AfterFolded(host, folded)
    BY <1>1 DEF HostReadsReceipt, Typed
<1>3. host' \in Hosts
    BY <1>2, HostAfter DEF AfterFolded
<1>4. DoneOnly(d)
    BY <1>2, FoldedEventsAre
<1>5. m \in Messages /\ m.kind = "interrupted"
    BY ReplyIs
<1>6. Emit(d \o IF answers THEN <<m>> ELSE <<>>)
    BY DEF HostReadsReceipt
<1>7. interrupt' = NoInterrupt /\ interrupt'.client <= native.view.gen /\ interrupt' \in Interrupts /\ InHand' = {} /\ interrupt.pc = "told"
    BY <1>1, NoInterruptIs DEF HostReadsReceipt, InHand, Typed, Sessions, Views
<1>8. UNCHANGED <<sdk, accepted, reqs, up, running, sweep, resumed, native, probes, call, cut, trouble, targets, used>>
    BY DEF HostReadsReceipt, viewVars, historyVars
<1>9. wire \in Seq(Messages) /\ EndsNamed(wire) /\ d \in Seq(Messages)
    BY <1>1, <1>4 DEF Typed, EndsNamed, DoneOnly
<1> DEFINE w == wire \o d
           waits == Awaited(call, sweep)
<1> HIDE DEF d, m, answers, folded
<1>10. ASSUME ~up PROVE wire' = wire
    BY <1>6, <1>10 DEF Emit
<1>11. ASSUME up
       PROVE  /\ w \in Seq(Messages) /\ EndsNamed(w) /\ Orderly(reqs, w, InHand, waits)
              /\ \A i \in DOMAIN w : w[i].kind = "sent" => i \in DOMAIN wire /\ w[i] = wire[i]
              /\ wire' = IF answers THEN w \o <<m>> ELSE w
    <2>1. \A i \in DOMAIN reqs : Answer(reqs[i].kind) # "done"
        BY DEF Control, Protocol, Orderly, Awaited, Asked
    <2>2. Orderly(reqs, w, InHand, waits)
        BY <1>4, <1>9, <2>1, OrderlyEmits DEF Control, Protocol
    <2>3. w \in Seq(Messages)
        BY <1>9, ConcatFacts
    <2>4. \A i \in DOMAIN w : \/ i \in DOMAIN wire /\ w[i] = wire[i]
                              \/ w[i].kind = "done" /\ w[i].turn # 0
        BY <1>4, <1>9, ConcatFacts DEF DoneOnly
    <2>5. CASE ~answers
        <3>1. d \o <<>> = d
            BY <1>9
        <3>2. wire' = w
            BY <1>6, <1>11, <2>5, <3>1 DEF Emit
        <3> HIDE DEF w
        <3> QED
            BY <1>9, <2>2, <2>3, <2>4, <2>5, <3>2 DEF EndsNamed
    <2>6. CASE answers
        <3> DEFINE r == <<m>>
        <3>1. wire' = wire \o (d \o r)
            BY <1>6, <1>11, <2>6 DEF Emit
        <3>2. r \in Seq(Messages)
            BY <1>5
        <3> HIDE DEF r
        <3>3. wire' = w \o r
            BY <1>9, <3>1, <3>2, ConcatAssociative
        <3> HIDE DEF w
        <3> QED
            BY <1>9, <2>2, <2>3, <2>4, <2>6, <3>3 DEF EndsNamed, r
    <2> QED
        BY <2>5, <2>6
<1> HIDE DEF w, waits
<1>12. /\ wire' \in Seq(Messages) /\ EndsNamed(wire') /\ Orderly(reqs, wire', {}, waits)
       /\ \A i \in DOMAIN wire' : wire'[i].kind = "sent" => i \in DOMAIN wire /\ wire'[i] = wire[i]
    <2>1. CASE ~up
        <3>1. Orderly(reqs, wire, {}, waits)
            BY <2>1 DEF Control, Protocol, InHand, waits
        <3> QED
            BY <1>9, <1>10, <2>1, <3>1
    <2>2. CASE up /\ ~answers
        <3>1. InHand = {}
            BY <2>2 DEF InHand, answers
        <3> QED
            BY <1>11, <2>2, <3>1
    <2>3. CASE up /\ answers
        <3>1. InHand = {"interrupted"}
            BY <1>7, <2>3 DEF InHand, answers
        <3>2. /\ Orderly(reqs, w, {}, waits) /\ "interrupted" \in waits
              /\ \A i \in DOMAIN reqs : Answer(reqs[i].kind) # "interrupted"
              /\ \A i \in DOMAIN w : w[i].kind # "interrupted"
            <4>1. Orderly(reqs, w, {"interrupted"}, waits)
                BY <1>11, <2>3, <3>1
            <4> QED
                BY <4>1, OrderlyReleased
        <3>3. Orderly(reqs, w \o <<m>>, {}, waits)
            BY <1>5, <1>11, <2>3, <3>2, OrderlyReply
        <3>4. wire' = w \o <<m>> /\ w \in Seq(Messages)
            BY <1>11, <2>3
        <3>5. /\ w \o <<m>> \in Seq(Messages)
              /\ \A i \in DOMAIN (w \o <<m>>) : (i \in DOMAIN w /\ (w \o <<m>>)[i] = w[i]) \/ (w \o <<m>>)[i] = m
            BY <1>5, <3>4
        <3> QED
            BY <1>5, <1>11, <2>3, <3>3, <3>4, <3>5 DEF EndsNamed
    <2> QED
        BY <2>1, <2>2, <2>3
<1>13. Typed'
    BY <1>1, <1>3, <1>7, <1>8, <1>12 DEF Typed, EndsNamed
<1>14. Protocol'
    BY <1>7, <1>8, <1>12 DEF Control, Protocol, waits
<1>15. Shape' /\ Viewed'
    BY <1>8, <1>10 DEF Control, Shape, Viewed
<1> QED
    BY <1>13, <1>14, <1>15 DEF Control

LEMMA ServedReply ==
    ASSUME Control, up, reqs # <<>>, reqs' = Tail(reqs), NEW m \in Messages, m.kind = Answer(Head(reqs).kind), Emit(<<m>>)
    PROVE  /\ reqs' \in Seq(Requests) /\ \A i \in DOMAIN reqs' : i + 1 \in DOMAIN reqs /\ reqs'[i] = reqs[i + 1]
           /\ wire' = wire \o <<m>> /\ wire' \in Seq(Messages) /\ EndsNamed(wire')
           /\ \A i \in DOMAIN wire' : (i \in DOMAIN wire /\ wire'[i] = wire[i]) \/ (i = Len(wire) + 1 /\ wire'[i] = m)
           /\ Orderly(reqs', wire', InHand, Awaited(call, sweep))
           /\ m.kind \in Awaited(call, sweep) \ InHand
<1>1. /\ reqs \in Seq(Requests) /\ wire \in Seq(Messages) /\ EndsNamed(wire)
      /\ Orderly(reqs, wire, InHand, Awaited(call, sweep))
    BY DEF Control, Typed, EndsNamed, Protocol
<1>2. Head(reqs) = reqs[1]
    BY <1>1
<1>3. /\ reqs' \in Seq(Requests) /\ \A i \in DOMAIN reqs' : i + 1 \in DOMAIN reqs /\ reqs'[i] = reqs[i + 1]
    BY <1>1, TailFacts
<1>4. /\ Orderly(reqs', wire, InHand, Awaited(call, sweep))
      /\ m.kind \in Awaited(call, sweep) \ InHand
      /\ \A i \in DOMAIN reqs' : Answer(reqs'[i].kind) # m.kind
      /\ \A i \in DOMAIN wire : wire[i].kind # m.kind
    <2>1. m.kind = Answer(reqs[1].kind)
        BY <1>2
    <2>2. /\ Orderly(reqs', wire, InHand, Awaited(call, sweep))
          /\ Answer(reqs[1].kind) \in Awaited(call, sweep) \ InHand
          /\ \A i \in DOMAIN reqs' : Answer(reqs'[i].kind) # Answer(reqs[1].kind)
          /\ \A i \in DOMAIN wire : wire[i].kind # Answer(reqs[1].kind)
        BY <1>1, OrderlyTaken
    <2> QED
        BY <2>1, <2>2
<1>5. Orderly(reqs', wire \o <<m>>, InHand, Awaited(call, sweep))
    BY <1>1, <1>4, OrderlyReply
<1>6. wire' = wire \o <<m>>
    BY DEF Emit
<1>7. /\ wire' \in Seq(Messages)
      /\ \A i \in DOMAIN wire' : (i \in DOMAIN wire /\ wire'[i] = wire[i]) \/ (i = Len(wire) + 1 /\ wire'[i] = m)
    BY <1>1, <1>6
<1>8. m.kind # "done"
    BY <1>4 DEF Awaited, Asked
<1> QED
    BY <1>1, <1>3, <1>4, <1>5, <1>6, <1>7, <1>8 DEF EndsNamed

LEMMA ServeSendControl ==
    ASSUME Control, HostServes, Head(reqs).kind = "send", ServeSend(Head(reqs).turn)
    PROVE  Control'
<1> DEFINE t == Head(reqs).turn
           set == IF Accepts(accepted, t) THEN {t} ELSE {}
           m == Reply("sent", t, set)
<1>1. Typed
    BY DEF Control
<1>2. up /\ reqs # <<>> /\ reqs' = Tail(reqs) /\ reqs \in Seq(Requests)
    BY <1>1 DEF HostServes, Typed
<1>3. Head(reqs) = reqs[1] /\ 1 \in DOMAIN reqs /\ reqs[1] \in Requests
    BY <1>2
<1>4. t \in Turns /\ t = call.turn
    BY <1>1, <1>3 DEF Typed, Requests, Turns, Control, Protocol
<1>5. m \in Messages /\ m.kind = "sent" /\ m.set = set
    BY <1>4, ReplyIs DEF Turns
<1>6. Emit(<<m>>)
    BY DEF ServeSend
<1> HIDE DEF m
<1>7. /\ reqs' \in Seq(Requests) /\ \A i \in DOMAIN reqs' : i + 1 \in DOMAIN reqs /\ reqs'[i] = reqs[i + 1]
      /\ wire' \in Seq(Messages) /\ EndsNamed(wire')
      /\ \A i \in DOMAIN wire' : (i \in DOMAIN wire /\ wire'[i] = wire[i]) \/ wire'[i] = m
      /\ Orderly(reqs', wire', InHand, Awaited(call, sweep))
    BY <1>2, <1>5, <1>6, ServedReply DEF Answer
<1>8. UNCHANGED <<up, running, sweep, resumed, native, probes, call, cut, targets, used>>
    BY DEF HostServes, viewVars
<1>9. interrupt' = interrupt
    BY DEF ServeSend, hostVars
<1>10. sdk \in Processes /\ host \in Hosts /\ accepted \subseteq Turns
    BY <1>1 DEF Typed
<1>11. Fed(sdk, t) \in Processes
    <2>1. Append(sdk.queue, t) \in Seq(Turns) /\ t \in Nat
        BY <1>4, <1>10 DEF Processes, Turns
    <2> HIDE DEF t
    <2> QED
        BY <1>10, <2>1 DEF Fed, Processes
<1>12. Sent(host, t) \in Hosts
    <2>1. Append(host.inFlight, t) \in Seq(Turns)
        BY <1>4, <1>10 DEF Hosts
    <2> QED
        BY <1>10, <2>1 DEF Sent, Hosts
<1>13. /\ sdk' \in Processes /\ host' \in Hosts /\ accepted' \subseteq Turns /\ accepted \subseteq accepted' /\ t \in accepted'
       /\ trouble' \subseteq Troubles
    BY <1>1, <1>4, <1>10, <1>11, <1>12 DEF ServeSend, hostVars, Trouble, Typed, Troubles, Accepts
<1>14. Typed'
    BY <1>1, <1>7, <1>8, <1>9, <1>13 DEF Typed, EndsNamed
<1>15. InHand' = InHand
    BY <1>8, <1>9 DEF InHand
<1>16. Protocol'
    <2>1. set \subseteq {call.turn}
        BY <1>4
    <2>2. \A i \in DOMAIN wire' : wire'[i].kind = "sent" => wire'[i].set \subseteq {call.turn} /\ call.turn \in accepted'
        BY <1>4, <1>5, <1>7, <1>13, <2>1 DEF Control, Protocol
    <2> QED
        BY <1>7, <1>8, <1>9, <1>15, <2>2 DEF Control, Protocol
<1>17. Shape' /\ Viewed'
    BY <1>2, <1>8 DEF Control, Shape, Viewed
<1> QED
    BY <1>14, <1>16, <1>17 DEF Control

LEMMA ServeInterruptControl ==
    ASSUME Control, HostServes, Head(reqs).kind = "interrupt", ServeInterrupt
    PROVE  Control'
<1>1. Typed
    BY DEF Control
<1>2. up /\ reqs # <<>> /\ reqs' = Tail(reqs) /\ reqs \in Seq(Requests)
    BY <1>1 DEF HostServes, Typed
<1>3. Head(reqs) = reqs[1]
    BY <1>2
<1>4. UNCHANGED <<sdk, accepted, wire, trouble, up, running, sweep, resumed, native, probes, call, cut, targets, used>>
    BY DEF HostServes, ServeInterrupt, viewVars
<1>5. InHand = {} /\ interrupt.pc = "none"
    BY DEF InHand, ServeInterrupt
<1>6. Interrupting(host) \in [of : Nat, outstanding : BOOLEAN, candidates : SUBSET Turns]
    <2>1. host.inFlight \in Seq(Turns) /\ host.aborting \in Nat
        BY <1>1 DEF Typed, Hosts
    <2> DEFINE h == IF host.inFlight = <<>> THEN 0 ELSE Head(host.inFlight)
               c == ToSet(host.inFlight)
    <2>2. h \in Nat /\ c \in SUBSET Turns
        BY <2>1, ToSetOf DEF Turns
    <2>3. AbortInFlight(host) \in BOOLEAN
        BY DEF AbortInFlight
    <2>4. Interrupting(host) = [of |-> h, outstanding |-> AbortInFlight(host), candidates |-> c]
        BY DEF Interrupting
    <2> HIDE DEF h, c
    <2> QED
        BY <2>2, <2>3, <2>4
<1>7. interrupt' \in Interrupts /\ interrupt'.pc = "asked" /\ interrupt'.client = native.view.gen /\ native.view.gen \in Nat
    BY <1>1, <1>6, NoInterruptIs DEF ServeInterrupt, Interrupts, Typed, Sessions, Views
<1>8. host' \in Hosts
    <2>1. host.inFlight \in Seq(Turns) /\ host.aborting \in Nat
        BY <1>1 DEF Typed, Hosts
    <2> DEFINE h == IF host.inFlight = <<>> THEN host.aborting ELSE Head(host.inFlight)
    <2>2. h \in Nat
        BY <2>1, ToSetOf DEF Turns
    <2>3. host' = [host EXCEPT !.aborting = h]
        BY DEF ServeInterrupt, Interrupted
    <2> HIDE DEF h
    <2> QED
        BY <1>1, <2>2, <2>3 DEF Typed, Hosts
<1>9. InHand' = {"interrupted"}
    BY <1>2, <1>4, <1>7 DEF InHand
<1>10. Orderly(reqs', wire, {"interrupted"}, Awaited(call, sweep))
    <2>1. Answer(reqs[1].kind) = "interrupted"
        BY <1>3 DEF Answer
    <2>2. Orderly(reqs', wire, {} \cup {"interrupted"}, Awaited(call, sweep))
        BY <1>2, <1>5, <2>1, OrderlyTaken DEF Control, Protocol
    <2> QED
        BY <2>2
<1>11. reqs' \in Seq(Requests) /\ \A i \in DOMAIN reqs' : i + 1 \in DOMAIN reqs /\ reqs'[i] = reqs[i + 1]
    BY <1>2, TailFacts
<1>12. Typed'
    BY <1>1, <1>4, <1>7, <1>8, <1>11 DEF Typed
<1>13. Protocol'
    BY <1>4, <1>7, <1>9, <1>10, <1>11 DEF Control, Protocol
<1>14. Shape' /\ Viewed'
    BY <1>2, <1>4 DEF Control, Shape, Viewed
<1> QED
    BY <1>12, <1>13, <1>14 DEF Control

LEMMA StatusReplyIs ==
    ASSUME Typed, NEW kind \in Asked
    PROVE  /\ Reply(kind, IF host.inFlight = <<>> THEN 0 ELSE Head(host.inFlight), ToSet(host.inFlight)) \in Messages
           /\ Reply(kind, IF host.inFlight = <<>> THEN 0 ELSE Head(host.inFlight), ToSet(host.inFlight)).kind = kind
           /\ Reply(kind, IF host.inFlight = <<>> THEN 0 ELSE Head(host.inFlight), ToSet(host.inFlight)).turn
                = IF host.inFlight = <<>> THEN 0 ELSE host.inFlight[1]
           /\ Reply(kind, IF host.inFlight = <<>> THEN 0 ELSE Head(host.inFlight), ToSet(host.inFlight)).set = ToSet(host.inFlight)
<1>1. host.inFlight \in Seq(Turns)
    BY DEF Typed, Hosts
<1> DEFINE h == IF host.inFlight = <<>> THEN 0 ELSE Head(host.inFlight)
           c == ToSet(host.inFlight)
<1>2. h \in Nat /\ c \in SUBSET Turns /\ h = IF host.inFlight = <<>> THEN 0 ELSE host.inFlight[1]
    BY <1>1, ToSetOf DEF Turns
<1> HIDE DEF h, c
<1>3. Reply(kind, h, c) \in Messages /\ Reply(kind, h, c).kind = kind /\ Reply(kind, h, c).turn = h /\ Reply(kind, h, c).set = c
    BY <1>2, ReplyIs
<1> QED
    BY <1>2, <1>3 DEF h, c

LEMMA ServeStatusControl ==
    ASSUME Control, HostServes, Head(reqs).kind \notin {"send", "interrupt"}, ServeStatus(Head(reqs).kind)
    PROVE  Control'
<1> DEFINE k == Head(reqs).kind
           m == Reply(k, IF host.inFlight = <<>> THEN 0 ELSE Head(host.inFlight), ToSet(host.inFlight))
<1>1. Typed
    BY DEF Control
<1>2. up /\ reqs # <<>> /\ reqs' = Tail(reqs) /\ reqs \in Seq(Requests)
    BY <1>1 DEF HostServes, Typed
<1>3. k \in Asked /\ k = Answer(k) /\ k # "sent"
    <2>1. Head(reqs) \in Requests
        BY <1>2
    <2>2. k \in Asked
        BY <2>1 DEF Requests
    <2> QED
        BY <2>2 DEF Answer, Asked
<1>4. m \in Messages /\ m.kind = k
    BY <1>1, <1>3, StatusReplyIs
<1>5. Emit(<<m>>)
    BY DEF ServeStatus
<1> HIDE DEF m
<1>6. /\ reqs' \in Seq(Requests) /\ \A i \in DOMAIN reqs' : i + 1 \in DOMAIN reqs /\ reqs'[i] = reqs[i + 1]
      /\ wire' \in Seq(Messages) /\ EndsNamed(wire')
      /\ \A i \in DOMAIN wire' : (i \in DOMAIN wire /\ wire'[i] = wire[i]) \/ wire'[i] = m
      /\ Orderly(reqs', wire', InHand, Awaited(call, sweep))
    BY <1>2, <1>3, <1>4, <1>5, ServedReply
<1>7. UNCHANGED <<sdk, host, accepted, interrupt, trouble, up, running, sweep, resumed, native, probes, call, cut, targets, used>>
    BY DEF HostServes, ServeStatus, viewVars, hostVars
<1>8. InHand' = InHand
    BY <1>7 DEF InHand
<1>9. Typed'
    BY <1>1, <1>6, <1>7 DEF Typed, EndsNamed
<1>10. Protocol'
    BY <1>3, <1>4, <1>6, <1>7, <1>8 DEF Control, Protocol
<1>11. Shape' /\ Viewed'
    BY <1>2, <1>7 DEF Control, Shape, Viewed
<1> QED
    BY <1>9, <1>10, <1>11 DEF Control

LEMMA HostServesControl ==
    ASSUME Control, HostServes
    PROVE  Control'
BY ServeSendControl, ServeInterruptControl, ServeStatusControl DEF HostServes

-----------------------------------------------------------------------------
(* Events, repairs and the sweep.                                          *)
LEMMA NotifiedIs ==
    ASSUME Control, NEW new, Sure(native, new), Notified(new)
    PROVE  /\ native' \in Sessions /\ native'.view = new.view /\ native'.dead = new.dead /\ Sure(native, native')
           /\ probes' \subseteq Repairs /\ Fresh(probes', native', up)
           /\ \A p \in probes' : p.pc = "reads" => p \in probes
<1>1. native \in Sessions /\ probes \subseteq Repairs /\ new \in Sessions /\ Fresh(probes, native, up)
    BY DEF Control, Typed, Viewed, Sure
<1>2. native' = [new EXCEPT !.asked = {}]
    BY DEF Notified
<1>3. native' \in Sessions /\ native'.view = new.view /\ native'.dead = new.dead /\ Sure(native, native')
    BY <1>1, <1>2, SureUnasked DEF Sessions
<1> DEFINE blank == Registered(new, 0).view
           more == {[of |-> r, pc |-> "asked", before |-> blank] : r \in new.asked}
<1>4. probes' = probes \cup more
    BY DEF Notified
<1>5. blank \in Views
    <2>1. blank = [ready |-> TRUE, status |-> "unknown", turn |-> 0, gen |-> 0, rev |-> 0]
        BY <1>1 DEF Registered, Sessions
    <2> HIDE DEF blank
    <2> QED
        BY <2>1 DEF Views, Statuses
<1> HIDE DEF blank
<1>6. new.asked \subseteq Nat
    BY <1>1 DEF Sessions
<1>7. \A p \in more : p \in Repairs /\ p.pc = "asked"
    BY <1>5, <1>6 DEF Repairs
<1> HIDE DEF more
<1>8. Fresh(probes, native', up)
    BY <1>1, <1>3, FreshAfter
<1>9. probes' \subseteq Repairs /\ Fresh(probes', native', up) /\ \A p \in probes' : p.pc = "reads" => p \in probes
    BY <1>1, <1>4, <1>7, <1>8 DEF Fresh
<1> QED
    BY <1>3, <1>9

LEMMA WithoutIs ==
    ASSUME NEW s \in Seq(Turns), NEW turn
    PROVE  /\ Without(s, turn) \in Seq(Turns) /\ ToSet(Without(s, turn)) = ToSet(s) \ {turn}
           /\ Distinct(s) => Distinct(Without(s, turn))
           /\ \A x, y : Before(Without(s, turn), x, y) <=> x # turn /\ y # turn /\ Before(s, x, y)
           /\ s = <<>> => Without(s, turn) = <<>>
<1>1. /\ Without(s, turn) \in Seq(Turns)
      /\ ToSet(Without(s, turn)) = ToSet(s) \cap (ToSet(s) \ {turn})
      /\ Distinct(s) => Distinct(Without(s, turn))
      /\ \A x, y : Before(Without(s, turn), x, y) <=> x \in ToSet(s) \ {turn} /\ y \in ToSet(s) \ {turn} /\ Before(s, x, y)
    BY OnlyFacts DEF Without
<1>2. \A x, y : Before(s, x, y) => x \in ToSet(s) /\ y \in ToSet(s)
    BY ToSetOf DEF Before
<1>3. ToSet(s) = {} => Without(s, turn) = <<>>
    BY <1>1, ToSetOf
<1> QED
    BY <1>1, <1>2, <1>3, ToSetOf

\* The view after turn/completed of a turn, with the next turn announced.
LEMMA AfterDoneIs ==
    ASSUME native \in Sessions, native.view.ready, running \in Seq(Turns), NEW turn \in Turns
    PROVE  LET left == Without(running, turn)
               lead == running # <<>> /\ running[1] = turn /\ left # <<>>
               new == AfterDone(turn)
           IN  /\ Sure(native, new)
               /\ new.dead = native.dead \cup {turn}
               /\ lead /\ left[1] \notin native.dead => new.view.status = "active" /\ new.view.turn = left[1]
               /\ ~(lead /\ left[1] \notin native.dead) =>
                    IF native.view.turn = turn \/ native.view.status = "idle" THEN Idle(new) ELSE Kept(native, new)
<1> DEFINE left == Without(running, turn)
           lead == running # <<>> /\ running[1] = turn /\ left # <<>>
           next == IF lead THEN Executing(native, left[1]) ELSE native
           new == Completed(next, turn)
<1>1. left \in Seq(Turns) /\ ToSet(left) = ToSet(running) \ {turn}
    BY WithoutIs
<1> HIDE DEF left
<1>2. AfterDone(turn) = new
    <2>1. running # <<>> => Head(running) = running[1]
        OBVIOUS
    <2>2. left # <<>> => Head(left) = left[1]
        BY <1>1
    <2> QED
        BY <2>1, <2>2 DEF AfterDone, left
<1>3. lead => left[1] \in Turns /\ left[1] # turn
    BY <1>1, ToSetOf
<1> HIDE DEF lead
<1>4. /\ Sure(native, next) /\ next.dead = native.dead
      /\ lead /\ left[1] \notin native.dead => next.view.status = "active" /\ next.view.turn = left[1]
      /\ ~(lead /\ left[1] \notin native.dead) => next = native
    <2>1. CASE lead
        BY <1>3, <2>1, ExecutingIs
    <2>2. CASE ~lead
        BY <2>2, SureOfItself
    <2> QED
        BY <2>1, <2>2
<1> HIDE DEF next
<1>5. next \in Sessions /\ next.view.ready
    BY <1>4 DEF Sure, Onward
<1>6. /\ Sure(next, new) /\ new.dead = next.dead \cup {turn}
      /\ IF next.view.turn = turn \/ next.view.status = "idle" THEN Idle(new) ELSE Kept(next, new)
    BY <1>5, CompletedIs DEF Idle, Kept
<1> HIDE DEF new
<1>7. Sure(native, new)
    BY <1>4, <1>5, <1>6, SureTwice DEF Sure
<1>8. ASSUME lead, left[1] \notin native.dead
      PROVE  new.view.status = "active" /\ new.view.turn = left[1]
    BY <1>3, <1>4, <1>6, <1>8 DEF Kept
<1>9. ASSUME ~(lead /\ left[1] \notin native.dead)
      PROVE  IF native.view.turn = turn \/ native.view.status = "idle" THEN Idle(new) ELSE Kept(native, new)
    BY <1>4, <1>6, <1>9
<1> QED
    BY <1>2, <1>4, <1>6, <1>7, <1>8, <1>9 DEF lead, left, new

LEMMA HostEventControl ==
    ASSUME Control, HostEvent
    PROVE  Control'
<1>1. PICK i \in DOMAIN wire :
        /\ wire[i].kind = "done"
        /\ wire' = RemoveAt(wire, i)
        /\ IF Known
             THEN /\ running' = Without(running, wire[i].turn)
                  /\ Notified(AfterDone(wire[i].turn))
             ELSE UNCHANGED <<running, viewVars>>
        /\ UNCHANGED <<hostVars, reqs, up, sweep, resumed, call, cut, historyVars, used>>
    BY DEF HostEvent
<1> DEFINE t == wire[i].turn
<1>2. Typed /\ wire \in Seq(Messages)
    BY DEF Control, Typed
<1>3. UNCHANGED <<sdk, host, accepted, interrupt, reqs, up, sweep, resumed, call, cut, trouble, targets, used>>
    BY <1>1 DEF hostVars, historyVars
<1>4. t \in Turns
    <2>1. wire[i] \in Messages /\ t # 0
        BY <1>1, <1>2 DEF Typed
    <2> QED
        BY <2>1 DEF Messages, Turns
<1>5. wire' \in Seq(Messages) /\ \E e : Drops(wire, i, wire', e)
    BY <1>1, <1>2, RemoveAtDrops
<1>6. PICK e : Drops(wire, i, wire', e)
    BY <1>5
<1>7. \A j \in DOMAIN wire' : e[j] \in DOMAIN wire /\ wire'[j] = wire[e[j]]
    BY <1>6 DEF Drops
<1>8. up /\ native.view.ready
    <2>1. wire # <<>>
        BY <1>2
    <2> QED
        BY <2>1 DEF Control, Shape
<1>9. /\ native' \in Sessions /\ Sure(native, native') /\ probes' \subseteq Repairs /\ Fresh(probes', native', up)
      /\ running' \in Seq(Turns) /\ (running = <<>> => running' = <<>>)
    <2>1. CASE Known
        <3>1. Sure(native, AfterDone(t))
            BY <1>2, <1>4, <1>8, AfterDoneIs DEF Typed
        <3>2. /\ native' \in Sessions /\ Sure(native, native') /\ probes' \subseteq Repairs /\ Fresh(probes', native', up)
            BY <1>1, <2>1, <3>1, NotifiedIs
        <3>3. running' \in Seq(Turns) /\ (running = <<>> => running' = <<>>)
            BY <1>1, <1>2, <2>1, WithoutIs DEF Typed
        <3> QED
            BY <3>2, <3>3
    <2>2. CASE ~Known
        BY <1>1, <1>2, <2>2, SureOfItself DEF Control, Typed, Viewed, viewVars
    <2> QED
        BY <2>1, <2>2
<1>10. Orderly(reqs, wire', InHand, Awaited(call, sweep))
    BY <1>6, OrderlyDropped DEF Control, Protocol
<1>11. native'.view.gen = native.view.gen /\ native'.view.ready = native.view.ready
       /\ (native'.view.status = "unknown" => native.view.status = "unknown") /\ Sound(native')
    BY <1>9 DEF Sure, Onward, Control, Viewed
<1>12. InHand' = InHand
    BY <1>3, <1>11 DEF InHand
<1>13. Typed'
    BY <1>2, <1>3, <1>5, <1>7, <1>9 DEF Typed
<1>14. Protocol'
    BY <1>3, <1>7, <1>10, <1>11, <1>12 DEF Control, Protocol
<1>15. Shape'
    BY <1>3, <1>8, <1>9, <1>11 DEF Control, Shape
<1>16. Viewed'
    BY <1>3, <1>9, <1>11 DEF Control, Viewed
<1> QED
    BY <1>13, <1>14, <1>15, <1>16 DEF Control

LEMMA AnsweredIs ==
    ASSUME Typed, NEW k, Answered(k)
    PROVE  /\ wire # <<>> /\ wire[1].kind = k /\ 1 \in DOMAIN wire /\ wire[1] \in Messages
           /\ wire' = Tail(wire) /\ wire' \in Seq(Messages) /\ EndsNamed(wire')
           /\ \A i \in DOMAIN wire' : i + 1 \in DOMAIN wire /\ wire'[i] = wire[i + 1]
<1>1. wire \in Seq(Messages) /\ EndsNamed(wire) /\ wire # <<>> /\ wire[1].kind = k /\ wire' = Tail(wire)
    BY DEF Typed, EndsNamed, Answered
<1>2. wire' \in Seq(Messages) /\ \A i \in DOMAIN wire' : i + 1 \in DOMAIN wire /\ wire'[i] = wire[i + 1]
    BY <1>1, TailFacts
<1>3. 1 \in DOMAIN wire /\ wire[1] \in Messages
    BY <1>1
<1> QED
    BY <1>1, <1>2, <1>3 DEF EndsNamed

LEMMA RequestIs ==
    ASSUME Typed, NEW kind \in Asked \cup {"send", "interrupt"}, NEW turn \in Nat, Request(kind, turn)
    PROVE  /\ reqs' \in Seq(Requests) /\ reqs' = Append(reqs, [kind |-> kind, turn |-> turn])
           /\ [kind |-> kind, turn |-> turn] \in Requests
           /\ \A i \in DOMAIN reqs' : (i \in DOMAIN reqs /\ reqs'[i] = reqs[i]) \/ reqs'[i] = [kind |-> kind, turn |-> turn]
<1> DEFINE r == [kind |-> kind, turn |-> turn]
<1>1. r \in Requests /\ reqs \in Seq(Requests) /\ reqs' = Append(reqs, r)
    BY DEF Requests, Typed, Request
<1> HIDE DEF r
<1>2. reqs' \in Seq(Requests) /\ \A i \in DOMAIN reqs' : (i \in DOMAIN reqs /\ reqs'[i] = reqs[i]) \/ reqs'[i] = r
    BY <1>1
<1> QED
    BY <1>1, <1>2 DEF r

\* A step of a call or of the sweep that hears and asks nothing, ...
LEMMA CallKeeps ==
    ASSUME Control, UNCHANGED <<accepted, interrupt, reqs, wire, up>>, native'.view.gen = native.view.gen,
           Awaited(call, sweep) \subseteq Awaited(call', sweep'), call'.pc = "accept" => call'.turn = call.turn
    PROVE  Protocol'
<1>1. InHand' = InHand
    BY DEF InHand
<1>2. Orderly(reqs, wire, InHand, Awaited(call', sweep'))
    BY OrderlyMore DEF Control, Protocol
<1>3. CASE call'.pc = "accept"
    BY <1>1, <1>2, <1>3 DEF Control, Protocol
<1>4. CASE call'.pc # "accept"
    <2>1. \A i \in DOMAIN reqs : reqs[i].kind # "send"
        BY <1>2, <1>4 DEF Orderly, Awaited, Answer
    <2>2. \A i \in DOMAIN wire : wire[i].kind # "sent"
        BY <1>2, <1>4 DEF Orderly, Awaited
    <2> QED
        BY <1>1, <1>2, <2>1, <2>2 DEF Control, Protocol
<1> QED
    BY <1>3, <1>4

\* ... one that asks, ...
LEMMA CallAsks ==
    ASSUME Control, UNCHANGED <<accepted, interrupt, wire, up>>, native'.view.gen = native.view.gen,
           NEW kind \in Asked \cup {"send", "interrupt"}, NEW turn \in Nat, Request(kind, turn),
           Answer(kind) \notin Awaited(call, sweep), Awaited(call, sweep) \cup {Answer(kind)} \subseteq Awaited(call', sweep'),
           call'.pc = "accept" => call'.turn = call.turn, kind = "send" => turn = call'.turn /\ turn # 0
    PROVE  Protocol' /\ reqs' \in Seq(Requests) /\ \A i \in DOMAIN reqs' : reqs'[i].kind = "send" => reqs'[i].turn # 0
<1> DEFINE r == [kind |-> kind, turn |-> turn]
<1>1. Typed /\ reqs \in Seq(Requests)
    BY DEF Control, Typed
<1>2. /\ reqs' \in Seq(Requests) /\ reqs' = Append(reqs, r) /\ r \in Requests
      /\ \A i \in DOMAIN reqs' : (i \in DOMAIN reqs /\ reqs'[i] = reqs[i]) \/ reqs'[i] = r
    BY <1>1, RequestIs
<1>3. r.kind = kind /\ r.turn = turn /\ Answer(kind) # "done"
    BY DEF Answer, Asked
<1> HIDE DEF r
<1>4. Orderly(reqs', wire, InHand, Awaited(call', sweep'))
    BY <1>1, <1>2, <1>3, OrderlyRequest DEF Control, Protocol
<1>5. InHand' = InHand
    BY DEF InHand
<1>6. \A i \in DOMAIN wire : wire[i].kind = "sent" => wire[i].set \subseteq {call'.turn} /\ call'.turn \in accepted
    <2>1. call'.pc # "accept" => \A i \in DOMAIN wire : wire[i].kind # "sent"
        BY <1>4 DEF Orderly, Awaited
    <2> QED
        BY <2>1 DEF Control, Protocol
<1>7. \A i \in DOMAIN reqs' : reqs'[i].kind = "send" => reqs'[i].turn = call'.turn
    <2>1. call'.pc # "accept" => \A i \in DOMAIN reqs' : reqs'[i].kind # "send"
        BY <1>4 DEF Orderly, Awaited, Answer
    <2> QED
        BY <1>2, <1>3, <2>1 DEF Control, Protocol
<1>8. \A i \in DOMAIN reqs' : reqs'[i].kind = "send" => reqs'[i].turn # 0
    BY <1>1, <1>2, <1>3 DEF Typed
<1>9. Protocol'
    BY <1>4, <1>5, <1>6, <1>7 DEF Control, Protocol
<1> QED
    BY <1>2, <1>8, <1>9

\* ... one that hears its answer, ...
LEMMA CallHears ==
    ASSUME Control, UNCHANGED <<accepted, interrupt, reqs, up>>, native'.view.gen = native.view.gen,
           NEW k, k # "done", Answered(k), Awaited(call, sweep) \ {k} \subseteq Awaited(call', sweep'),
           call'.pc = "accept" => call'.turn = call.turn
    PROVE  Protocol' /\ wire' \in Seq(Messages) /\ EndsNamed(wire')
<1>1. Typed /\ wire \in Seq(Messages)
    BY DEF Control, Typed
<1>2. /\ wire # <<>> /\ wire[1].kind = k /\ wire' = Tail(wire) /\ wire' \in Seq(Messages) /\ EndsNamed(wire')
      /\ \A i \in DOMAIN wire' : i + 1 \in DOMAIN wire /\ wire'[i] = wire[i + 1]
    BY <1>1, AnsweredIs
<1>3. Orderly(reqs, wire', InHand, Awaited(call', sweep'))
    BY <1>1, <1>2, OrderlyAnswered DEF Control, Protocol
<1>4. InHand' = InHand
    BY DEF InHand
<1>5. CASE call'.pc = "accept"
    BY <1>2, <1>3, <1>4, <1>5 DEF Control, Protocol
<1>6. CASE call'.pc # "accept"
    <2>1. \A i \in DOMAIN reqs : reqs[i].kind # "send"
        BY <1>3, <1>6 DEF Orderly, Awaited, Answer
    <2>2. \A i \in DOMAIN wire' : wire'[i].kind # "sent"
        BY <1>3, <1>6 DEF Orderly, Awaited
    <2> QED
        BY <1>2, <1>3, <1>4, <2>1, <2>2 DEF Control, Protocol
<1> QED
    BY <1>2, <1>5, <1>6

\* ... and one that hears and asks.
LEMMA CallHearsAndAsks ==
    ASSUME Control, UNCHANGED <<accepted, interrupt, up>>, native'.view.gen = native.view.gen,
           NEW k, k # "done", Answered(k), NEW kind \in Asked, NEW turn \in Nat, Request(kind, turn),
           kind \notin Awaited(call, sweep), (Awaited(call, sweep) \ {k}) \cup {kind} \subseteq Awaited(call', sweep'),
           call'.pc # "accept"
    PROVE  /\ Protocol' /\ wire' \in Seq(Messages) /\ EndsNamed(wire')
           /\ reqs' \in Seq(Requests) /\ \A i \in DOMAIN reqs' : reqs'[i].kind = "send" => reqs'[i].turn # 0
<1> DEFINE r == [kind |-> kind, turn |-> turn]
           left == Awaited(call, sweep) \ {k}
<1>1. Typed /\ reqs \in Seq(Requests) /\ wire \in Seq(Messages)
    BY DEF Control, Typed
<1>2. wire # <<>> /\ wire[1].kind = k /\ wire' = Tail(wire) /\ wire' \in Seq(Messages) /\ EndsNamed(wire')
    BY <1>1, AnsweredIs
<1>3. reqs' \in Seq(Requests) /\ reqs' = Append(reqs, r) /\ r \in Requests
    BY <1>1, RequestIs
<1>4. r.kind = kind /\ Answer(kind) = kind /\ kind # "done"
    BY DEF Answer, Asked
<1> HIDE DEF r
<1>5. Orderly(reqs, wire', InHand, left)
    BY <1>1, <1>2, OrderlyAnswered DEF Control, Protocol
<1>6. kind \notin left /\ left \cup {kind} \subseteq Awaited(call', sweep')
    OBVIOUS
<1> HIDE DEF left
<1>7. Orderly(reqs', wire', InHand, Awaited(call', sweep'))
    <2>1. Answer(r.kind) = kind
        BY <1>4
    <2> QED
        BY <1>1, <1>3, <1>4, <1>5, <1>6, <2>1, OrderlyRequest
<1>8. InHand' = InHand
    BY DEF InHand
<1>9. \A i \in DOMAIN reqs' : reqs'[i].kind # "send"
    BY <1>7 DEF Orderly, Awaited, Answer
<1>10. \A i \in DOMAIN wire' : wire'[i].kind # "sent"
    BY <1>7 DEF Orderly, Awaited
<1>11. Protocol'
    BY <1>7, <1>8, <1>9, <1>10 DEF Control, Protocol
<1> QED
    BY <1>2, <1>3, <1>9, <1>11

LEMMA OwnRepairIs ==
    ASSUME NEW s \in Sessions
    PROVE  OwnRepair(s) \subseteq Repairs /\ Fresh(OwnRepair(s), s, TRUE) /\ \A p \in OwnRepair(s) : p.before = s.view
<1> DEFINE p == [of |-> 0, pc |-> "reads", before |-> s.view]
<1>1. p \in Repairs /\ s.view.rev \in Nat
    BY DEF Sessions, Repairs, Views
<1>2. OwnRepair(s) \subseteq {p}
    BY DEF OwnRepair
<1>3. p.before = s.view
    OBVIOUS
<1> HIDE DEF p
<1> QED
    BY <1>1, <1>2, <1>3 DEF Fresh

LEMMA FreshBoth ==
    ASSUME NEW a, NEW b, NEW s, NEW u, Fresh(a, s, u), Fresh(b, s, u)
    PROVE  Fresh(a \cup b, s, u)
BY DEF Fresh

LEMMA NoCallIs ==
    /\ NoCall \in Calls /\ NoCall.op = "none" /\ NoCall.pc = "none" /\ NoCall.turn = 0 /\ NoCall.steer = FALSE
    /\ \A s : Awaited(NoCall, s) \subseteq {"status"} /\ (s => "status" \in Awaited(NoCall, s))
<1>1. [gen |-> 0, rev |-> 0] \in Tokens
    BY DEF Tokens
<1>2. NoCall \in Calls /\ NoCall.op = "none" /\ NoCall.pc = "none" /\ NoCall.turn = 0 /\ NoCall.steer = FALSE
    BY <1>1 DEF NoCall, Calls
<1> QED
    BY <1>2 DEF Awaited, Asked

LEMMA TokenIs ==
    ASSUME NEW s \in Sessions
    PROVE  Token(s) \in Tokens
BY DEF Token, Tokens, Sessions, Views

LEMMA ProbeBeginsControl ==
    ASSUME Control, NEW p \in probes, ProbeBegins(p)
    PROVE  Control'
<1>1. Typed /\ p \in Repairs /\ native \in Sessions /\ probes \subseteq Repairs
    BY DEF Control, Typed
<1>2. UNCHANGED <<sdk, host, accepted, interrupt, reqs, wire, up, running, sweep, resumed, native, call, cut, trouble, targets, used>>
    BY DEF ProbeBegins, hostVars, historyVars
<1> DEFINE q == [p EXCEPT !.pc = "reads", !.before = native.view]
<1>3. q \in Repairs /\ q.before = native.view /\ native.view.rev \in Nat
    BY <1>1 DEF Repairs, Sessions, Views
<1>4. probes' \subseteq probes \cup {q} /\ (q \in probes' => up \/ q \in probes)
    BY DEF ProbeBegins
<1> HIDE DEF q
<1>5. Fresh(probes', native, up)
    BY <1>3, <1>4 DEF Fresh, Control, Viewed
<1>6. Typed'
    BY <1>1, <1>2, <1>3, <1>4 DEF Typed
<1>7. Protocol'
    BY <1>2, CallKeeps
<1>8. Shape' /\ Viewed'
    BY <1>2, <1>5 DEF Control, Shape, Viewed
<1> QED
    BY <1>6, <1>7, <1>8 DEF Control

LEMMA ProbeEndsIs ==
    ASSUME Control, NEW p \in probes, ProbeEnds(p)
    PROVE  \E t \in (IF running = <<>> THEN {0} ELSE {0, running[1]}) :
             /\ t \in Nat /\ native' = Repaired(native, p.before, t)
             /\ Sure(native, native') /\ native'.dead = native.dead
             /\ \/ native'.view.status = native.view.status /\ native'.view.turn = native.view.turn
                \/ native'.view.status = "idle" /\ t \in native.dead
                \/ t # 0 /\ t \notin native.dead /\ native'.view.status = "active" /\ native'.view.turn = t
<1>1. Typed /\ p \in Repairs /\ native \in Sessions /\ running \in Seq(Turns)
    BY DEF Control, Typed
<1>2. running # <<>> => Head(running) = running[1] /\ running[1] \in Nat
    BY <1>1, ToSetOf DEF Turns
<1>3. PICK t \in IF running = <<>> THEN {0} ELSE {0, Head(running)} : native' = Repaired(native, p.before, t)
    BY DEF ProbeEnds
<1>4. t \in Nat
    BY <1>2, <1>3
<1>5. p.before \in Views /\ Sound(native) /\ (p.before.gen = native.view.gen /\ p.before.rev = native.view.rev => p.before = native.view)
    BY <1>1 DEF Repairs, Control, Viewed, Fresh, ProbeEnds
<1>6. /\ Sure(native, native') /\ native'.dead = native.dead
      /\ \/ native'.view.status = native.view.status /\ native'.view.turn = native.view.turn
         \/ native'.view.status = "idle" /\ t \in native.dead
         \/ t # 0 /\ t \notin native.dead /\ native'.view.status = "active" /\ native'.view.turn = t
    BY <1>1, <1>3, <1>4, <1>5, RepairedIs
<1> QED
    BY <1>2, <1>3, <1>4, <1>6

LEMMA ProbeEndsControl ==
    ASSUME Control, NEW p \in probes, ProbeEnds(p)
    PROVE  Control'
<1>1. Typed /\ native \in Sessions /\ probes \subseteq Repairs
    BY DEF Control, Typed
<1>2. UNCHANGED <<sdk, host, accepted, interrupt, reqs, wire, up, running, sweep, resumed, call, cut, trouble, targets, used>>
      /\ probes' = probes \ {p}
    BY DEF ProbeEnds, hostVars, historyVars
<1>3. Sure(native, native')
    BY ProbeEndsIs
<1>4. native' \in Sessions /\ Onward(native, native') /\ Sound(native')
    BY <1>3 DEF Sure, Control, Viewed
<1>5. Fresh(probes', native', up)
    <2>1. Fresh(probes, native', up)
        BY <1>1, <1>3, <1>4, FreshAfter DEF Control, Viewed
    <2> QED
        BY <1>2, <2>1 DEF Fresh
<1>6. Typed'
    BY <1>1, <1>2, <1>4 DEF Typed
<1>7. Protocol'
    BY <1>2, <1>4, CallKeeps DEF Onward
<1>8. Shape' /\ Viewed'
    BY <1>2, <1>4, <1>5 DEF Control, Shape, Viewed, Onward
<1> QED
    BY <1>6, <1>7, <1>8 DEF Control

LEMMA SweepBeginsControl ==
    ASSUME Control, SweepBegins
    PROVE  Control'
<1>1. Typed
    BY DEF Control
<1>2. UNCHANGED <<sdk, host, accepted, interrupt, wire, up, running, resumed, native, probes, call, cut, trouble, targets, used>>
      /\ sweep' = TRUE /\ ~sweep /\ up /\ resumed
    BY DEF SweepBegins, hostVars, historyVars, viewVars
<1>3. /\ Protocol' /\ reqs' \in Seq(Requests) /\ \A i \in DOMAIN reqs' : reqs'[i].kind = "send" => reqs'[i].turn # 0
    <2>1. "status" \notin Awaited(call, sweep) /\ Awaited(call, sweep) \cup {"status"} \subseteq Awaited(call', sweep')
        BY <1>2 DEF Awaited, Asked
    <2>2. "status" \in Asked /\ Answer("status") = "status"
        BY DEF Asked, Answer
    <2>3. Request("status", 0)
        BY DEF SweepBegins
    <2> QED
        BY <1>2, <2>1, <2>2, <2>3, CallAsks
<1>4. Typed'
    BY <1>1, <1>2, <1>3 DEF Typed
<1>5. Shape' /\ Viewed'
    BY <1>2 DEF Control, Shape, Viewed
<1> QED
    BY <1>3, <1>4, <1>5 DEF Control

\* What the reconciliation takes for ended, and what it does to the view.
LEMMA ReconcilesIs ==
    ASSUME Control, up, NEW kind, Reconciles(kind)
    PROVE  LET left == Only(running, wire[1].set)
               gone == Only(running, ToSet(running) \ wire[1].set)
           IN  /\ left \in Seq(Turns) /\ gone \in Seq(Turns) /\ running' = left
               /\ ToSet(left) = ToSet(running) \cap wire[1].set
               /\ ToSet(gone) = ToSet(running) \ wire[1].set
               /\ native' \in Sessions /\ Sure(native, native')
               /\ Settle(left, gone) \in Sessions /\ native'.view = Settle(left, gone).view /\ native'.dead = Settle(left, gone).dead
               /\ probes' \subseteq Repairs /\ Fresh(probes', native', up)
               /\ \A p \in probes' : p.pc = "reads" => p \in probes
<1> DEFINE left == Only(running, wire[1].set)
           gone == Only(running, ToSet(running) \ wire[1].set)
<1>1. running \in Seq(Turns) /\ native \in Sessions /\ native.view.ready
    BY DEF Control, Typed, Shape
<1>2. left \in Seq(Turns) /\ ToSet(left) = ToSet(running) \cap wire[1].set
    BY <1>1, OnlyFacts
<1>3. gone \in Seq(Turns) /\ ToSet(gone) = ToSet(running) \cap (ToSet(running) \ wire[1].set)
    BY <1>1, OnlyFacts
<1>4. running' = left /\ Notified(Settle(left, gone))
    BY DEF Reconciles
<1> HIDE DEF left, gone
<1>5. Sure(native, Settle(left, gone))
    BY <1>1, <1>2, <1>3, SettleIs
<1>6. /\ native' \in Sessions /\ native'.view = Settle(left, gone).view /\ native'.dead = Settle(left, gone).dead /\ Sure(native, native')
      /\ probes' \subseteq Repairs /\ Fresh(probes', native', up)
      /\ \A p \in probes' : p.pc = "reads" => p \in probes
    BY <1>4, <1>5, NotifiedIs
<1> QED
    BY <1>2, <1>3, <1>4, <1>5, <1>6 DEF left, gone, Sure

LEMMA SweepEndsControl ==
    ASSUME Control, SweepEnds
    PROVE  Control'
<1>1. Typed
    BY DEF Control
<1>2. /\ UNCHANGED <<sdk, host, accepted, interrupt, reqs, up, resumed, call, cut, targets, used>>
      /\ sweep /\ sweep' = FALSE /\ Reconciles("status") /\ Answered("status")
    BY DEF SweepEnds, Reconciles, hostVars
<1>3. up /\ resumed
    BY <1>2 DEF Control, Shape, Answered
<1>4. /\ running' \in Seq(Turns) /\ native' \in Sessions /\ Sure(native, native')
      /\ probes' \subseteq Repairs /\ Fresh(probes', native', up)
    BY <1>2, <1>3, ReconcilesIs
<1>5. trouble' \subseteq Troubles
    BY <1>1 DEF SweepEnds, Reconciles, Trouble, Typed, Troubles
<1>6. Onward(native, native') /\ Sound(native')
    BY <1>4 DEF Sure, Control, Viewed
<1>7. Protocol' /\ wire' \in Seq(Messages) /\ EndsNamed(wire')
    <2>1. Awaited(call, sweep) \ {"status"} \subseteq Awaited(call', sweep')
        BY <1>2 DEF Awaited
    <2> QED
        BY <1>2, <1>6, <2>1, CallHears DEF Onward
<1>8. Typed'
    BY <1>1, <1>2, <1>4, <1>5, <1>7 DEF Typed, EndsNamed
<1>9. Shape' /\ Viewed'
    BY <1>2, <1>3, <1>4, <1>6 DEF Control, Shape, Viewed, Onward
<1> QED
    BY <1>7, <1>8, <1>9 DEF Control

-----------------------------------------------------------------------------
(* The calls.                                                              *)
LEMMA SendBeginsControl ==
    ASSUME Control, SendBegins
    PROVE  Control'
<1>1. Typed /\ native \in Sessions /\ probes \subseteq Repairs /\ used \in Spent /\ cut \subseteq Turns
    BY DEF Control, Typed
<1>2. PICK turn \in cut \cup {used.turns + 1} :
          /\ used' = IF turn \in cut THEN [used EXCEPT !.retries = used.retries + 1] ELSE [used EXCEPT !.turns = used.turns + 1]
          /\ cut' = cut \ {turn}
          /\ Begins([NoCall EXCEPT !.op = "send", !.pc = "choose", !.turn = turn])
    BY DEF SendBegins
<1>3. UNCHANGED <<sdk, host, accepted, interrupt, reqs, wire, up, running, sweep, resumed, native, trouble, targets>>
      /\ probes' = probes \cup OwnRepair(native)
    BY DEF SendBegins, hostVars, historyVars
<1>4. turn \in Turns /\ used' \in Spent
    <2>1. used.turns \in Nat /\ used.retries \in Nat
        BY <1>1 DEF Spent
    <2>2. turn \in Turns
        BY <1>1, <2>1 DEF Turns
    <2>3. used' \in Spent
        BY <1>1, <1>2, <2>1 DEF Spent
    <2> QED
        BY <2>2, <2>3
<1>5. call.op = "none" /\ up /\ resumed /\ call' = [NoCall EXCEPT !.op = "send", !.pc = "choose", !.turn = turn]
    BY <1>2 DEF Begins
<1>6. call' \in Calls /\ call'.op = "send" /\ call'.pc = "choose" /\ call'.turn = turn /\ turn # 0
    BY <1>4, <1>5, NoCallIs DEF Calls, Turns
<1>7. probes' \subseteq Repairs /\ Fresh(probes', native, up)
    BY <1>1, <1>3, <1>5, OwnRepairIs, FreshBoth DEF Control, Viewed
<1>8. Protocol'
    <2>1. Awaited(call, sweep) \subseteq Awaited(call', sweep')
        BY <1>3, <1>5 DEF Awaited, Control, Shape
    <2> QED
        BY <1>3, <1>6, <2>1, CallKeeps
<1>9. Typed'
    BY <1>1, <1>2, <1>3, <1>4, <1>6, <1>7 DEF Typed
<1>10. Shape' /\ Viewed'
    <2>1. native.view.status # "unknown"
        BY DEF SendBegins
    <2> QED
        BY <1>3, <1>5, <1>6, <1>7, <2>1 DEF Control, Shape, Viewed
<1> QED
    BY <1>8, <1>9, <1>10 DEF Control

LEMMA SendChoosesControl ==
    ASSUME Control, SendChooses
    PROVE  Control'
<1>1. Typed /\ native \in Sessions /\ call \in Calls /\ running \in Seq(Turns)
    BY DEF Control, Typed
<1>2. UNCHANGED <<sdk, host, accepted, interrupt, reqs, wire, up, sweep, resumed, native, probes, cut, trouble, targets, used>>
      /\ call.pc = "choose"
    BY DEF SendChooses, hostVars, historyVars, viewVars
<1>3. up /\ resumed /\ call.op = "send" /\ call.turn \in Turns
    <2>1. call.turn # 0 /\ call.turn \in Nat
        BY <1>1, <1>2 DEF Typed, Calls
    <2> QED
        BY <1>2, <2>1 DEF Control, Shape, Turns
<1>4. \/ call' = NoCall /\ running' = running
      \/ /\ running' \in Seq(Turns)
         /\ call' \in Calls /\ call'.pc = "model" /\ call'.op = "send" /\ call'.turn = call.turn
    <2>1. CASE call' = NoCall /\ running' = running
        BY <2>1
    <2>2. CASE \E steer \in BOOLEAN : Reserve(steer)
        <3>1. PICK steer \in BOOLEAN : Reserve(steer)
            BY <2>2
        <3>2. running' \in Seq(Turns)
            BY <1>1, <1>3, <3>1, AppendFacts DEF Reserve
        <3>3. Token(native) \in Tokens
            BY <1>1, TokenIs
        <3>4. call' \in Calls /\ call'.pc = "model" /\ call'.op = call.op /\ call'.turn = call.turn
            BY <1>1, <3>1, <3>3 DEF Reserve, Calls, Starting
        <3> QED
            BY <1>3, <3>2, <3>4
    <2> QED
        BY <2>1, <2>2 DEF SendChooses
<1>5. /\ call' \in Calls /\ running' \in Seq(Turns) /\ call'.pc \notin {"accept", "recover", "check", "view"}
      /\ call'.op # "interrupt" /\ (call'.pc \in Starting \cup {"choose"} => call'.turn # 0)
      /\ (call'.op = "none" /\ call'.pc = "none") \/ (call'.op = "send" /\ call'.pc = "model")
    BY <1>1, <1>3, <1>4, NoCallIs DEF Starting, Turns
<1>6. Protocol'
    <2>1. Awaited(call, sweep) \subseteq Awaited(call', sweep')
        BY <1>2, <1>3, <1>5 DEF Awaited
    <2> QED
        BY <1>2, <1>5, <2>1, CallKeeps
<1>7. Typed'
    BY <1>1, <1>2, <1>5 DEF Typed
<1>8. Shape' /\ Viewed'
    BY <1>2, <1>3, <1>5 DEF Control, Shape, Viewed
<1> QED
    BY <1>6, <1>7, <1>8 DEF Control

LEMMA ModelSetControl ==
    ASSUME Control, ModelSet
    PROVE  Control'
<1>1. Typed /\ call \in Calls
    BY DEF Control, Typed
<1>2. UNCHANGED <<sdk, host, accepted, interrupt, wire, up, running, sweep, resumed, native, probes, cut, trouble, targets, used>>
      /\ call.pc = "model" /\ call' = [call EXCEPT !.pc = "accept"] /\ Request("send", call.turn)
    BY DEF ModelSet, hostVars, historyVars, viewVars
<1>3. call' \in Calls /\ call'.pc = "accept" /\ call'.op = call.op /\ call'.turn = call.turn
    BY <1>1, <1>2 DEF Calls, Starting
<1>4. call.turn # 0 /\ call.turn \in Nat /\ call.op = "send" /\ up /\ resumed
    BY <1>1, <1>2 DEF Typed, Calls, Starting, Control, Shape
<1>5. /\ Protocol' /\ reqs' \in Seq(Requests) /\ \A i \in DOMAIN reqs' : reqs'[i].kind = "send" => reqs'[i].turn # 0
    <2>1. "sent" \notin Awaited(call, sweep) /\ Awaited(call, sweep) \cup {"sent"} \subseteq Awaited(call', sweep')
        BY <1>2, <1>3, <1>4 DEF Awaited, Asked
    <2>2. Answer("send") = "sent"
        BY DEF Answer
    <2> QED
        BY <1>2, <1>3, <1>4, <2>1, <2>2, CallAsks
<1>6. Typed'
    BY <1>1, <1>2, <1>3, <1>4, <1>5 DEF Typed
<1>7. Shape' /\ Viewed'
    BY <1>2, <1>3, <1>4 DEF Control, Shape, Viewed
<1> QED
    BY <1>5, <1>6, <1>7 DEF Control

LEMMA ModelFailsControl ==
    ASSUME Control, ModelFails
    PROVE  Control'
<1>1. Typed /\ call \in Calls /\ running \in Seq(Turns) /\ used \in Spent
    BY DEF Control, Typed
<1>2. UNCHANGED <<sdk, host, accepted, interrupt, reqs, wire, up, sweep, resumed, native, probes, cut, targets>>
      /\ call.pc = "model" /\ call' = NoCall /\ running' = Without(running, call.turn)
    BY DEF ModelFails, hostVars, historyVars, viewVars
<1>3. call.op = "send" /\ up /\ resumed
    BY <1>2 DEF Control, Shape
<1>4. running' \in Seq(Turns)
    BY <1>1, <1>2, WithoutIs
<1>5. used' \in Spent /\ trouble' \subseteq Troubles
    BY <1>1 DEF ModelFails, Spent, Trouble, Typed, Troubles
<1>6. Protocol'
    <2>1. Awaited(call, sweep) \subseteq Awaited(call', sweep')
        BY <1>2, <1>3, NoCallIs DEF Awaited
    <2> QED
        BY <1>2, <2>1, NoCallIs, CallKeeps
<1>7. Typed'
    BY <1>1, <1>2, <1>4, <1>5, NoCallIs DEF Typed, Starting
<1>8. Shape' /\ Viewed'
    BY <1>2, <1>3, NoCallIs DEF Control, Shape, Viewed
<1> QED
    BY <1>6, <1>7, <1>8 DEF Control

\* The end of a start: the view is the one that was heard, or it is answered
\* with the turn that heads the queue.
LEMMA StartReturnsIs ==
    ASSUME Control, call.pc \in Starting, NEW heard, Sure(native, heard), StartReturns(heard), running' = running
    PROVE  /\ native' \in Sessions /\ Sure(native, native') /\ Sure(heard, native') /\ native'.dead = heard.dead
           /\ probes' \subseteq Repairs /\ Fresh(probes', native', up)
           /\ call' = [call EXCEPT !.pc = "last"]
           /\ \/ native' = heard
              \/ Kept(heard, native')
              \/ running # <<>> /\ running[1] \in native'.dead /\ native'.view.status = "idle"
              \/ /\ running # <<>> /\ running[1] \notin native'.dead
                 /\ native'.view.status = "active" /\ native'.view.turn = running[1]
<1>1. Typed /\ native \in Sessions /\ heard \in Sessions /\ running \in Seq(Turns) /\ probes \subseteq Repairs /\ up
    BY DEF Control, Typed, Sure, Shape, Starting
<1>2. Fresh(probes, native, up)
    BY DEF Control, Viewed
<1> DEFINE head == IF running = <<>> THEN 0 ELSE Head(running)
<1>3. running # <<>> => head = running[1] /\ head \in Turns
    BY <1>1, ToSetOf
<1>4. call' = [call EXCEPT !.pc = "last"]
    BY DEF StartReturns
<1>5. running = <<>> => head = 0
    OBVIOUS
<1>6. \/ native' = heard /\ probes' = probes
      \/ head # call.turn /\ native' = (IF head = 0 THEN heard ELSE Refreshed(heard, call.token, "active", head)) /\ probes' = probes
      \/ /\ head = call.turn /\ native' = StartAnswered(heard, call.token, call.turn)
         /\ probes' = probes \cup IF StartOvertaken(heard, call.token, call.turn) THEN OwnRepair(native') ELSE {}
    BY DEF StartReturns
<1> HIDE DEF head
<1>7. CASE native' = heard /\ probes' = probes
    BY <1>1, <1>2, <1>4, <1>7, SureOfItself, FreshAfter
<1>8. CASE head # call.turn /\ native' = (IF head = 0 THEN heard ELSE Refreshed(heard, call.token, "active", head)) /\ probes' = probes
    <2>1. CASE head = 0
        BY <1>1, <1>2, <1>4, <1>8, <2>1, SureOfItself, FreshAfter
    <2>2. CASE head # 0
        <3>1. head \in Turns /\ head = running[1] /\ running # <<>>
            BY <1>3, <1>5, <2>2
        <3>2. head \in Nat /\ "active" \in Statuses
            BY <3>1 DEF Turns, Statuses
        <3>3. /\ Sure(heard, native') /\ native'.dead = heard.dead
              /\ ~Fits(heard, call.token) => native' = heard
              /\ Fits(heard, call.token) =>
                    IF head \in heard.dead THEN native'.view.status = "idle" /\ native'.view.turn = 0
                    ELSE native'.view.status = "active" /\ native'.view.turn = head
            <4> DEFINE n == Refreshed(heard, call.token, "active", head)
            <4>1. /\ Sure(heard, n) /\ n.dead = heard.dead
                  /\ ~Fits(heard, call.token) => n = heard
                  /\ Fits(heard, call.token) =>
                        IF head \in heard.dead THEN n.view.status = "idle" /\ n.view.turn = 0
                        ELSE n.view.status = "active" /\ n.view.turn = head
                <5> DEFINE x == "active"
                <5>1. x \in Statuses /\ x # "error" /\ x # "unknown" /\ x = "active" /\ n = Refreshed(heard, call.token, x, head)
                    BY <3>2
                <5> HIDE DEF x, n
                <5>2. /\ Sure(heard, Refreshed(heard, call.token, x, head)) /\ Refreshed(heard, call.token, x, head).dead = heard.dead
                      /\ ~Fits(heard, call.token) => Refreshed(heard, call.token, x, head) = heard
                      /\ Fits(heard, call.token) =>
                            IF head \in heard.dead THEN /\ Refreshed(heard, call.token, x, head).view.status = "idle"
                                                       /\ Refreshed(heard, call.token, x, head).view.turn = 0
                            ELSE /\ Refreshed(heard, call.token, x, head).view.status = "active"
                                 /\ Refreshed(heard, call.token, x, head).view.turn = head
                    BY <1>1, <2>2, <3>2, <5>1, RefreshedIs
                <5> QED
                    BY <5>1, <5>2
            <4>2. native' = n
                BY <1>8, <2>2
            <4> HIDE DEF n
            <4> QED
                BY <4>1, <4>2
        <3>4. Sure(native, native') /\ native' \in Sessions
            BY <1>1, <3>3, SureTwice DEF Sure
        <3>5. Fresh(probes', native', up)
            BY <1>1, <1>2, <1>8, <3>4, FreshAfter
        <3> QED
            BY <1>1, <1>4, <1>8, <3>1, <3>3, <3>4, <3>5
    <2> QED
        BY <2>1, <2>2
<1>9. CASE /\ head = call.turn /\ native' = StartAnswered(heard, call.token, call.turn)
           /\ probes' = probes \cup IF StartOvertaken(heard, call.token, call.turn) THEN OwnRepair(native') ELSE {}
    <2>1. call.turn # 0 /\ call.turn \in Nat
        BY <1>1 DEF Typed, Calls
    <2>2. call.turn \in Turns /\ running # <<>> /\ call.turn = running[1]
        BY <1>3, <1>5, <1>9, <2>1 DEF Turns
    <2>3. /\ Sure(heard, native') /\ native'.dead = heard.dead
          /\ \/ native' = heard
             \/ call.turn \notin heard.dead /\ native'.view.status = "active" /\ native'.view.turn = call.turn
        BY <1>1, <1>9, <2>2, StartAnsweredIs
    <2>4. Sure(native, native') /\ native' \in Sessions
        BY <1>1, <2>3, SureTwice DEF Sure
    <2>5. OwnRepair(native') \subseteq Repairs /\ Fresh(OwnRepair(native'), native', up)
        BY <1>1, <2>4, OwnRepairIs
    <2>6. Fresh(probes, native', up)
        BY <1>1, <1>2, <2>4, FreshAfter
    <2>7. Fresh(probes', native', up) /\ probes' \subseteq Repairs
        BY <1>1, <1>9, <2>5, <2>6, FreshBoth DEF Fresh
    <2> QED
        BY <1>4, <2>2, <2>3, <2>4, <2>7
<1> QED
    BY <1>6, <1>7, <1>8, <1>9

LEMMA StartedControl ==
    ASSUME Control, call.pc \in {"accept", "held"}, NEW k \in {"sent", "held"}, Answered(k), k = IF call.pc = "accept" THEN "sent" ELSE "held",
           UNCHANGED <<sdk, host, accepted, interrupt, reqs, up, sweep, resumed, cut, trouble, targets, used>>,
           running' \in Seq(Turns), native' \in Sessions, Sure(native, native'), probes' \subseteq Repairs, Fresh(probes', native', up),
           call' = [call EXCEPT !.pc = "last"]
    PROVE  Control'
<1>1. Typed /\ call \in Calls
    BY DEF Control, Typed
<1>2. call' \in Calls /\ call'.pc = "last" /\ call'.op = call.op /\ call.op = "send" /\ up /\ resumed
    BY <1>1 DEF Calls, Control, Shape
<1>3. Onward(native, native') /\ Sound(native')
    BY DEF Sure, Control, Viewed
<1>4. Protocol' /\ wire' \in Seq(Messages) /\ EndsNamed(wire')
    <2>1. Awaited(call, sweep) \ {k} \subseteq Awaited(call', sweep')
        BY <1>2 DEF Awaited
    <2> QED
        BY <1>2, <1>3, <2>1, CallHears DEF Onward
<1>5. Typed'
    BY <1>1, <1>2, <1>4 DEF Typed, EndsNamed, Starting
<1>6. Shape' /\ Viewed'
    BY <1>2, <1>3 DEF Control, Shape, Viewed, Onward
<1> QED
    BY <1>4, <1>5, <1>6 DEF Control

\* What the emitted turn/started, and the item behind it, do to the view.
LEMMA AcceptedIs ==
    ASSUME Control, Accepted
    PROVE  \E heard :
             /\ StartReturns(heard) /\ Sure(native, heard) /\ heard.dead = native.dead
             /\ \/ heard = native /\ (running = <<>> \/ running[1] # call.turn \/ call.turn \in native.dead)
                \/ /\ running # <<>> /\ running[1] = call.turn /\ call.turn \notin native.dead
                   /\ heard.view.status = "active" /\ heard.view.turn = call.turn
<1>1. Typed /\ native \in Sessions /\ running \in Seq(Turns) /\ call.pc = "accept"
    BY DEF Control, Typed, Accepted
<1>2. call.turn \in Turns /\ native.view.ready
    <2>1. call.turn # 0 /\ call.turn \in Nat
        BY <1>1 DEF Typed, Calls, Starting
    <2> QED
        BY <1>1, <2>1 DEF Turns, Control, Shape
<1> DEFINE one == Executing(native, call.turn)
           two == Executing(one, call.turn)
<1>3. /\ Sure(native, one) /\ one.dead = native.dead
      /\ call.turn \in native.dead => one = native
      /\ call.turn \notin native.dead => one.view.status = "active" /\ one.view.turn = call.turn
    BY <1>1, <1>2, ExecutingIs
<1> HIDE DEF one
<1>4. one \in Sessions /\ one.view.ready
    BY <1>2, <1>3 DEF Sure, Onward
<1>5. /\ Sure(one, two) /\ two.dead = one.dead
      /\ call.turn \in one.dead => two = one
      /\ call.turn \notin one.dead => two.view.status = "active" /\ two.view.turn = call.turn
    BY <1>2, <1>4, ExecutingIs
<1>6. StartReturns(IF running = <<>> \/ Head(running) # call.turn THEN native ELSE two)
    BY DEF Accepted, one
<1> HIDE DEF two
<1>7. two \in Sessions /\ Sure(native, two)
    BY <1>1, <1>3, <1>4, <1>5, SureTwice DEF Sure
<1>8. CASE running = <<>> \/ Head(running) # call.turn
    BY <1>1, <1>6, <1>8, SureOfItself
<1>9. CASE ~(running = <<>> \/ Head(running) # call.turn)
    BY <1>1, <1>3, <1>5, <1>6, <1>7, <1>9
<1> QED
    BY <1>8, <1>9

LEMMA AcceptedControl ==
    ASSUME Control, Accepted
    PROVE  Control'
<1>1. call.pc = "accept" /\ Answered("sent") /\ UNCHANGED <<sdk, host, accepted, interrupt, reqs, up, sweep, resumed, cut, trouble, targets, used>>
      /\ running' = running /\ running \in Seq(Turns)
    BY DEF Accepted, hostVars, historyVars, Control, Typed
<1>2. PICK heard : StartReturns(heard) /\ Sure(native, heard)
    BY AcceptedIs
<1>3. /\ native' \in Sessions /\ Sure(native, native') /\ probes' \subseteq Repairs /\ Fresh(probes', native', up)
      /\ call' = [call EXCEPT !.pc = "last"]
    BY <1>1, <1>2, StartReturnsIs DEF Starting
<1> QED
    BY <1>1, <1>3, StartedControl

LEMMA DuplicateControl ==
    ASSUME Control, Duplicate
    PROVE  Control'
<1>1. Typed /\ call \in Calls
    BY DEF Control, Typed
<1>2. UNCHANGED <<sdk, host, accepted, interrupt, up, running, sweep, resumed, native, probes, cut, trouble, targets, used>>
      /\ call.pc = "accept" /\ call' = [call EXCEPT !.pc = "held"] /\ Answered("sent") /\ Request("held", 0)
    BY DEF Duplicate, hostVars, historyVars, viewVars
<1>3. call' \in Calls /\ call'.pc = "held" /\ call'.op = call.op /\ call'.turn = call.turn
    BY <1>1, <1>2 DEF Calls, Starting
<1>4. call.turn # 0 /\ call.op = "send" /\ up /\ resumed
    BY <1>1, <1>2 DEF Typed, Starting, Control, Shape
<1>5. /\ Protocol' /\ reqs' \in Seq(Requests) /\ \A i \in DOMAIN reqs' : reqs'[i].kind = "send" => reqs'[i].turn # 0
      /\ wire' \in Seq(Messages) /\ EndsNamed(wire')
    <2>1. "held" \notin Awaited(call, sweep) /\ (Awaited(call, sweep) \ {"sent"}) \cup {"held"} \subseteq Awaited(call', sweep')
        BY <1>2, <1>3, <1>4 DEF Awaited, Asked
    <2> QED
        BY <1>2, <1>3, <2>1, CallHearsAndAsks DEF Asked
<1>6. Typed'
    BY <1>1, <1>2, <1>3, <1>4, <1>5 DEF Typed, EndsNamed
<1>7. Shape' /\ Viewed'
    BY <1>2, <1>3, <1>4 DEF Control, Shape, Viewed
<1> QED
    BY <1>5, <1>6, <1>7 DEF Control

LEMMA DuplicateReturnsIs ==
    ASSUME Control, DuplicateReturns
    PROVE  /\ running' \in Seq(Turns) /\ native' \in Sessions /\ Sure(native, native')
           /\ probes' \subseteq Repairs /\ Fresh(probes', native', up)
           /\ call' = [call EXCEPT !.pc = "last"]
           /\ \/ call.turn \in wire[1].set /\ running' = running /\ StartReturns(native)
              \/ /\ call.turn \notin wire[1].set /\ running' = Without(running, call.turn)
                 /\ native'.dead = native.dead \cup {call.turn}
                 /\ IF native.view.turn = call.turn \/ native.view.status = "idle" THEN Idle(native') ELSE Kept(native, native')
<1>1. Typed /\ native \in Sessions /\ running \in Seq(Turns) /\ call.pc = "held" /\ call.pc \in Starting
    BY DEF Control, Typed, DuplicateReturns, Starting
<1>2. call.turn \in Turns /\ native.view.ready /\ up
    <2>1. call.turn # 0 /\ call.turn \in Nat
        BY <1>1 DEF Typed, Calls, Starting
    <2> QED
        BY <1>1, <2>1 DEF Turns, Control, Shape
<1>3. CASE call.turn \in wire[1].set
    <2>1. StartReturns(native) /\ running' = running
        BY <1>3 DEF DuplicateReturns
    <2> QED
        BY <1>1, <1>3, <2>1, SureOfItself, StartReturnsIs
<1>4. CASE call.turn \notin wire[1].set
    <2> DEFINE one == Completed(native, call.turn)
               two == Completed(one, call.turn)
               new == IF call.steer THEN one ELSE two
    <2>1. running' = Without(running, call.turn) /\ Notified(new) /\ call' = [call EXCEPT !.pc = "last"]
        BY <1>4 DEF DuplicateReturns
    <2>2. /\ Sure(native, one) /\ one.dead = native.dead \cup {call.turn}
          /\ IF native.view.turn = call.turn \/ native.view.status = "idle" THEN Idle(one) ELSE Kept(native, one)
        BY <1>1, <1>2, CompletedIs DEF Idle, Kept
    <2> HIDE DEF one
    <2>3. one \in Sessions /\ one.view.ready
        BY <1>2, <2>2 DEF Sure, Onward
    <2>4. /\ Sure(one, two) /\ two.dead = one.dead \cup {call.turn}
          /\ IF one.view.turn = call.turn \/ one.view.status = "idle" THEN Idle(two) ELSE Kept(one, two)
        BY <1>2, <2>3, CompletedIs DEF Idle, Kept
    <2> HIDE DEF two
    <2>5. Sure(native, two)
        BY <1>1, <2>2, <2>3, <2>4, SureTwice DEF Sure
    <2>6. call.turn # 0
        BY <1>2 DEF Turns
    <2>7. /\ Sure(native, new) /\ new.dead = native.dead \cup {call.turn}
          /\ IF native.view.turn = call.turn \/ native.view.status = "idle" THEN Idle(new) ELSE Kept(native, new)
        BY <2>2, <2>4, <2>5, <2>6 DEF Idle, Kept
    <2> HIDE DEF new
    <2>8. /\ native' \in Sessions /\ native'.view = new.view /\ native'.dead = new.dead /\ Sure(native, native')
          /\ probes' \subseteq Repairs /\ Fresh(probes', native', up)
        BY <2>1, <2>7, NotifiedIs
    <2>9. running' \in Seq(Turns)
        BY <1>1, <2>1, WithoutIs
    <2>10. IF native.view.turn = call.turn \/ native.view.status = "idle" THEN Idle(native') ELSE Kept(native, native')
        BY <2>7, <2>8 DEF Idle, Kept
    <2> QED
        BY <1>4, <2>1, <2>7, <2>8, <2>9, <2>10
<1> QED
    BY <1>3, <1>4

LEMMA DuplicateReturnsControl ==
    ASSUME Control, DuplicateReturns
    PROVE  Control'
<1>1. call.pc = "held" /\ Answered("held") /\ UNCHANGED <<sdk, host, accepted, interrupt, reqs, up, sweep, resumed, cut, trouble, targets, used>>
    BY DEF DuplicateReturns, hostVars, historyVars
<1>2. /\ running' \in Seq(Turns) /\ native' \in Sessions /\ Sure(native, native') /\ probes' \subseteq Repairs /\ Fresh(probes', native', up)
      /\ call' = [call EXCEPT !.pc = "last"]
    BY DuplicateReturnsIs
<1> QED
    BY <1>1, <1>2, StartedControl

LEMMA InterruptBeginsIs ==
    ASSUME Control, InterruptBegins
    PROVE  LET turn == native.view.turn
               pc == IF turn \notin ToSet(running) THEN "observe" ELSE IF Head(running) = turn THEN "sent" ELSE "last"
           IN  /\ native.view.status = "active" /\ turn \in Turns
               /\ call.op = "none" /\ call.pc = "none" /\ up /\ resumed
               /\ call' \in Calls /\ call'.op = "interrupt" /\ call'.turn = turn /\ call'.pc = pc
               /\ IF pc = "sent" THEN Request("interrupt", 0) /\ targets' = targets \cup {turn}
                                 ELSE reqs' = reqs /\ targets' = targets
               /\ used' \in Spent
<1> DEFINE turn == native.view.turn
           pc == IF turn \notin ToSet(running) THEN "observe" ELSE IF Head(running) = turn THEN "sent" ELSE "last"
           token == Token(native)
<1>1. Typed /\ native \in Sessions /\ used \in Spent
    BY DEF Control, Typed
<1>2. native.view.status = "active" /\ turn # 0 /\ used' = [used EXCEPT !.interrupts = used.interrupts + 1]
    BY DEF InterruptBegins
<1>3. turn \in Turns /\ turn \in Nat
    BY <1>1, <1>2 DEF Turns, Sessions, Views
<1>4. Begins([NoCall EXCEPT !.op = "interrupt", !.turn = turn, !.token = token, !.pc = pc])
    BY DEF InterruptBegins
<1>5. IF pc = "sent" THEN Request("interrupt", 0) /\ targets' = targets \cup {turn}
                     ELSE UNCHANGED <<reqs, targets>>
    BY DEF InterruptBegins
<1>6. token \in Tokens
    BY <1>1, TokenIs
<1>7. pc \in {"observe", "sent", "last"}
    OBVIOUS
<1>8. call.op = "none" /\ call.pc = "none" /\ up /\ resumed
    BY <1>4 DEF Begins, Control, Shape
<1>9. call' \in Calls /\ call'.op = "interrupt" /\ call'.turn = turn /\ call'.pc = pc
    <2>1. call' = [NoCall EXCEPT !.op = "interrupt", !.turn = turn, !.token = token, !.pc = pc]
        BY <1>4 DEF Begins
    <2> HIDE DEF turn, token, pc
    <2> QED
        BY <1>3, <1>6, <1>7, <2>1, NoCallIs DEF Calls
<1>10. used' \in Spent
    BY <1>1, <1>2 DEF Spent
<1> QED
    BY <1>2, <1>3, <1>5, <1>8, <1>9, <1>10

LEMMA InterruptBeginsControl ==
    ASSUME Control, InterruptBegins
    PROVE  Control'
<1>1. Typed
    BY DEF Control
<1>2. UNCHANGED <<sdk, host, accepted, interrupt, wire, up, running, sweep, resumed, native, probes, cut, trouble>>
    BY DEF InterruptBegins, hostVars, viewVars
<1> DEFINE turn == native.view.turn
           pc == IF turn \notin ToSet(running) THEN "observe" ELSE IF Head(running) = turn THEN "sent" ELSE "last"
<1>3. /\ native.view.status = "active" /\ turn \in Turns
      /\ call.op = "none" /\ call.pc = "none" /\ up /\ resumed
      /\ call' \in Calls /\ call'.op = "interrupt" /\ call'.turn = turn /\ call'.pc = pc
      /\ IF pc = "sent" THEN Request("interrupt", 0) /\ targets' = targets \cup {turn}
                        ELSE reqs' = reqs /\ targets' = targets
      /\ used' \in Spent
    BY InterruptBeginsIs
<1>4. pc \in {"observe", "sent", "last"}
    OBVIOUS
<1>5. turn # 0 /\ turn \in Turns
    BY <1>3 DEF Turns
<1> HIDE DEF turn, pc
<1>6. Protocol' /\ reqs' \in Seq(Requests) /\ \A i \in DOMAIN reqs' : reqs'[i].kind = "send" => reqs'[i].turn # 0
    <2>1. CASE pc = "sent"
        <3>1. Awaited(call, sweep) \subseteq {"status"} /\ (Awaited(call, sweep) \cup {"interrupted"}) \subseteq Awaited(call', sweep')
            BY <1>2, <1>3, <2>1 DEF Awaited, Asked
        <3>2. Answer("interrupt") = "interrupted"
            BY DEF Answer
        <3>3. Answer("interrupt") \notin Awaited(call, sweep) /\ Awaited(call, sweep) \cup {Answer("interrupt")} \subseteq Awaited(call', sweep')
            BY <3>1, <3>2
        <3>4. Request("interrupt", 0)
            BY <1>3, <2>1
        <3> QED
            BY <1>2, <1>3, <2>1, <3>3, <3>4, CallAsks
    <2>2. CASE pc # "sent"
        <3>1. reqs' = reqs
            BY <1>3, <2>2
        <3>2. Awaited(call, sweep) \subseteq Awaited(call', sweep')
            BY <1>2, <1>3 DEF Awaited
        <3>3. Protocol'
            BY <1>2, <1>3, <1>4, <3>1, <3>2, CallKeeps
        <3> QED
            BY <1>1, <3>1, <3>3 DEF Typed
    <2> QED
        BY <2>1, <2>2
<1>7. targets' \subseteq Turns
    BY <1>1, <1>3, <1>5 DEF Typed
<1>8. Typed'
    BY <1>1, <1>2, <1>3, <1>5, <1>6, <1>7 DEF Typed
<1>9. Shape' /\ Viewed'
    BY <1>2, <1>3, <1>4 DEF Control, Shape, Viewed
<1> QED
    BY <1>6, <1>8, <1>9 DEF Control

LEMMA InterruptEndsIs ==
    ASSUME Control, InterruptEnds
    PROVE  /\ call.turn \in Turns /\ up /\ resumed
           /\ native' \in Sessions /\ Sure(native, native')
           /\ native'.dead = native.dead \cup {call.turn}
           /\ IF native.view.turn = call.turn \/ native.view.status = "idle" THEN Idle(native') ELSE Kept(native, native')
<1>1. Typed /\ native \in Sessions /\ call.op = "interrupt"
    BY DEF Control, Typed, InterruptEnds
<1>2. call.turn \in Turns /\ native.view.ready /\ up /\ resumed
    <2>1. call.turn # 0 /\ call.turn \in Nat
        BY <1>1 DEF Typed, Calls
    <2> QED
        BY <1>1, <2>1 DEF Turns, Control, Shape
<1> DEFINE n == Completed(native, call.turn)
<1>3. /\ Sure(native, n) /\ n.dead = native.dead \cup {call.turn}
      /\ IF native.view.turn = call.turn \/ native.view.status = "idle" THEN Idle(n) ELSE Kept(native, n)
    BY <1>1, <1>2, CompletedIs DEF Idle, Kept
<1>4. native' = [n EXCEPT !.asked = {}]
    BY DEF InterruptEnds
<1> HIDE DEF n
<1>5. n \in Sessions
    BY <1>3 DEF Sure
<1>6. Sure(native, native') /\ native'.view = n.view /\ native'.dead = n.dead
    BY <1>1, <1>3, <1>4, <1>5, SureUnasked
<1> QED
    BY <1>2, <1>3, <1>6 DEF Sure, Idle, Kept

LEMMA InterruptEndsControl ==
    ASSUME Control, InterruptEnds
    PROVE  Control'
<1>1. Typed /\ native \in Sessions /\ probes \subseteq Repairs
    BY DEF Control, Typed
<1>2. UNCHANGED <<sdk, host, accepted, interrupt, reqs, up, running, sweep, resumed, probes, cut, trouble, targets, used>>
      /\ call.op = "interrupt" /\ call' = NoCall
    BY DEF InterruptEnds, hostVars, historyVars
<1>3. up /\ resumed /\ native' \in Sessions /\ Sure(native, native')
    BY InterruptEndsIs
<1>4. Onward(native, native') /\ Sound(native') /\ Fresh(probes', native', up)
    BY <1>1, <1>2, <1>3, FreshAfter DEF Sure, Control, Viewed
<1>5. \/ call.pc = "sent" /\ Answered("interrupted")
      \/ call.pc = "observe" /\ wire' = wire
    <2>1. \/ call.pc = "sent" /\ Answered("interrupted")
          \/ call.pc = "observe" /\ UNCHANGED wire
        BY Zenon DEF InterruptEnds
    <2> QED
        BY <2>1
<1>6. Protocol' /\ wire' \in Seq(Messages) /\ EndsNamed(wire')
    <2>1. CASE call.pc = "sent" /\ Answered("interrupted")
        <3>1. Awaited(call, sweep) \ {"interrupted"} \subseteq Awaited(call', sweep')
            BY <1>2, <2>1, NoCallIs DEF Awaited
        <3> QED
            BY <1>2, <1>4, <2>1, <3>1, NoCallIs, CallHears DEF Onward
    <2>2. CASE call.pc = "observe" /\ wire' = wire
        <3>1. Awaited(call, sweep) \subseteq Awaited(call', sweep')
            BY <1>2, <2>2, NoCallIs DEF Awaited
        <3>2. Protocol'
            BY <1>2, <1>4, <2>2, <3>1, NoCallIs, CallKeeps DEF Onward
        <3> QED
            BY <1>1, <2>2, <3>2 DEF Typed, EndsNamed
    <2> QED
        BY <1>5, <2>1, <2>2
<1>7. Typed'
    BY <1>1, <1>2, <1>3, <1>6, NoCallIs DEF Typed, EndsNamed, Starting
<1>8. Shape' /\ Viewed'
    BY <1>2, <1>3, <1>4, NoCallIs DEF Control, Shape, Viewed, Onward
<1> QED
    BY <1>6, <1>7, <1>8 DEF Control

LEMMA ResumeBeginsControl ==
    ASSUME Control, ResumeBegins
    PROVE  Control'
<1>1. Typed
    BY DEF Control
<1>2. UNCHANGED <<sdk, host, accepted, interrupt, wire, up, running, sweep, resumed, native, probes, cut, trouble, targets, used>>
      /\ call.op = "none" /\ up /\ ~resumed
      /\ call' = [NoCall EXCEPT !.op = "resume", !.pc = "recover"] /\ Request("recovered", 0)
    BY DEF ResumeBegins, hostVars, historyVars, viewVars
<1>3. call' \in Calls /\ call'.op = "resume" /\ call'.pc = "recover"
    BY <1>2, NoCallIs DEF Calls
<1>4. /\ Protocol' /\ reqs' \in Seq(Requests) /\ \A i \in DOMAIN reqs' : reqs'[i].kind = "send" => reqs'[i].turn # 0
    <2>1. "recovered" \notin Awaited(call, sweep) /\ Awaited(call, sweep) \cup {"recovered"} \subseteq Awaited(call', sweep')
        BY <1>2, <1>3 DEF Awaited, Asked, Control, Shape
    <2>2. Answer("recovered") = "recovered" /\ "recovered" \in Asked
        BY DEF Answer, Asked
    <2> QED
        BY <1>2, <1>3, <2>1, <2>2, CallAsks
<1>5. Typed'
    BY <1>1, <1>2, <1>3, <1>4 DEF Typed, Starting
<1>6. Shape' /\ Viewed'
    BY <1>2, <1>3 DEF Control, Shape, Viewed
<1> QED
    BY <1>4, <1>5, <1>6 DEF Control

LEMMA ResumeRecoversControl ==
    ASSUME Control, ResumeRecovers
    PROVE  Control'
<1>1. Typed /\ call \in Calls
    BY DEF Control, Typed
<1>2. UNCHANGED <<sdk, host, accepted, interrupt, up, sweep, native, probes, cut, targets, used>>
      /\ call.pc = "recover" /\ Answered("recovered") /\ resumed' = TRUE
      /\ running' = (IF wire[1].turn = 0 THEN running ELSE <<wire[1].turn>>)
      /\ IF running' = <<>>
           THEN call' = [call EXCEPT !.pc = "view"] /\ reqs' = reqs
           ELSE call' = [call EXCEPT !.pc = "check"] /\ Request("checked", 0)
    BY DEF ResumeRecovers, hostVars, viewVars
<1>3. call.op = "resume" /\ up
    BY <1>2 DEF Control, Shape
<1>4. wire[1] \in Messages /\ running \in Seq(Turns)
    BY <1>1, <1>2, AnsweredIs DEF Typed
<1>5. running' \in Seq(Turns)
    <2>1. wire[1].turn # 0 => wire[1].turn \in Turns
        BY <1>4 DEF Messages, Turns
    <2> QED
        BY <1>2, <1>4, <2>1
<1>6. trouble' \subseteq Troubles
    BY <1>1 DEF ResumeRecovers, Trouble, Typed, Troubles
<1>7. /\ Protocol' /\ wire' \in Seq(Messages) /\ EndsNamed(wire')
      /\ reqs' \in Seq(Requests) /\ \A i \in DOMAIN reqs' : reqs'[i].kind = "send" => reqs'[i].turn # 0
      /\ call' \in Calls /\ call'.op = "resume" /\ call'.pc \in {"view", "check"}
    <2>1. CASE call' = [call EXCEPT !.pc = "view"] /\ reqs' = reqs
        <3>1. call' \in Calls /\ call'.op = "resume" /\ call'.pc = "view"
            BY <1>1, <1>3, <2>1 DEF Calls
        <3>2. Awaited(call, sweep) \ {"recovered"} \subseteq Awaited(call', sweep')
            BY <1>2, <1>3, <3>1 DEF Awaited
        <3>3. Protocol' /\ wire' \in Seq(Messages) /\ EndsNamed(wire')
            BY <1>2, <2>1, <3>1, <3>2, CallHears
        <3> QED
            BY <1>1, <2>1, <3>1, <3>3 DEF Typed
    <2>2. CASE call' = [call EXCEPT !.pc = "check"] /\ Request("checked", 0)
        <3>1. call' \in Calls /\ call'.op = "resume" /\ call'.pc = "check"
            BY <1>1, <1>3, <2>2 DEF Calls
        <3>2. "checked" \notin Awaited(call, sweep) /\ (Awaited(call, sweep) \ {"recovered"}) \cup {"checked"} \subseteq Awaited(call', sweep')
            BY <1>2, <1>3, <3>1 DEF Awaited, Asked
        <3> QED
            BY <1>2, <2>2, <3>1, <3>2, CallHearsAndAsks DEF Asked
    <2> QED
        BY <1>2, <2>1, <2>2
<1>8. Typed'
    BY <1>1, <1>2, <1>5, <1>6, <1>7 DEF Typed, EndsNamed, Starting
<1>9. Shape' /\ Viewed'
    BY <1>2, <1>3, <1>7 DEF Control, Shape, Viewed
<1> QED
    BY <1>7, <1>8, <1>9 DEF Control

LEMMA ResumeChecksControl ==
    ASSUME Control, ResumeChecks
    PROVE  Control'
<1>1. Typed /\ call \in Calls
    BY DEF Control, Typed
<1>2. /\ UNCHANGED <<sdk, host, accepted, interrupt, reqs, up, sweep, resumed, cut, targets, used>>
      /\ call.pc = "check" /\ Reconciles("checked") /\ Answered("checked")
      /\ call' = [call EXCEPT !.pc = "view", !.turn = IF running' = <<>> THEN 0 ELSE Head(running')]
    BY DEF ResumeChecks, Reconciles, hostVars
<1>3. call.op = "resume" /\ up /\ resumed
    BY <1>2 DEF Control, Shape
<1>4. /\ running' \in Seq(Turns) /\ native' \in Sessions /\ Sure(native, native')
      /\ probes' \subseteq Repairs /\ Fresh(probes', native', up)
    BY <1>2, <1>3, ReconcilesIs
<1>5. trouble' \subseteq Troubles
    BY <1>1 DEF ResumeChecks, Reconciles, Trouble, Typed, Troubles
<1>6. Onward(native, native') /\ Sound(native')
    BY <1>4 DEF Sure, Control, Viewed
<1>7. call' \in Calls /\ call'.op = "resume" /\ call'.pc = "view"
    <2> DEFINE t == IF running' = <<>> THEN 0 ELSE Head(running')
    <2>1. t \in Nat
        BY <1>4 DEF Turns
    <2>2. call' = [call EXCEPT !.pc = "view", !.turn = t]
        BY <1>2
    <2> HIDE DEF t
    <2> QED
        BY <1>1, <1>3, <2>1, <2>2 DEF Calls
<1>8. Protocol' /\ wire' \in Seq(Messages) /\ EndsNamed(wire')
    <2>1. Awaited(call, sweep) \ {"checked"} \subseteq Awaited(call', sweep')
        BY <1>2, <1>3, <1>7 DEF Awaited
    <2> QED
        BY <1>2, <1>6, <1>7, <2>1, CallHears DEF Onward
<1>9. Typed'
    BY <1>1, <1>2, <1>4, <1>5, <1>7, <1>8 DEF Typed, EndsNamed, Starting
<1>10. Shape' /\ Viewed'
    BY <1>2, <1>3, <1>4, <1>6, <1>7 DEF Control, Shape, Viewed, Onward
<1> QED
    BY <1>8, <1>9, <1>10 DEF Control

LEMMA ResumeEndsIs ==
    ASSUME Control, ResumeEnds
    PROVE  /\ native' \in Sessions /\ Sure(native, native') /\ native'.dead = native.dead /\ native'.view.status # "unknown"
           /\ IF call.turn = 0 \/ call.turn \in native.dead
                THEN native'.view.status = "idle"
                ELSE native'.view.status = "active" /\ native'.view.turn = call.turn
<1> DEFINE status == IF call.turn = 0 THEN "idle" ELSE "active"
           turn == call.turn
<1>1. native \in Sessions /\ turn \in Nat /\ status \in Statuses
    BY DEF Control, Typed, Calls, Statuses
<1>2. Fits(native, Token(native))
    BY DEF Fits, Control, Shape, ResumeEnds
<1>3. native' = Refreshed(native, Token(native), status, turn)
    BY DEF ResumeEnds
<1>4. status # "error" /\ status # "unknown" /\ (status = "active" <=> turn # 0) /\ (status # "active" => status = "idle")
    OBVIOUS
<1> HIDE DEF status
<1>5. /\ Sure(native, native') /\ native'.dead = native.dead
      /\ IF status # "active" THEN /\ native'.view.status = status
                                   /\ native'.view.turn = 0
         ELSE IF turn \in native.dead THEN /\ native'.view.status = "idle"
                                           /\ native'.view.turn = 0
         ELSE native'.view.status = "active" /\ native'.view.turn = turn
    BY <1>1, <1>2, <1>3, <1>4, RefreshedIs
<1>6. native.dead \subseteq Turns
    BY <1>1 DEF Sessions
<1>7. native' \in Sessions
    BY <1>5 DEF Sure
<1> QED
    BY <1>4, <1>5, <1>6, <1>7 DEF Turns

LEMMA ResumeEndsControl ==
    ASSUME Control, ResumeEnds
    PROVE  Control'
<1>1. Typed /\ call \in Calls /\ native \in Sessions /\ probes \subseteq Repairs
    BY DEF Control, Typed
<1>2. /\ UNCHANGED <<sdk, host, accepted, interrupt, reqs, wire, up, running, sweep, resumed, cut, trouble, targets, used>>
      /\ call.pc = "view" /\ call' = [call EXCEPT !.pc = "last"] /\ probes' = probes \cup OwnRepair(native')
    BY DEF ResumeEnds, hostVars, historyVars
<1>3. call.op = "resume" /\ up /\ resumed
    BY <1>2 DEF Control, Shape
<1>4. native' \in Sessions /\ Sure(native, native') /\ native'.view.status # "unknown"
    BY ResumeEndsIs
<1>5. Onward(native, native') /\ Sound(native')
    BY <1>4 DEF Sure, Control, Viewed
<1>6. call' \in Calls /\ call'.op = "resume" /\ call'.pc = "last"
    BY <1>1, <1>2, <1>3 DEF Calls
<1>7. probes' \subseteq Repairs /\ Fresh(probes', native', up)
    <2>1. Fresh(probes, native', up)
        BY <1>1, <1>4, FreshAfter DEF Control, Viewed
    <2>2. OwnRepair(native') \subseteq Repairs /\ Fresh(OwnRepair(native'), native', TRUE)
        BY <1>4, OwnRepairIs
    <2>3. up = TRUE
        BY <1>3 DEF Control, Typed
    <2> QED
        BY <1>1, <1>2, <2>1, <2>2, <2>3, FreshBoth
<1>8. Protocol'
    <2>1. Awaited(call, sweep) \subseteq Awaited(call', sweep')
        BY <1>2, <1>3, <1>6 DEF Awaited
    <2> QED
        BY <1>2, <1>5, <1>6, <2>1, CallKeeps DEF Onward
<1>9. Typed'
    BY <1>1, <1>2, <1>4, <1>6, <1>7 DEF Typed, Starting
<1>10. Shape' /\ Viewed'
    BY <1>2, <1>3, <1>4, <1>5, <1>6, <1>7 DEF Control, Shape, Viewed, Onward
<1> QED
    BY <1>8, <1>9, <1>10 DEF Control

LEMMA CallEndsControl ==
    ASSUME Control, CallEnds
    PROVE  Control'
<1>1. Typed
    BY DEF Control
<1>2. UNCHANGED <<sdk, host, accepted, interrupt, reqs, wire, up, running, sweep, resumed, native, probes, cut, trouble, targets, used>>
      /\ call.pc = "last" /\ call' = NoCall
    BY DEF CallEnds, hostVars, historyVars, viewVars
<1>3. Protocol'
    <2>1. Awaited(call, sweep) \subseteq Awaited(call', sweep')
        BY <1>2, NoCallIs DEF Awaited
    <2> QED
        BY <1>2, <2>1, NoCallIs, CallKeeps
<1>4. Typed'
    BY <1>1, <1>2, NoCallIs DEF Typed, Starting
<1>5. Shape' /\ Viewed'
    BY <1>2, NoCallIs DEF Control, Shape, Viewed
<1> QED
    BY <1>3, <1>4, <1>5 DEF Control

-----------------------------------------------------------------------------
(* The connection.                                                         *)
LEMMA InvalidatedIs ==
    ASSUME NEW s \in Sessions
    PROVE  LET n == Invalidated(s)
           IN  /\ n \in Sessions /\ n.dead = {} /\ n.view.ready = FALSE /\ n.view.status = "unknown" /\ n.view.turn = 0
               /\ n.view.gen = s.view.gen
<1> DEFINE a == Apply(s, "unknown", 0)
           w == a.view
           v == [w EXCEPT !.ready = FALSE]
           b == [a EXCEPT !.view = v]
           n == [b EXCEPT !.dead = {}]
<1>1. a \in Sessions /\ w = [ready |-> s.view.ready, status |-> "unknown", turn |-> 0, gen |-> s.view.gen, rev |-> s.view.rev + 1]
    BY ApplyIs DEF Statuses
<1>2. Invalidated(s) = n
    <2>1. Invalidated(s) = [a EXCEPT !.view.ready = FALSE, !.dead = {}]
        BY DEF Invalidated
    <2> HIDE DEF a
    <2> QED
        BY <2>1
<1> HIDE DEF a
<1>3. w \in Views /\ a \in Sessions
    BY <1>1 DEF Sessions
<1>4. w.status = "unknown" /\ w.turn = 0 /\ w.gen = s.view.gen
    BY <1>1
<1> HIDE DEF w
<1>5. v \in Views /\ v.ready = FALSE /\ v.status = "unknown" /\ v.turn = 0 /\ v.gen = s.view.gen
    BY <1>3, <1>4 DEF Views
<1> HIDE DEF v
<1>6. b \in Sessions /\ b.view = v
    BY <1>3, <1>5 DEF Sessions
<1> HIDE DEF b
<1>7. n \in Sessions /\ n.view = v /\ n.dead = {}
    BY <1>6 DEF Sessions
<1> HIDE DEF n
<1> QED
    BY <1>2, <1>5, <1>7

LEMMA RegisteredIs ==
    ASSUME NEW s \in Sessions, NEW gen \in Nat
    PROVE  LET n == Registered(s, gen)
           IN  /\ n \in Sessions /\ n.dead = s.dead
               /\ n.view.ready = TRUE /\ n.view.status = "unknown" /\ n.view.turn = 0 /\ n.view.gen = gen
<1> DEFINE v == [ready |-> TRUE, status |-> "unknown", turn |-> 0, gen |-> gen, rev |-> 0]
<1>1. v \in Views
    BY DEF Views, Statuses
<1>2. Registered(s, gen) = [s EXCEPT !.view = v]
    BY DEF Registered
<1>3. v.ready = TRUE /\ v.status = "unknown" /\ v.turn = 0 /\ v.gen = gen
    OBVIOUS
<1> HIDE DEF v
<1>4. [s EXCEPT !.view = v] \in Sessions /\ [s EXCEPT !.view = v].view = v /\ [s EXCEPT !.view = v].dead = s.dead
    BY <1>1 DEF Sessions
<1> QED
    BY <1>2, <1>3, <1>4

LEMMA OrderlyEmpty ==
    ASSUME NEW waits
    PROVE  Orderly(<<>>, <<>>, {}, waits)
BY DEF Orderly

LEMMA ConnectionLostControl ==
    ASSUME Control, ConnectionLost
    PROVE  Control'
<1>1. Typed /\ native \in Sessions /\ probes \subseteq Repairs /\ used \in Spent /\ cut \subseteq Turns /\ call \in Calls
    BY DEF Control, Typed
<1>2. UNCHANGED <<sdk, host, accepted, interrupt, targets>>
    BY DEF ConnectionLost, hostVars
<1>3. /\ used' = [used EXCEPT !.losses = used.losses + 1]
      /\ up' = FALSE /\ reqs' = <<>> /\ wire' = <<>> /\ running' = <<>> /\ sweep' = FALSE /\ resumed' = FALSE
      /\ native' = Invalidated(native) /\ call' = NoCall
      /\ probes' = {p \in probes : p.pc = "asked"}
      /\ cut' = cut \cup IF call.pc \in {"accept", "held"} THEN {call.turn} ELSE {}
    BY DEF ConnectionLost
<1>4. trouble' \subseteq Troubles
    BY <1>1 DEF ConnectionLost, Trouble, Typed, Troubles
<1>5. cut' \subseteq Turns
    <2>1. call.pc \in {"accept", "held"} => call.turn \in Turns
        BY <1>1 DEF Typed, Calls, Turns, Starting
    <2> QED
        BY <1>1, <1>3, <2>1
<1>6. used' \in Spent
    BY <1>1, <1>3 DEF Spent
<1>7. /\ native' \in Sessions /\ native'.dead = {} /\ native'.view.ready = FALSE /\ native'.view.status = "unknown"
      /\ native'.view.turn = 0 /\ native'.view.gen = native.view.gen
    BY <1>1, <1>3, InvalidatedIs
<1>8. reqs' \in Seq(Requests) /\ wire' \in Seq(Messages) /\ running' \in Seq(Turns) /\ DOMAIN reqs' = {} /\ DOMAIN wire' = {}
    BY <1>3
<1>9. Protocol'
    <2>1. InHand' = {}
        BY <1>3 DEF InHand
    <2> QED
        BY <1>2, <1>3, <1>7, <1>8, <2>1, OrderlyEmpty DEF Protocol, Control
<1>10. Typed'
    BY <1>1, <1>2, <1>3, <1>4, <1>5, <1>6, <1>7, <1>8, NoCallIs DEF Typed, Starting
<1>11. Shape'
    BY <1>3, <1>7, NoCallIs DEF Shape
<1>12. Viewed'
    BY <1>3, <1>7 DEF Viewed, Sound, Fresh
<1> QED
    BY <1>9, <1>10, <1>11, <1>12 DEF Control

LEMMA ReconnectedControl ==
    ASSUME Control, Reconnected
    PROVE  Control'
<1>1. Typed /\ native \in Sessions /\ native.view.gen \in Nat
    BY DEF Control, Typed, Sessions, Views
<1>2. UNCHANGED <<sdk, host, accepted, interrupt, reqs, wire, running, sweep, resumed, probes, call, cut, trouble, targets, used>>
      /\ ~up /\ up' = TRUE /\ native' = Registered(native, native.view.gen + 1)
    BY DEF Reconnected, hostVars, historyVars
<1>3. /\ native' \in Sessions /\ native'.view.ready = TRUE /\ native'.view.status = "unknown"
      /\ native'.view.turn = 0 /\ native'.view.gen = native.view.gen + 1
    <2> DEFINE g == native.view.gen + 1
    <2>1. g \in Nat /\ native' = Registered(native, g)
        BY <1>1, <1>2
    <2> HIDE DEF g
    <2>2. /\ native' \in Sessions /\ native'.view.ready = TRUE /\ native'.view.status = "unknown"
          /\ native'.view.turn = 0 /\ native'.view.gen = g
        BY <1>1, <2>1, RegisteredIs
    <2> QED
        BY <2>2 DEF g
<1>4. reqs = <<>> /\ wire = <<>> /\ ~resumed /\ call.op = "none" /\ call.pc = "none" /\ running = <<>>
    BY <1>2 DEF Control, Shape
<1>5. Protocol'
    <2>1. interrupt.client <= native.view.gen /\ interrupt.client \in Nat
        BY <1>1 DEF Control, Protocol, Typed, Interrupts
    <2>2. interrupt'.client # native'.view.gen /\ interrupt'.client <= native'.view.gen
        BY <1>1, <1>2, <1>3, <2>1
    <2>3. InHand' = {}
        BY <2>2 DEF InHand
    <2>4. reqs' = <<>> /\ wire' = <<>> /\ DOMAIN reqs' = {} /\ DOMAIN wire' = {}
        BY <1>2, <1>4
    <2> QED
        BY <2>2, <2>3, <2>4, OrderlyEmpty DEF Protocol
<1>6. Typed'
    BY <1>1, <1>2, <1>3 DEF Typed
<1>7. Shape'
    BY <1>2, <1>3 DEF Shape, Control
<1>8. Viewed'
    <2>1. Fresh(probes', native', up')
        BY <1>2 DEF Fresh, Control, Viewed
    <2> QED
        BY <1>2, <1>3, <1>4, <2>1 DEF Viewed, Sound
<1> QED
    BY <1>5, <1>6, <1>7, <1>8 DEF Control

-----------------------------------------------------------------------------
LEMMA InitControl ==
    ASSUME Init
    PROVE  Control
<1>1. sdk \in Processes /\ host \in Hosts /\ host.inFlight = <<>>
    BY DEF Init, Process, Session, Processes, Hosts
<1>2. interrupt \in Interrupts /\ interrupt.pc = "none" /\ interrupt.client = 0
    <2>1. Interrupting(Session) \in [of : Nat, outstanding : BOOLEAN, candidates : SUBSET Turns]
        BY DEF Interrupting, Session, AbortInFlight, ToSet
    <2> QED
        BY <2>1 DEF Init, NoInterrupt, Interrupts
<1>3. /\ native \in Sessions /\ native.view.ready = TRUE /\ native.view.status = "idle" /\ native.view.turn = 0
      /\ native.dead = {} /\ native.view.gen = 1
    <2> DEFINE v == [ready |-> TRUE, status |-> "idle", turn |-> 0, gen |-> 1, rev |-> 0]
    <2>1. v \in Views /\ v.ready = TRUE /\ v.status = "idle" /\ v.turn = 0 /\ v.gen = 1
        BY DEF Views, Statuses
    <2>2. native = [view |-> v, dead |-> {}, asked |-> {}]
        BY DEF Init
    <2> HIDE DEF v
    <2> QED
        BY <2>1, <2>2 DEF Sessions
<1>4. used \in Spent
    BY DEF Init, Spent
<1>5. /\ accepted = {} /\ reqs = <<>> /\ wire = <<>> /\ up = TRUE /\ running = <<>> /\ sweep = FALSE /\ resumed = TRUE
      /\ probes = {} /\ call = NoCall /\ cut = {} /\ trouble = {} /\ targets = {}
      /\ DOMAIN reqs = {} /\ DOMAIN wire = {}
    BY DEF Init
<1>6. reqs \in Seq(Requests) /\ wire \in Seq(Messages) /\ running \in Seq(Turns)
    BY <1>5
<1>7. Typed
    BY <1>1, <1>2, <1>3, <1>4, <1>5, <1>6, NoCallIs DEF Typed, Starting
<1>8. Protocol
    <2>1. InHand = {}
        BY <1>2 DEF InHand
    <2> QED
        BY <1>2, <1>3, <1>5, <2>1, OrderlyEmpty DEF Protocol
<1>9. Shape
    BY <1>3, <1>5, NoCallIs DEF Shape
<1>10. Viewed
    BY <1>3, <1>5 DEF Viewed, Sound, Fresh
<1> QED
    BY <1>7, <1>8, <1>9, <1>10 DEF Control

LEMMA StutterControl ==
    ASSUME Control, UNCHANGED vars
    PROVE  Control'
<1>1. UNCHANGED <<sdk, host, accepted, interrupt, reqs, wire, up, running, sweep, resumed, native, probes, call, cut, trouble, targets, used>>
    BY DEF vars, hostVars, viewVars, historyVars
<1>2. Typed'
    BY <1>1 DEF Control, Typed
<1>3. Protocol'
    BY <1>1 DEF Control, Protocol, InHand
<1>4. Shape' /\ Viewed'
    BY <1>1 DEF Control, Shape, Viewed
<1> QED
    BY <1>2, <1>3, <1>4 DEF Control

LEMMA NextControl ==
    ASSUME Control, [Next]_vars
    PROVE  Control'
<1>1. CASE SdkFolds \/ SdkSucceeds \/ SdkAborts
    BY <1>1, SdkFoldsControl, SdkSucceedsControl, SdkAbortsControl
<1>2. CASE HostReadsResult \/ HostReadsReceipt \/ HostServes
    BY <1>2, HostReadsResultControl, HostReadsReceiptControl, HostServesControl
<1>3. CASE HostEvent \/ SweepBegins \/ SweepEnds
    BY <1>3, HostEventControl, SweepBeginsControl, SweepEndsControl
<1>4. CASE Probe
    <2>1. PICK p \in probes : ProbeBegins(p) \/ ProbeEnds(p)
        BY <1>4 DEF Probe
    <2> QED
        BY <2>1, ProbeBeginsControl, ProbeEndsControl
<1>5. CASE SendBegins \/ SendChooses \/ ModelSet \/ ModelFails
    BY <1>5, SendBeginsControl, SendChoosesControl, ModelSetControl, ModelFailsControl
<1>6. CASE Accepted \/ Duplicate \/ DuplicateReturns
    BY <1>6, AcceptedControl, DuplicateControl, DuplicateReturnsControl
<1>7. CASE InterruptBegins \/ InterruptEnds \/ CallEnds
    BY <1>7, InterruptBeginsControl, InterruptEndsControl, CallEndsControl
<1>8. CASE ResumeBegins \/ ResumeRecovers \/ ResumeChecks \/ ResumeEnds
    BY <1>8, ResumeBeginsControl, ResumeRecoversControl, ResumeChecksControl, ResumeEndsControl
<1>9. CASE ConnectionLost \/ Reconnected
    BY <1>9, ConnectionLostControl, ReconnectedControl
<1>10. CASE UNCHANGED vars
    BY <1>10, StutterControl
<1> QED
    BY <1>1, <1>2, <1>3, <1>4, <1>5, <1>6, <1>7, <1>8, <1>9, <1>10 DEF Next

\* Requests, answers and calls stay in step: an answer is on its way only to the
\* one call, or to the sweep, that waits for it, a repair reads a view that only
\* moved on under revisions of its own, and every value has its type
\* (endpoints/claude-runtime.ts over the host's connection, sessions/service.ts).
THEOREM StaysInControl == Spec => []Control
<1>1. Init => Control
    BY InitControl
<1>2. Control /\ [Next]_vars => Control'
    BY NextControl
<1> QED
    BY <1>1, <1>2, PTL DEF Spec

-----------------------------------------------------------------------------
(* The process over a step.                                                *)
LEMMA FedIs ==
    ASSUME NEW s \in Processes, NEW t \in Turns
    PROVE  /\ Fed(s, t).results = s.results /\ Has(Fed(s, t)) = Has(s) \cup {t}
           /\ s.run = 0 => Fed(s, t).run = t /\ Fed(s, t).queue = s.queue
           /\ s.run # 0 => Fed(s, t).run = s.run /\ Fed(s, t).queue = Append(s.queue, t)
<1>1. s.queue \in Seq(Turns) /\ t # 0
    BY DEF Processes, Turns
<1>2. /\ Fed(s, t).results = s.results
      /\ s.run = 0 => Fed(s, t).run = t /\ Fed(s, t).queue = s.queue
      /\ s.run # 0 => Fed(s, t).run = s.run /\ Fed(s, t).queue = Append(s.queue, t)
    BY DEF Fed, Processes
<1>3. ToSet(Append(s.queue, t)) = ToSet(s.queue) \cup {t}
    BY <1>1, AppendFacts
<1> HIDE DEF Turns
<1>4. Has(Fed(s, t)) = Has(s) \cup {t}
    BY <1>1, <1>2, <1>3 DEF Has, Queued
<1> QED
    BY <1>2, <1>4

LEMMA FoldedIs ==
    ASSUME NEW s \in Processes, s.queue # <<>>
    PROVE  /\ Folded(s).results = s.results /\ Folded(s).run = s.run /\ Folded(s).queue = Tail(s.queue)
           /\ Has(Folded(s)) \subseteq Has(s) /\ Queued(Folded(s)) \subseteq Queued(s)
<1>1. Folded(s).results = s.results /\ Folded(s).run = s.run /\ Folded(s).queue = Tail(s.queue)
    BY DEF Folded, Processes
<1>2. ToSet(Tail(s.queue)) \subseteq ToSet(s.queue)
    BY TailFacts DEF Processes
<1> QED
    BY <1>1, <1>2 DEF Has, Queued

LEMMA SucceededIs ==
    ASSUME NEW s \in Processes
    PROVE  /\ Succeeded(s).run = 0 /\ Succeeded(s).queue = <<>> /\ Succeeded(s).results = Append(s.results, s.run)
           /\ Queued(Succeeded(s)) = {} /\ Has(Succeeded(s)) = {}
BY DEF Succeeded, Has, Queued, ToSet

LEMMA AbortedHas ==
    ASSUME sdk \in Processes
    PROVE  /\ Has(Aborted(sdk)) \subseteq Has(sdk)
           /\ sdk.run # 0 => Has(Aborted(sdk)) = Queued(sdk) \ {0} /\ Queued(Aborted(sdk)) \subseteq Queued(sdk)
<1>1. sdk.queue \in Seq(Turns)
    BY DEF Processes
<1>2. CASE sdk.run = 0
    BY <1>2, AbortedIs
<1>3. CASE sdk.run # 0 /\ sdk.queue = <<>>
    <2>1. Aborted(sdk).run = 0 /\ Aborted(sdk).queue = <<>> /\ ToSet(sdk.queue) = {}
        BY <1>3, AbortedIs DEF ToSet
    <2> QED
        BY <1>3, <2>1 DEF Has, Queued, ToSet
<1>4. CASE sdk.run # 0 /\ sdk.queue # <<>>
    <2>1. Aborted(sdk).run = sdk.queue[1] /\ Aborted(sdk).queue = Tail(sdk.queue)
        BY <1>4, AbortedIs
    <2>2. ToSet(Tail(sdk.queue)) \subseteq ToSet(sdk.queue) /\ ToSet(sdk.queue) = ToSet(Tail(sdk.queue)) \cup {sdk.queue[1]}
        BY <1>1, <1>4, TailFacts
    <2> QED
        BY <1>4, <2>1, <2>2 DEF Has, Queued
<1> QED
    BY <1>2, <1>3, <1>4

LEMMA NextRunsOnce ==
    ASSUME Control, [Next]_vars
    PROVE  Has(sdk') \subseteq Has(sdk) \cup (accepted' \ accepted)
<1>1. sdk \in Processes /\ reqs \in Seq(Requests)
    BY DEF Control, Typed
<1>2. CASE SdkFolds
    BY <1>1, <1>2, FoldedIs DEF SdkFolds
<1>3. CASE SdkSucceeds
    BY <1>1, <1>3, SucceededIs DEF SdkSucceeds
<1>4. CASE SdkAborts
    BY <1>1, <1>4, AbortedHas DEF SdkAborts
<1>5. CASE HostReadsResult
    BY <1>1, <1>5 DEF HostReadsResult, Has, Queued, Processes
<1>6. CASE HostServes
    <2> DEFINE t == Head(reqs).turn
    <2>1. CASE Head(reqs).kind = "send" /\ ServeSend(t) /\ Accepts(accepted, t)
        <3>1. 1 \in DOMAIN reqs /\ Head(reqs) = reqs[1] /\ reqs[1] \in Requests /\ reqs[1].turn # 0
            BY <1>1, <1>6, <2>1 DEF HostServes, Control, Typed
        <3>2. t \in Turns
            BY <3>1 DEF Requests, Turns
        <3>3. sdk' = Fed(sdk, t) /\ accepted' = accepted \cup {t} /\ t \notin accepted
            BY <2>1 DEF ServeSend, Accepts
        <3> HIDE DEF t
        <3> QED
            BY <1>1, <3>2, <3>3, FedIs
    <2>2. CASE sdk' = sdk
        BY <2>2
    <2> QED
        BY <1>6, <2>1, <2>2 DEF HostServes, ServeSend, ServeInterrupt, ServeStatus, hostVars
<1>7. CASE UNCHANGED sdk
    BY <1>7
<1> QED
    BY <1>2, <1>3, <1>4, <1>5, <1>6, <1>7 DEF Next, HostReadsReceipt, HostEvent, Probe, ProbeBegins, ProbeEnds, SweepBegins, SweepEnds,
       SendBegins, SendChooses, ModelSet, ModelFails, Accepted, Duplicate, DuplicateReturns, InterruptBegins, InterruptEnds,
       ResumeBegins, ResumeRecovers, ResumeChecks, ResumeEnds, CallEnds, ConnectionLost, Reconnected, hostVars, vars

\* The process takes up no message but one that the host has not accepted before
\* (claude-host/session.ts send, acceptedUuids), over whatever connection and
\* however often it is sent.
THEOREM MessagesRunOnce == Spec => RunsOnce
<1>1. Control /\ [Next]_vars => [Has(sdk') \subseteq Has(sdk) \cup (accepted' \ accepted)]_vars
    BY NextRunsOnce
<1> QED
    BY <1>1, StaysInControl, PTL DEF Spec, RunsOnce

-----------------------------------------------------------------------------
(* Host and process in step.                                               *)
(*                                                                         *)
(* The result of an abort is read first, and is that of the head of what   *)
(* is in flight; the turn that runs, or whose result is read last, comes   *)
(* next, before all that the process has queued.                           *)
ZeroUnread(s) == s.results # <<>> /\ s.results[1] = 0
Named(s) == IF s.results = <<>> THEN 0 ELSE s.results[Len(s.results)]
Top(s) == IF s.run # 0 THEN s.run ELSE Named(s)

\* What the receipt of an interrupt will settle, and what stays in flight after
\* that and after the result of an abort.
Left(h, i) == IF i.pc = "told" THEN FoldedAcross(h, i.asked, i.survivors) ELSE {}
Rest(s, h, i) == ToSet(h.inFlight) \ (Left(h, i) \cup IF ZeroUnread(s) THEN {h.inFlight[1]} ELSE {})

Within(s, h, acc) ==
    /\ Distinct(h.inFlight) /\ Distinct(s.queue) /\ s.run \notin Queued(s)
    /\ Has(s) \subseteq ToSet(h.inFlight) /\ ToSet(h.inFlight) \subseteq acc /\ h.aborting \in acc \cup {0}
    /\ s.run = 0 => s.queue = <<>>

Results(s) ==
    /\ Len(s.results) <= 2
    /\ Len(s.results) = 2 => s.results[1] = 0 /\ s.results[2] # 0
    /\ Named(s) # 0 => s.run = 0

Unread(s, h) ==
    ZeroUnread(s) => /\ h.inFlight # <<>> /\ h.inFlight[1] \notin Has(s) /\ h.inFlight[1] # Named(s)
                     /\ h.aborting = h.inFlight[1]

Ordered(s, h, i) ==
    /\ Top(s) # 0 => Top(s) \in Rest(s, h, i) /\ \A x \in Rest(s, h, i) \ {Top(s)} : Before(h.inFlight, Top(s), x)
    /\ Top(s) = 0 => Rest(s, h, i) = {}
    /\ \A x, y \in Queued(s) : Before(s.queue, x, y) => Before(h.inFlight, x, y)

\* An interrupt names the turn that runs, or none; what it settles is not what
\* the process still has.
Spared(s, h, i) ==
    /\ Left(h, i) \cap Has(s) = {}
    /\ ZeroUnread(s) => h.inFlight[1] \notin Left(h, i)
    /\ i.pc = "asked" =>
         /\ ~ZeroUnread(s)
         /\ s.run # 0 => ~i.asked.outstanding /\ i.asked.of = s.run /\ ToSet(h.inFlight) \subseteq i.asked.candidates
         /\ Named(s) # 0 => i.asked.outstanding \/ i.asked.of = Named(s)
    /\ i.pc # "none" /\ i.asked.of # 0 => h.aborting = i.asked.of
    /\ i.pc # "asked" /\ ~ZeroUnread(s) /\ h.aborting \in ToSet(h.inFlight) => s.run = 0

InStep(s, h, acc, i) == Within(s, h, acc) /\ Results(s) /\ Unread(s, h) /\ Ordered(s, h, i) /\ Spared(s, h, i)

LEMMA HeadOfAll ==
    ASSUME NEW f \in Seq(Turns), NEW top \in ToSet(f), Distinct(f), \A x \in ToSet(f) \ {top} : Before(f, top, x)
    PROVE  f # <<>> /\ f[1] = top
<1>1. f # <<>>
    BY ToSetOf
<1>2. f[1] \in ToSet(f)
    BY <1>1, ToSetOf
<1>3. ~Before(f, top, f[1])
    BY <1>1, OrderFacts
<1> QED
    BY <1>1, <1>2, <1>3

\* Without a result that names a turn, nothing or the result of an abort is read.
LEMMA ResultsAre ==
    ASSUME NEW s \in Processes, Results(s)
    PROVE  /\ s.results \in Seq(Nat) /\ Len(s.results) \in 0..2 /\ (s.results = <<>> <=> Len(s.results) = 0)
           /\ Named(s) = 0 => IF ZeroUnread(s) THEN Len(s.results) = 1 /\ s.results[1] = 0 ELSE s.results = <<>>
           /\ Named(s) # 0 /\ ZeroUnread(s) => Len(s.results) = 2 /\ s.results[2] = Named(s)
           /\ Named(s) # 0 /\ ~ZeroUnread(s) => Len(s.results) = 1 /\ s.results[1] = Named(s)
<1>1. s.results \in Seq(Nat) /\ Len(s.results) \in Nat /\ (s.results = <<>> <=> Len(s.results) = 0)
    BY DEF Processes
<1>2. Len(s.results) \in 0..2
    <2>1. Len(s.results) <= 2
        BY DEF Results
    <2> DEFINE k == Len(s.results)
    <2>2. k \in Nat /\ k <= 2
        BY <1>1, <2>1
    <2> HIDE DEF k
    <2>3. k \in 0..2
        BY <2>2
    <2> QED
        BY <2>3 DEF k
<1>3. CASE Len(s.results) = 0
    BY <1>1, <1>3 DEF Named, ZeroUnread
<1>4. CASE Len(s.results) = 1
    BY <1>1, <1>4 DEF Named, ZeroUnread
<1>5. CASE Len(s.results) = 2
    BY <1>1, <1>5 DEF Named, ZeroUnread, Results
<1> QED
    BY <1>1, <1>2, <1>3, <1>4, <1>5

LEMMA FoldsInStep ==
    ASSUME NEW s \in Processes, NEW h \in Hosts, NEW acc \in SUBSET Turns, NEW i \in Interrupts,
           InStep(s, h, acc, i), s.run # 0, s.queue # <<>>
    PROVE  InStep(Folded(s), h, acc, i)
<1> DEFINE n == Folded(s)
<1>1. n.results = s.results /\ n.run = s.run /\ n.queue = Tail(s.queue) /\ Has(n) \subseteq Has(s) /\ Queued(n) \subseteq Queued(s)
    BY FoldedIs
<1>2. s.queue \in Seq(Turns)
    BY DEF Processes
<1>3. Distinct(s.queue) => Distinct(n.queue)
    BY <1>1, <1>2, TailFacts
<1>4. \A x, y : Before(n.queue, x, y) => Before(s.queue, x, y)
    BY <1>1, <1>2, TailFacts
<1> HIDE DEF n
<1>5. ZeroUnread(n) = ZeroUnread(s) /\ Named(n) = Named(s) /\ Top(n) = Top(s)
    BY <1>1 DEF ZeroUnread, Named, Top
<1>6. Rest(n, h, i) = Rest(s, h, i)
    BY <1>5 DEF Rest
<1>7. Within(n, h, acc)
    BY <1>1, <1>3 DEF InStep, Within
<1>8. Results(n) /\ Unread(n, h)
    BY <1>1, <1>5 DEF InStep, Results, Unread
<1>9. Ordered(n, h, i)
    BY <1>1, <1>4, <1>5, <1>6 DEF InStep, Ordered
<1>10. Spared(n, h, i)
    BY <1>1, <1>5 DEF InStep, Spared
<1> QED
    BY <1>7, <1>8, <1>9, <1>10 DEF InStep, n

LEMMA SucceedsInStep ==
    ASSUME NEW s \in Processes, NEW h \in Hosts, NEW acc \in SUBSET Turns, NEW i \in Interrupts,
           InStep(s, h, acc, i), s.run # 0
    PROVE  InStep(Succeeded(s), h, acc, i) /\ ZeroUnread(Succeeded(s)) = ZeroUnread(s)
<1> DEFINE n == Succeeded(s)
<1>1. n.run = 0 /\ n.queue = <<>> /\ n.results = Append(s.results, s.run) /\ Queued(n) = {} /\ Has(n) = {}
    BY SucceededIs
<1>2. Results(s) /\ Named(s) = 0 /\ s.run \in Nat /\ s.run \in Has(s)
    BY DEF InStep, Results, Processes, Has
<1>3. s.results \in Seq(Nat) /\ IF ZeroUnread(s) THEN Len(s.results) = 1 /\ s.results[1] = 0 ELSE s.results = <<>>
    BY <1>2, ResultsAre
<1> HIDE DEF n
<1>4. ZeroUnread(n) = ZeroUnread(s) /\ Named(n) = s.run /\ Len(n.results) <= 2
      /\ (Len(n.results) = 2 => n.results[1] = 0 /\ n.results[2] = s.run)
    <2>1. CASE ZeroUnread(s)
        BY <1>1, <1>2, <1>3, <2>1 DEF ZeroUnread, Named
    <2>2. CASE ~ZeroUnread(s)
        BY <1>1, <1>2, <1>3, <2>2 DEF ZeroUnread, Named
    <2> QED
        BY <2>1, <2>2
<1>5. Top(n) = s.run /\ Top(s) = s.run /\ Rest(n, h, i) = Rest(s, h, i)
    BY <1>1, <1>4 DEF Top, Rest
<1>6. Within(n, h, acc)
    BY <1>1 DEF InStep, Within, Distinct
<1>7. Results(n) /\ Unread(n, h)
    BY <1>1, <1>2, <1>4 DEF InStep, Results, Unread
<1>8. Ordered(n, h, i)
    BY <1>1, <1>2, <1>5 DEF InStep, Ordered
<1>9. Spared(n, h, i)
    BY <1>1, <1>4 DEF InStep, Spared
<1> QED
    BY <1>4, <1>6, <1>7, <1>8, <1>9 DEF InStep, n

LEMMA AbortsInStep ==
    ASSUME sdk \in Processes, NEW h \in Hosts, NEW acc \in SUBSET Turns, NEW i \in Interrupts, NEW j \in Interrupts,
           InStep(sdk, h, acc, i), i.pc = "asked", j.pc = "told", j.asked = i.asked, j.survivors = Queued(sdk)
    PROVE  InStep(Aborted(sdk), h, acc, j)
<1> DEFINE n == Aborted(sdk)
           f == h.inFlight
<1>1. f \in Seq(Turns) /\ sdk.queue \in Seq(Turns) /\ sdk.run \in Nat /\ sdk.results \in Seq(Nat)
    BY DEF Processes, Hosts
<1>2. Left(h, i) = {} /\ Left(h, j) = FoldedAcross(h, i.asked, Queued(sdk)) /\ ~ZeroUnread(sdk)
    BY DEF Left, InStep, Spared
<1>3. Rest(sdk, h, i) = ToSet(f)
    BY <1>2 DEF Rest
<1>4. Within(sdk, h, acc) /\ Results(sdk) /\ Ordered(sdk, h, i) /\ Spared(sdk, h, i)
    BY DEF InStep
<1>5. CASE sdk.run = 0
    <2>1. n = sdk /\ sdk.queue = <<>> /\ Queued(sdk) = {} /\ Has(sdk) = {}
        BY <1>4, <1>5, AbortedIs DEF Within, Has, Queued, ToSet
    <2>2. Rest(sdk, h, j) = ToSet(f) \ Left(h, j)
        BY <1>2 DEF Rest
    <2>3. Top(sdk) # 0 => Top(sdk) \notin Left(h, j)
        BY <1>2, <1>4, <1>5 DEF Top, FoldedAcross, Spared
    <2>4. Ordered(sdk, h, j)
        BY <1>3, <1>4, <2>1, <2>2, <2>3 DEF Ordered
    <2>5. Spared(sdk, h, j)
        BY <1>2, <1>4, <1>5, <2>1 DEF Spared
    <2> QED
        BY <1>4, <2>1, <2>4, <2>5 DEF InStep
<1>6. CASE sdk.run # 0
    <2>1. Named(sdk) = 0 /\ sdk.results = <<>>
        BY <1>2, <1>4, <1>6, ResultsAre DEF Results
    <2>2. /\ n.results = <<0>> /\ n \in Processes
          /\ sdk.queue = <<>> => n.run = 0 /\ n.queue = <<>>
          /\ sdk.queue # <<>> => n.run = sdk.queue[1] /\ n.queue = Tail(sdk.queue)
        BY <1>6, <2>1, AbortedIs
    <2>3. ZeroUnread(n) /\ Named(n) = 0 /\ Len(n.results) = 1 /\ Top(n) = n.run
        BY <2>2 DEF ZeroUnread, Named, Top, Processes
    <2>4. ~i.asked.outstanding /\ i.asked.of = sdk.run /\ ToSet(f) \subseteq i.asked.candidates
        BY <1>4, <1>6 DEF Spared
    <2>5. sdk.run \in ToSet(f) /\ \A x \in ToSet(f) \ {sdk.run} : Before(f, sdk.run, x)
        BY <1>3, <1>4, <1>6 DEF Ordered, Top
    <2>6. f # <<>> /\ f[1] = sdk.run
        BY <1>1, <1>4, <2>5, HeadOfAll DEF Within
    <2>7. Left(h, j) = ToSet(f) \ (Queued(sdk) \cup {sdk.run})
        BY <1>2, <2>4 DEF FoldedAcross
    <2>8. Queued(sdk) \subseteq ToSet(f) /\ sdk.run \notin Queued(sdk) /\ 0 \notin Queued(sdk)
        <3>1. Queued(sdk) \subseteq Turns
            BY <1>1, ToSetOf DEF Queued
        <3> QED
            BY <1>4, <3>1 DEF Within, Has, Turns
    <2>9. Rest(n, h, j) = Queued(sdk)
        BY <2>3, <2>6, <2>7, <2>8 DEF Rest
    <2>10. Has(n) = Queued(sdk) /\ Queued(n) \subseteq Queued(sdk)
        BY <1>6, <2>8, AbortedHas
    <2>11. /\ Distinct(n.queue) /\ n.run \notin Queued(n) /\ (n.run = 0 => n.queue = <<>>)
           /\ \A x, y : Before(n.queue, x, y) => Before(sdk.queue, x, y)
           /\ n.run = 0 => Queued(sdk) = {}
           /\ n.run # 0 => n.run \in Queued(sdk) /\ \A x \in Queued(sdk) \ {n.run} : Before(sdk.queue, n.run, x)
        <3>1. CASE sdk.queue = <<>>
            BY <2>2, <3>1 DEF Distinct, Queued, ToSet, Before
        <3>2. CASE sdk.queue # <<>>
            <4>1. Distinct(sdk.queue)
                BY <1>4 DEF Within
            <4>2. /\ Distinct(n.queue) /\ ToSet(n.queue) = ToSet(sdk.queue) \ {sdk.queue[1]}
                  /\ \A x, y : Before(n.queue, x, y) => Before(sdk.queue, x, y)
                BY <1>1, <2>2, <3>2, <4>1, TailFacts
            <4>3. sdk.queue[1] \in ToSet(sdk.queue) /\ sdk.queue[1] # 0
                BY <1>1, <2>8, <3>2, ToSetOf DEF Queued
            <4>4. \A x \in ToSet(sdk.queue) : x # sdk.queue[1] => Before(sdk.queue, sdk.queue[1], x)
                BY <1>1, <3>2, <4>1, OrderFacts
            <4> QED
                BY <2>2, <3>2, <4>2, <4>3, <4>4 DEF Queued
        <3> QED
            BY <3>1, <3>2
    <2> HIDE DEF n
    <2>12. Within(n, h, acc)
        BY <1>4, <2>8, <2>10, <2>11 DEF Within
    <2>13. Results(n)
        BY <2>3 DEF Results
    <2>14. Unread(n, h)
        BY <1>4, <1>6, <2>3, <2>4, <2>6, <2>8, <2>10 DEF Unread, Spared
    <2>15. Ordered(n, h, j)
        <3>1. \A x, y \in Queued(sdk) : Before(sdk.queue, x, y) => Before(f, x, y)
            BY <1>4 DEF Ordered
        <3> QED
            BY <2>3, <2>9, <2>10, <2>11, <3>1 DEF Ordered
    <2>16. Spared(n, h, j)
        BY <1>4, <2>3, <2>6, <2>7, <2>8, <2>10 DEF Spared
    <2> QED
        BY <2>12, <2>13, <2>14, <2>15, <2>16 DEF InStep, n
<1> QED
    BY <1>5, <1>6

\* What an interrupt's receipt leaves: the folded turns have left, and the head has not.
ReceiptKeeps(s, h, acc, i, g, j) ==
    /\ InStep(s, g, acc, j) /\ ToSet(g.inFlight) = ToSet(h.inFlight) \ Left(h, i)
    /\ ZeroUnread(s) => g.inFlight # <<>> /\ g.inFlight[1] = h.inFlight[1]

LEMMA ReceiptInStep ==
    ASSUME NEW s \in Processes, NEW h \in Hosts, NEW acc \in SUBSET Turns, NEW i \in Interrupts,
           NEW g \in Hosts, NEW j \in Interrupts,
           InStep(s, h, acc, i), i.pc = "told", j.pc = "none",
           g.aborting = h.aborting, g.inFlight = Only(h.inFlight, ToSet(h.inFlight) \ Left(h, i))
    PROVE  ReceiptKeeps(s, h, acc, i, g, j)
<1> SUFFICES /\ InStep(s, g, acc, j) /\ ToSet(g.inFlight) = ToSet(h.inFlight) \ Left(h, i)
             /\ ZeroUnread(s) => g.inFlight # <<>> /\ g.inFlight[1] = h.inFlight[1]
    BY DEF ReceiptKeeps
<1> DEFINE f == h.inFlight
           l == Left(h, i)
<1>1. f \in Seq(Turns) /\ Within(s, h, acc) /\ Results(s) /\ Unread(s, h) /\ Ordered(s, h, i) /\ Spared(s, h, i)
    BY DEF InStep, Hosts
<1>2. /\ ToSet(g.inFlight) = ToSet(f) \ l /\ Distinct(g.inFlight)
      /\ \A x, y : Before(g.inFlight, x, y) <=> x \in ToSet(f) \ l /\ y \in ToSet(f) \ l /\ Before(f, x, y)
    <2>1. Distinct(f)
        BY <1>1 DEF Within
    <2> DEFINE S == ToSet(f) \ l
    <2>2. ToSet(f) \cap S = S
        OBVIOUS
    <2>3. g.inFlight = Only(f, S)
        OBVIOUS
    <2> HIDE DEF S, f
    <2>4. ToSet(g.inFlight) = S /\ Distinct(g.inFlight)
          /\ \A x, y : Before(g.inFlight, x, y) <=> x \in S /\ y \in S /\ Before(f, x, y)
        <3>1. f \in Seq(Turns)
            BY <1>1
        <3>2. /\ ToSet(Only(f, S)) = ToSet(f) \cap S /\ Distinct(Only(f, S))
              /\ \A x, y : Before(Only(f, S), x, y) <=> x \in S /\ y \in S /\ Before(f, x, y)
            BY <2>1, <3>1, OnlyFacts
        <3> QED
            BY <2>2, <2>3, <3>2
    <2> QED
        BY <2>4 DEF S
<1>3. ASSUME ZeroUnread(s) PROVE g.inFlight # <<>> /\ g.inFlight[1] = f[1] /\ f[1] \notin l
    <2>1. f # <<>> /\ f[1] \notin l
        BY <1>1, <1>3 DEF Unread, Spared
    <2>2. f[1] \in ToSet(f) \ l /\ Distinct(f)
        BY <1>1, <2>1, ToSetOf DEF Within
    <2> QED
        BY <1>1, <2>1, <2>2, OnlyHead
<1> HIDE DEF l
<1>4. Left(g, j) = {} /\ Rest(s, g, j) = Rest(s, h, i)
    <2>1. Left(g, j) = {}
        BY DEF Left
    <2>2. Rest(s, g, j) = Rest(s, h, i)
        BY <1>2, <1>3, <2>1 DEF Rest, l
    <2> QED
        BY <2>1, <2>2
<1>5. l \cap Has(s) = {}
    BY <1>1 DEF Spared, l
<1>6. Within(s, g, acc)
    BY <1>1, <1>2, <1>5 DEF Within
<1>7. Unread(s, g)
    BY <1>1, <1>3 DEF Unread
<1>8. Ordered(s, g, j)
    <2>1. Rest(s, h, i) \subseteq ToSet(f) \ l
        BY DEF Rest, l
    <2>2. Queued(s) \ {0} \subseteq ToSet(f) \ l
        BY <1>1, <1>5 DEF Within, Has
    <2>3. 0 \notin Queued(s)
        <3>1. Queued(s) \subseteq Turns
            BY ToSetOf DEF Queued, Processes
        <3> QED
            BY <3>1 DEF Turns
    <2> QED
        BY <1>1, <1>2, <1>4, <2>1, <2>2, <2>3 DEF Ordered
<1>9. Spared(s, g, j)
    BY <1>1, <1>2, <1>3, <1>4 DEF Spared
<1> QED
    BY <1>1, <1>2, <1>3, <1>6, <1>7, <1>8, <1>9 DEF InStep, l

LEMMA NotZeroQueued ==
    ASSUME NEW s \in Processes
    PROVE  0 \notin Queued(s) /\ Queued(s) \subseteq Turns /\ Queued(s) \subseteq Has(s) /\ (s.run # 0 => s.run \in Has(s))
           /\ Has(s) \subseteq Turns
<1>1. Queued(s) \subseteq Turns
    BY ToSetOf DEF Queued, Processes
<1>2. s.run \in Nat
    BY DEF Processes
<1> QED
    BY <1>1, <1>2 DEF Turns, Has

LEMMA ToSetOne ==
    ASSUME NEW x
    PROVE  ToSet(<<x>>) = {x}
BY DEF ToSet

LEMMA AtMostOne ==
    ASSUME NEW k, k = 0 \/ k = 1
    PROVE  k <= 1 /\ k <= 2 /\ k # 2
OBVIOUS

\* What stays of a sequence without repetitions.
LEMMA OnlyPart ==
    ASSUME NEW f \in Seq(Turns), Distinct(f), NEW S \in SUBSET ToSet(f)
    PROVE  /\ Only(f, S) \in Seq(Turns) /\ ToSet(Only(f, S)) = S /\ Distinct(Only(f, S))
           /\ \A x, y : Before(Only(f, S), x, y) <=> x \in S /\ y \in S /\ Before(f, x, y)
<1>1. ToSet(f) \cap S = S
    OBVIOUS
<1>2. /\ Only(f, S) \in Seq(Turns) /\ ToSet(Only(f, S)) = ToSet(f) \cap S /\ Distinct(Only(f, S))
      /\ \A x, y : Before(Only(f, S), x, y) <=> x \in S /\ y \in S /\ Before(f, x, y)
    BY OnlyFacts
<1> QED
    BY <1>1, <1>2

\* What reading a result leaves: the steps still fit, and the head the result named has left.
ReadKeeps(s, h, acc, i, n, g) ==
    /\ InStep(n, g, acc, i) /\ ~ZeroUnread(n)
    /\ s.results[1] = 0 => /\ h.inFlight # <<>> /\ ToSet(Ends(h, s.results[1])) = {h.inFlight[1]}
                           /\ i.pc # "asked"
    /\ s.results[1] # 0 => s.run = 0 /\ ~ZeroUnread(s)
    /\ ToSet(g.inFlight) = ToSet(h.inFlight) \ ToSet(Ends(h, s.results[1]))
    /\ \A x, y : Before(g.inFlight, x, y) => Before(h.inFlight, x, y)
    /\ \A x, y \in ToSet(g.inFlight) : Before(h.inFlight, x, y) => Before(g.inFlight, x, y)

LEMMA ReadsInStep ==
    ASSUME NEW s \in Processes, NEW h \in Hosts, NEW acc \in SUBSET Turns, NEW i \in Interrupts,
           NEW n \in Processes, NEW g \in Hosts, InStep(s, h, acc, i), s.results # <<>>,
           n.run = s.run, n.queue = s.queue, n.results = Tail(s.results), g = AfterResult(h, s.results[1])
    PROVE  ReadKeeps(s, h, acc, i, n, g)
<1> SUFFICES /\ InStep(n, g, acc, i) /\ ~ZeroUnread(n)
             /\ s.results[1] = 0 => /\ h.inFlight # <<>> /\ ToSet(Ends(h, s.results[1])) = {h.inFlight[1]}
                                    /\ i.pc # "asked"
             /\ s.results[1] # 0 => s.run = 0 /\ ~ZeroUnread(s)
             /\ ToSet(g.inFlight) = ToSet(h.inFlight) \ ToSet(Ends(h, s.results[1]))
             /\ \A x, y : Before(g.inFlight, x, y) => Before(h.inFlight, x, y)
             /\ \A x, y \in ToSet(g.inFlight) : Before(h.inFlight, x, y) => Before(g.inFlight, x, y)
    BY DEF ReadKeeps
<1> DEFINE f == h.inFlight
           t == s.results[1]
           ends == Ends(h, t)
<1>1. f \in Seq(Turns) /\ Within(s, h, acc) /\ Results(s) /\ Unread(s, h) /\ Ordered(s, h, i) /\ Spared(s, h, i)
    BY DEF InStep, Hosts
<1>2. /\ s.results \in Seq(Nat) /\ Len(s.results) \in 0..2 /\ (s.results = <<>> <=> Len(s.results) = 0) /\ t \in Nat
      /\ Named(s) = 0 => IF ZeroUnread(s) THEN Len(s.results) = 1 /\ s.results[1] = 0 ELSE s.results = <<>>
      /\ Named(s) # 0 /\ ZeroUnread(s) => Len(s.results) = 2 /\ s.results[2] = Named(s)
      /\ Named(s) # 0 /\ ~ZeroUnread(s) => Len(s.results) = 1 /\ s.results[1] = Named(s)
    BY <1>1, ResultsAre, ToSetOf
<1>3. ToSet(ends) \subseteq ToSet(f)
    BY <1>2, EndsIs
<1>4. g.inFlight = Only(f, ToSet(f) \ ToSet(ends)) /\ g.aborting = h.aborting
    BY HostAfter DEF AfterResult
<1>5. /\ ToSet(g.inFlight) = ToSet(f) \ ToSet(ends) /\ Distinct(g.inFlight) /\ g.inFlight \in Seq(Turns)
      /\ \A x, y : Before(g.inFlight, x, y) <=> x \in ToSet(f) \ ToSet(ends) /\ y \in ToSet(f) \ ToSet(ends) /\ Before(f, x, y)
    <2> DEFINE S == ToSet(f) \ ToSet(ends)
    <2>1. S \in SUBSET ToSet(f) /\ Distinct(f) /\ g.inFlight = Only(f, S)
        BY <1>1, <1>4 DEF Within
    <2> HIDE DEF S, f, ends
    <2>2. /\ ToSet(g.inFlight) = S /\ Distinct(g.inFlight) /\ g.inFlight \in Seq(Turns)
          /\ \A x, y : Before(g.inFlight, x, y) <=> x \in S /\ y \in S /\ Before(f, x, y)
        BY <1>1, <2>1, OnlyPart
    <2> QED
        BY <2>2 DEF S
<1>6. Queued(n) = Queued(s) /\ Has(n) = Has(s)
    BY DEF Queued, Has
<1> HIDE DEF ends
<1>7. CASE t = 0
    <2>1. ZeroUnread(s)
        BY <1>7 DEF ZeroUnread
    <2>2. f # <<>> /\ f[1] \notin Has(s) /\ f[1] # Named(s) /\ h.aborting = f[1] /\ f[1] \notin Left(h, i) /\ i.pc # "asked"
        BY <1>1, <2>1 DEF Unread, Spared
    <2>3. ToSet(ends) = {f[1]} /\ f[1] \in ToSet(f)
        <3>1. ends = <<f[1]>>
            BY <1>7, <2>2, EndsIs DEF ends
        <3> QED
            BY <1>1, <2>2, <3>1, ToSetOf, ToSetOne
    <2>4. ~ZeroUnread(n) /\ Named(n) = Named(s) /\ (Len(n.results) = 0 \/ Len(n.results) = 1)
        <3>1. CASE Len(s.results) = 1
            <4>1. n.results = <<>> /\ Len(n.results) = 0 /\ n.results \in Seq(Nat)
                BY <1>2, <3>1, TailFacts
            <4>2. Named(s) = 0
                BY <1>2, <1>7, <3>1 DEF Named
            <4>3. ~ZeroUnread(n) /\ Named(n) = 0
                BY <4>1 DEF ZeroUnread, Named
            <4> QED
                BY <4>1, <4>2, <4>3
        <3>2. CASE Len(s.results) = 2
            <4>1. Len(n.results) = 1 /\ n.results[1] = s.results[2] /\ n.results \in Seq(Nat) /\ s.results[2] # 0
                BY <1>1, <1>2, <3>2 DEF Results
            <4>2. n.results # <<>> /\ s.results # <<>>
                BY <1>2, <3>2, <4>1
            <4>3. Named(n) = s.results[2] /\ Named(s) = s.results[2]
                BY <3>2, <4>1, <4>2 DEF Named
            <4>4. ~ZeroUnread(n)
                BY <4>1 DEF ZeroUnread
            <4> QED
                BY <4>1, <4>3, <4>4
        <3>3. Len(s.results) = 1 \/ Len(s.results) = 2
            BY <1>2
        <3> QED
            BY <3>1, <3>2, <3>3
    <2>5. Top(n) = Top(s)
        BY <2>4 DEF Top
    <2>6. Left(g, i) = Left(h, i)
        BY <1>5, <2>2, <2>3 DEF Left, FoldedAcross
    <2>7. Rest(n, g, i) = Rest(s, h, i)
        BY <1>5, <2>1, <2>3, <2>4, <2>6 DEF Rest
    <2>8. Within(n, g, acc)
        BY <1>1, <1>4, <1>5, <1>6, <2>2, <2>3 DEF Within
    <2>9. Results(n) /\ Unread(n, g)
        <3>1. Len(n.results) # 2 /\ Len(n.results) <= 2
            BY <2>4, AtMostOne
        <3> QED
            BY <1>1, <2>4, <3>1 DEF Results, Unread
    <2>10. Ordered(n, g, i)
        <3>1. Rest(s, h, i) \subseteq ToSet(f) \ ToSet(ends)
            BY <2>1, <2>3 DEF Rest
        <3>2. Queued(s) \subseteq ToSet(f) \ ToSet(ends)
            BY <1>1, <2>2, <2>3, NotZeroQueued DEF Within
        <3> QED
            BY <1>1, <1>5, <1>6, <2>5, <2>7, <3>1, <3>2 DEF Ordered
    <2>11. Spared(n, g, i)
        BY <1>1, <1>4, <1>5, <1>6, <2>2, <2>3, <2>4, <2>6 DEF Spared
    <2> QED
        BY <1>5, <1>7, <2>2, <2>3, <2>4, <2>8, <2>9, <2>10, <2>11 DEF InStep, ends
<1>8. CASE t # 0
    <2>1. ~ZeroUnread(s) /\ Named(s) = t /\ Len(s.results) = 1 /\ s.run = 0 /\ s.queue = <<>>
        BY <1>1, <1>2, <1>8 DEF ZeroUnread, Results, Within
    <2>2. t \in ToSet(f)
        BY <1>1, <1>8, <2>1 DEF Ordered, Top, Rest
    <2>3. ends = f
        BY <1>2, <1>8, <2>2, EndsIs DEF ends
    <2>4. g.inFlight = <<>> /\ ToSet(g.inFlight) = {}
        BY <1>5, <2>3, ToSetOf
    <2>5. n.results = <<>> /\ ~ZeroUnread(n) /\ Named(n) = 0 /\ n.run = 0 /\ Top(n) = 0
        BY <1>2, <2>1 DEF ZeroUnread, Named, Top
    <2>6. Queued(s) = {} /\ Has(s) = {}
        BY <2>1 DEF Queued, Has, ToSet
    <2>7. Left(g, i) = {} /\ Rest(n, g, i) = {}
        BY <2>4 DEF Left, FoldedAcross, Rest
    <2>8. Within(n, g, acc)
        BY <1>1, <1>4, <1>5, <1>6, <2>1, <2>4, <2>5, <2>6 DEF Within
    <2>9. Results(n) /\ Unread(n, g)
        <3>1. Len(n.results) = 0
            BY <2>5
        <3>2. Len(n.results) # 2 /\ Len(n.results) <= 2
            BY <3>1, AtMostOne
        <3> QED
            BY <2>5, <3>2 DEF Results, Unread
    <2>10. Ordered(n, g, i)
        BY <1>6, <2>5, <2>6, <2>7 DEF Ordered
    <2>11. Spared(n, g, i)
        BY <1>1, <1>4, <1>6, <2>5, <2>6, <2>7 DEF Spared
    <2> QED
        BY <1>5, <1>8, <2>1, <2>5, <2>8, <2>9, <2>10, <2>11 DEF InStep, ends
<1> QED
    BY <1>7, <1>8

LEMMA AcceptsInStep ==
    ASSUME NEW s \in Processes, NEW h \in Hosts, NEW acc \in SUBSET Turns, NEW i \in Interrupts, NEW t \in Turns,
           InStep(s, h, acc, i), i.pc = "none", t \notin acc, Named(s) = 0
    PROVE  /\ InStep(Fed(s, t), Sent(h, t), acc \cup {t}, i) /\ ZeroUnread(Fed(s, t)) = ZeroUnread(s)
           /\ Sent(h, t).inFlight = Append(h.inFlight, t)
<1> DEFINE n == Fed(s, t)
           g == Sent(h, t)
           f == h.inFlight
<1>1. f \in Seq(Turns) /\ s.queue \in Seq(Turns) /\ Within(s, h, acc) /\ Results(s) /\ Unread(s, h) /\ Ordered(s, h, i) /\ Spared(s, h, i)
    BY DEF InStep, Hosts, Processes
<1>2. g.inFlight = Append(f, t) /\ g.aborting = h.aborting
    BY DEF Sent, Hosts
<1>3. t # 0 /\ t \notin ToSet(f) /\ t \notin Has(s) /\ h.aborting # t /\ t \notin Queued(s)
    BY <1>1, NotZeroQueued DEF Within, Turns
<1>4. /\ ToSet(g.inFlight) = ToSet(f) \cup {t} /\ Distinct(g.inFlight) /\ g.inFlight # <<>>
      /\ f # <<>> => g.inFlight[1] = f[1]
      /\ \A x, y : Before(g.inFlight, x, y) <=> Before(f, x, y) \/ (x \in ToSet(f) /\ y = t)
    <2>1. Distinct(f)
        BY <1>1 DEF Within
    <2> QED
        BY <1>1, <1>2, <1>3, <2>1, AppendFacts
<1>5. /\ n.results = s.results /\ Has(n) = Has(s) \cup {t}
      /\ s.run = 0 => n.run = t /\ n.queue = s.queue
      /\ s.run # 0 => n.run = s.run /\ n.queue = Append(s.queue, t)
    BY FedIs
<1> HIDE DEF n, g
<1>6. ZeroUnread(n) = ZeroUnread(s) /\ Named(n) = 0 /\ Named(s) = 0
    BY <1>5 DEF ZeroUnread, Named
<1>7. Left(h, i) = {} /\ Left(g, i) = {}
    BY DEF Left
<1>8. n.run # 0 /\ Top(n) = n.run /\ Top(s) = s.run
    BY <1>3, <1>5, <1>6 DEF Top
<1>9. Results(n)
    <2>1. Len(n.results) = Len(s.results)
        BY <1>5
    <2>2. Len(s.results) # 2
        BY <1>1, <1>6, ResultsAre
    <2>3. Len(s.results) <= 2
        BY <1>1 DEF Results
    <2>4. Len(n.results) <= 2 /\ Len(n.results) # 2
        BY <2>1, <2>2, <2>3
    <2> QED
        BY <1>6, <2>4 DEF Results
<1>10. Rest(n, g, i) = Rest(s, h, i) \cup {t}
    <2>1. ZeroUnread(s) => f # <<>> /\ f[1] \in ToSet(f)
        BY <1>1, ToSetOf DEF Unread
    <2> QED
        BY <1>3, <1>4, <1>6, <1>7, <2>1 DEF Rest
<1>11. Unread(n, g)
    <2>1. ZeroUnread(s) => f # <<>> /\ f[1] \in ToSet(f)
        BY <1>1, ToSetOf DEF Unread
    <2> QED
        BY <1>1, <1>2, <1>3, <1>4, <1>5, <1>6, <2>1 DEF Unread
<1>12. Spared(n, g, i)
    <2>1. g.aborting \in ToSet(g.inFlight) => h.aborting \in ToSet(f)
        BY <1>2, <1>3, <1>4
    <2>2. ~ZeroUnread(n) => h.aborting \notin ToSet(f)
        <3>1. ASSUME ~ZeroUnread(n), h.aborting \in ToSet(f) PROVE FALSE
            <4>1. s.run = 0
                BY <1>1, <1>6, <3>1 DEF Spared
            <4>2. Rest(s, h, i) = {}
                BY <1>1, <1>8, <4>1 DEF Ordered
            <4> QED
                BY <1>6, <1>7, <3>1, <4>2 DEF Rest
        <3> QED
            BY <3>1
    <2> QED
        BY <1>1, <1>7, <2>1, <2>2 DEF Spared
<1>13. CASE s.run = 0
    <2>1. Rest(s, h, i) = {} /\ s.queue = <<>> /\ n.run = t /\ n.queue = <<>>
        BY <1>1, <1>5, <1>8, <1>13 DEF Ordered, Within
    <2>2. Queued(n) = {}
        BY <2>1 DEF Queued, ToSet
    <2>3. Within(n, g, acc \cup {t})
        BY <1>1, <1>2, <1>3, <1>4, <1>5, <1>8, <2>1, <2>2 DEF Within
    <2>4. Ordered(n, g, i)
        BY <1>8, <1>10, <2>1, <2>2 DEF Ordered
    <2> QED
        BY <1>2, <1>6, <1>9, <1>11, <1>12, <2>3, <2>4 DEF InStep, n, g
<1>14. CASE s.run # 0
    <2>1. n.run = s.run /\ n.queue = Append(s.queue, t) /\ s.run \in Has(s)
        BY <1>5, <1>14, NotZeroQueued
    <2>2. /\ Queued(n) = Queued(s) \cup {t} /\ Distinct(n.queue)
          /\ \A x, y : Before(n.queue, x, y) <=> Before(s.queue, x, y) \/ (x \in ToSet(s.queue) /\ y = t)
        <3>1. Distinct(s.queue) /\ t \notin ToSet(s.queue)
            BY <1>1, <1>3 DEF Within, Queued
        <3> QED
            BY <1>1, <2>1, <3>1, AppendFacts DEF Queued
    <2>3. Within(n, g, acc \cup {t})
        BY <1>1, <1>2, <1>3, <1>4, <1>5, <1>8, <2>1, <2>2 DEF Within
    <2>4. Ordered(n, g, i)
        <3>1. s.run \in Rest(s, h, i) /\ \A x \in Rest(s, h, i) \ {s.run} : Before(f, s.run, x)
            BY <1>1, <1>8, <1>14 DEF Ordered
        <3>2. s.run \in ToSet(f) /\ s.run # t
            BY <1>3, <3>1 DEF Rest
        <3>3. \A x \in Rest(n, g, i) \ {s.run} : Before(g.inFlight, s.run, x)
            BY <1>4, <1>10, <3>1, <3>2
        <3>4. ASSUME NEW x \in Queued(n), NEW y \in Queued(n), Before(n.queue, x, y) PROVE Before(g.inFlight, x, y)
            <4>1. CASE x \in ToSet(s.queue) /\ y = t
                BY <1>1, <1>4, <4>1, NotZeroQueued DEF Within, Queued
            <4>2. CASE Before(s.queue, x, y)
                <5>1. x \in Queued(s) /\ y \in Queued(s)
                    BY <1>1, <4>2, OrderFacts DEF Queued, Within
                <5> QED
                    BY <1>1, <1>4, <4>2, <5>1 DEF Ordered
            <4> QED
                BY <2>2, <3>4, <4>1, <4>2
        <3> QED
            BY <1>8, <1>10, <2>1, <3>1, <3>3, <3>4 DEF Ordered
    <2> QED
        BY <1>2, <1>6, <1>9, <1>11, <1>12, <2>3, <2>4 DEF InStep, n, g
<1> QED
    BY <1>13, <1>14

LEMMA AsksInStep ==
    ASSUME NEW s \in Processes, NEW h \in Hosts, NEW acc \in SUBSET Turns, NEW i \in Interrupts, NEW j \in Interrupts,
           InStep(s, h, acc, i), i.pc = "none", ~ZeroUnread(s), j.pc = "asked", j.asked = Interrupting(h)
    PROVE  InStep(s, Interrupted(h), acc, j) /\ Interrupted(h).inFlight = h.inFlight
<1> DEFINE f == h.inFlight
           g == Interrupted(h)
<1>1. f \in Seq(Turns) /\ Within(s, h, acc) /\ Results(s) /\ Ordered(s, h, i) /\ Spared(s, h, i)
    BY DEF InStep, Hosts
<1>2. g.inFlight = f /\ (f = <<>> => g.aborting = h.aborting) /\ (f # <<>> => g.aborting = f[1] /\ f[1] \in ToSet(f))
    BY <1>1, ToSetOf DEF Interrupted, Hosts
<1>3. /\ j.asked.of = IF f = <<>> THEN 0 ELSE f[1]
      /\ j.asked.outstanding <=> h.aborting # 0 /\ h.aborting \in ToSet(f)
      /\ j.asked.candidates = ToSet(f)
    <2>1. f = <<>> \/ Head(f) = f[1]
        BY <1>1
    <2> DEFINE of == IF f = <<>> THEN 0 ELSE Head(f)
               out == AbortInFlight(h)
    <2>2. j.asked = [of |-> of, outstanding |-> out, candidates |-> ToSet(f)]
        BY DEF Interrupting
    <2>3. out <=> h.aborting # 0 /\ h.aborting \in ToSet(f)
        BY DEF AbortInFlight
    <2> HIDE DEF out, of
    <2>4. j.asked.of = of /\ j.asked.outstanding = out /\ j.asked.candidates = ToSet(f)
        BY <2>2
    <2> QED
        BY <2>1, <2>3, <2>4 DEF of
<1> HIDE DEF g
<1>4. Left(h, i) = {} /\ Left(g, j) = {}
    BY DEF Left
<1>5. Rest(s, h, i) = ToSet(f) /\ Rest(s, g, j) = ToSet(f)
    BY <1>2, <1>4 DEF Rest
<1>6. Top(s) # 0 => f # <<>> /\ f[1] = Top(s)
    BY <1>1, <1>5, HeadOfAll DEF Ordered, Within
<1>7. Within(s, g, acc)
    BY <1>1, <1>2 DEF Within
<1>8. Unread(s, g)
    BY DEF Unread
<1>9. Ordered(s, g, j)
    BY <1>1, <1>2, <1>5 DEF Ordered
<1>10. Spared(s, g, j)
    <2>1. s.run # 0 => ~j.asked.outstanding /\ j.asked.of = s.run
        BY <1>1, <1>3, <1>6 DEF Spared, Top
    <2>2. Named(s) # 0 => j.asked.of = Named(s)
        BY <1>1, <1>3, <1>6 DEF Top, Results
    <2> QED
        BY <1>2, <1>3, <1>4, <2>1, <2>2 DEF Spared
<1> QED
    BY <1>1, <1>2, <1>7, <1>8, <1>9, <1>10 DEF InStep, g

-----------------------------------------------------------------------------
(* What is on the wire.                                                    *)
DoneOf(w) == {m.turn : m \in {x \in ToSet(w) : x.kind = "done"}}
Confirmed(w, t) == \E m \in ToSet(w) : m.kind \in {"sent", "held"} /\ t \in m.set
Denied(w, t) == \A m \in ToSet(w) : m.kind = "checked" => t \notin m.set

\* The ends that no answer to a send or an interrupt comes behind, and whether
\* an end of t comes behind a status that did not name t.
Opens(w, k) == w[k].kind = "done" /\ \A j \in DOMAIN w : j > k => w[j].kind \notin {"sent", "interrupted"}
Open(w) == {w[k].turn : k \in {j \in DOMAIN w : Opens(w, j)}}
Ghost(w, t) ==
    \E k, j \in DOMAIN w : k < j /\ w[k].kind = "held" /\ t \notin w[k].set /\ w[j].kind = "done" /\ w[j].turn = t

LEMMA WireDrops ==
    ASSUME NEW w \in Seq(Messages), NEW v \in Seq(Messages), NEW r \in DOMAIN w, NEW e, Drops(w, r, v, e),
           w[r].kind = "done" \/ r = 1
    PROVE  /\ ToSet(v) \subseteq ToSet(w) /\ ToSet(w) \subseteq ToSet(v) \cup {w[r]}
           /\ DoneOf(v) \subseteq DoneOf(w) /\ DoneOf(w) \subseteq DoneOf(v) \cup {w[r].turn}
           /\ w[r].kind # "done" => DoneOf(v) = DoneOf(w)
           /\ w[r].kind = "done" => w[r].turn \in DoneOf(w)
           /\ Open(v) \subseteq Open(w)
           /\ \A t : (Confirmed(v, t) => Confirmed(w, t)) /\ (Denied(w, t) => Denied(v, t)) /\ (Ghost(v, t) => Ghost(w, t))
<1>1. /\ \A i \in DOMAIN v : e[i] \in DOMAIN w /\ e[i] # r /\ v[i] = w[e[i]]
      /\ \A i, j \in DOMAIN v : e[i] < e[j] <=> i < j
      /\ \A k \in DOMAIN w : k # r => \E i \in DOMAIN v : e[i] = k
      /\ DOMAIN v \subseteq Nat /\ DOMAIN w \subseteq Nat
    BY DEF Drops
<1>2. ToSet(v) \subseteq ToSet(w)
    BY <1>1 DEF ToSet
<1>3. ToSet(w) \subseteq ToSet(v) \cup {w[r]}
    BY <1>1 DEF ToSet
<1>4. DoneOf(v) \subseteq DoneOf(w) /\ DoneOf(w) \subseteq DoneOf(v) \cup {w[r].turn} /\ (w[r].kind # "done" => DoneOf(v) = DoneOf(w))
    BY <1>2, <1>3 DEF DoneOf
<1>5. w[r].kind = "done" => w[r].turn \in DoneOf(w)
    <2>1. w[r] \in ToSet(w)
        BY ToSetOf
    <2> QED
        BY <2>1 DEF DoneOf
<1>6. Open(v) \subseteq Open(w)
    <2> SUFFICES ASSUME NEW i \in DOMAIN v, Opens(v, i) PROVE v[i].turn \in Open(w)
        BY DEF Open
    <2>1. e[i] \in DOMAIN w /\ w[e[i]] = v[i]
        BY <1>1
    <2>2. ASSUME NEW j \in DOMAIN w, j > e[i], w[j].kind \in {"sent", "interrupted"} PROVE FALSE
        <3>1. j # r
            <4>1. e[i] >= 1
                BY <2>1
            <4> QED
                BY <1>1, <2>1, <2>2, <4>1
        <3>2. PICK l \in DOMAIN v : e[l] = j
            BY <1>1, <3>1
        <3>3. i < l /\ v[l] = w[j]
            BY <1>1, <2>2, <3>2
        <3>4. l > i
            BY <1>1, <3>3
        <3> QED
            BY <2>2, <3>3, <3>4 DEF Opens
    <2>3. Opens(w, e[i])
        BY <2>1, <2>2 DEF Opens
    <2> QED
        BY <2>1, <2>3 DEF Open
<1>7. ASSUME NEW t PROVE (Confirmed(v, t) => Confirmed(w, t)) /\ (Denied(w, t) => Denied(v, t))
    BY <1>2 DEF Confirmed, Denied
<1>8. ASSUME NEW t, Ghost(v, t) PROVE Ghost(w, t)
    <2>1. PICK k, j \in DOMAIN v : k < j /\ v[k].kind = "held" /\ t \notin v[k].set /\ v[j].kind = "done" /\ v[j].turn = t
        BY <1>8 DEF Ghost
    <2>2. e[k] \in DOMAIN w /\ e[j] \in DOMAIN w /\ e[k] < e[j] /\ w[e[k]] = v[k] /\ w[e[j]] = v[j]
        BY <1>1, <2>1
    <2> QED
        BY <2>1, <2>2 DEF Ghost
<1> QED
    BY <1>2, <1>3, <1>4, <1>5, <1>6, <1>7, <1>8

LEMMA WireTail ==
    ASSUME NEW w \in Seq(Messages), w # <<>>
    PROVE  /\ ToSet(Tail(w)) \subseteq ToSet(w) /\ ToSet(w) \subseteq ToSet(Tail(w)) \cup {w[1]} /\ w[1] \in ToSet(w)
           /\ DoneOf(Tail(w)) \subseteq DoneOf(w)
           /\ w[1].kind # "done" => DoneOf(Tail(w)) = DoneOf(w)
           /\ Open(Tail(w)) \subseteq Open(w)
           /\ \A t : /\ Confirmed(Tail(w), t) => Confirmed(w, t)
                     /\ Denied(w, t) => Denied(Tail(w), t)
                     /\ Ghost(Tail(w), t) => Ghost(w, t)
<1>1. 1 \in DOMAIN w /\ w[1] \in ToSet(w)
    BY ToSetOf
<1>2. PICK e : Tail(w) \in Seq(Messages) /\ Drops(w, 1, Tail(w), e)
    BY TailDrops
<1> QED
    BY <1>1, <1>2, WireDrops

LEMMA WireEmits ==
    ASSUME NEW w \in Seq(Messages), NEW m, DoneOnly(m)
    PROVE  LET gone == {m[i].turn : i \in DOMAIN m}
               v == w \o m
           IN  /\ ToSet(v) = ToSet(w) \cup ToSet(m) /\ \A x \in ToSet(m) : x.kind = "done"
               /\ DoneOf(v) = DoneOf(w) \cup gone
               /\ Open(v) \subseteq Open(w) \cup gone
               /\ \A t : /\ Confirmed(v, t) => Confirmed(w, t)
                         /\ Denied(w, t) => Denied(v, t)
                         /\ Ghost(v, t) => Ghost(w, t) \/ (t \in gone /\ \E x \in ToSet(w) : x.kind = "held" /\ t \notin x.set)
<1> DEFINE gone == {m[i].turn : i \in DOMAIN m}
           v == w \o m
<1>1. m \in Seq(Messages) /\ \A i \in DOMAIN m : m[i].kind = "done"
    BY DEF DoneOnly
<1>2. /\ v \in Seq(Messages) /\ \A i \in DOMAIN w : i \in DOMAIN v /\ v[i] = w[i]
      /\ \A i \in DOMAIN v : i \in DOMAIN w \/ (i - Len(w) \in DOMAIN m /\ v[i] = m[i - Len(w)])
      /\ ToSet(v) = ToSet(w) \cup ToSet(m)
    BY <1>1, ConcatFacts
<1> HIDE DEF v
<1>3. \A x \in ToSet(m) : x.kind = "done"
    BY <1>1, ToSetOf
<1>4. {x.turn : x \in ToSet(m)} = gone
    BY <1>1 DEF ToSet
<1>5. DoneOf(v) = DoneOf(w) \cup gone
    BY <1>2, <1>3, <1>4 DEF DoneOf
<1>6. Open(v) \subseteq Open(w) \cup gone
    <2> SUFFICES ASSUME NEW i \in DOMAIN v, Opens(v, i) PROVE v[i].turn \in Open(w) \cup gone
        BY DEF Open
    <2>1. CASE i \in DOMAIN w
        <3>1. Opens(w, i) /\ w[i] = v[i]
            BY <1>2, <2>1 DEF Opens
        <3> QED
            BY <2>1, <3>1 DEF Open
    <2>2. CASE i - Len(w) \in DOMAIN m /\ v[i] = m[i - Len(w)]
        BY <2>2
    <2> QED
        BY <1>2, <2>1, <2>2
<1>7. ASSUME NEW t PROVE (Confirmed(v, t) => Confirmed(w, t)) /\ (Denied(w, t) => Denied(v, t))
    BY <1>2, <1>3 DEF Confirmed, Denied
<1>8. ASSUME NEW t, Ghost(v, t) PROVE Ghost(w, t) \/ (t \in gone /\ \E x \in ToSet(w) : x.kind = "held" /\ t \notin x.set)
    <2>1. PICK k, j \in DOMAIN v : k < j /\ v[k].kind = "held" /\ t \notin v[k].set /\ v[j].kind = "done" /\ v[j].turn = t
        BY <1>8 DEF Ghost
    <2>2. k \in DOMAIN w /\ w[k] = v[k]
        BY <1>1, <1>2, <2>1
    <2>3. CASE j \in DOMAIN w
        BY <1>2, <2>1, <2>2, <2>3 DEF Ghost
    <2>4. CASE j - Len(w) \in DOMAIN m /\ v[j] = m[j - Len(w)]
        <3>1. t \in gone
            BY <2>1, <2>4
        <3>2. w[k] \in ToSet(w)
            BY <2>2, ToSetOf
        <3> QED
            BY <2>1, <2>2, <3>1, <3>2
    <2> QED
        BY <1>2, <2>3, <2>4
<1> QED
    BY <1>2, <1>3, <1>5, <1>6, <1>7, <1>8 DEF v

LEMMA WireReplies ==
    ASSUME NEW w \in Seq(Messages), NEW m \in Messages, m.kind # "done"
    PROVE  LET v == w \o <<m>>
           IN  /\ ToSet(v) = ToSet(w) \cup {m}
               /\ DoneOf(v) = DoneOf(w)
               /\ Open(v) \subseteq Open(w)
               /\ m.kind \in {"sent", "interrupted"} => Open(v) = {}
               /\ \A t : /\ Confirmed(v, t) => Confirmed(w, t) \/ (m.kind \in {"sent", "held"} /\ t \in m.set)
                         /\ Denied(w, t) /\ (m.kind = "checked" => t \notin m.set) => Denied(v, t)
                         /\ Ghost(v, t) => Ghost(w, t)
<1> DEFINE v == w \o <<m>>
           n == Len(w)
<1>1. /\ v \in Seq(Messages) /\ DOMAIN w = 1..n /\ DOMAIN v = 1..(n + 1) /\ n \in Nat /\ v[n + 1] = m
      /\ \A i \in 1..n : v[i] = w[i]
    OBVIOUS
<1>2. ToSet(v) = ToSet(w) \cup {m}
    <2> HIDE DEF v, n
    <2>1. \A i \in DOMAIN v : i \in 1..n \/ i = n + 1
        BY <1>1
    <2>2. ToSet(v) \subseteq ToSet(w) \cup {m}
        BY <1>1, <2>1 DEF ToSet
    <2>3. n + 1 \in DOMAIN v /\ \A i \in 1..n : i \in DOMAIN v
        BY <1>1
    <2>4. ToSet(w) \cup {m} \subseteq ToSet(v)
        BY <1>1, <2>3 DEF ToSet
    <2> QED
        BY <2>2, <2>4
<1> HIDE DEF v, n
<1>3. DoneOf(v) = DoneOf(w)
    BY <1>2 DEF DoneOf
<1>4. ASSUME NEW i \in DOMAIN v, Opens(v, i) PROVE v[i].turn \in Open(w) /\ m.kind \notin {"sent", "interrupted"}
    <2>1. i \in 1..n
        BY <1>1, <1>4 DEF Opens
    <2>2. n + 1 \in DOMAIN v /\ n + 1 > i
        BY <1>1, <2>1
    <2>3. m.kind \notin {"sent", "interrupted"}
        BY <1>1, <1>4, <2>2 DEF Opens
    <2>4. Opens(w, i) /\ w[i] = v[i]
        BY <1>1, <1>4, <2>1 DEF Opens
    <2> QED
        BY <1>1, <2>1, <2>3, <2>4 DEF Open
<1>5. Open(v) \subseteq Open(w) /\ (m.kind \in {"sent", "interrupted"} => Open(v) = {})
    BY <1>4 DEF Open
<1>6. ASSUME NEW t
      PROVE  /\ Confirmed(v, t) => Confirmed(w, t) \/ (m.kind \in {"sent", "held"} /\ t \in m.set)
             /\ Denied(w, t) /\ (m.kind = "checked" => t \notin m.set) => Denied(v, t)
    BY <1>2 DEF Confirmed, Denied
<1>7. ASSUME NEW t, Ghost(v, t) PROVE Ghost(w, t)
    <2>1. PICK k, j \in DOMAIN v : k < j /\ v[k].kind = "held" /\ t \notin v[k].set /\ v[j].kind = "done" /\ v[j].turn = t
        BY <1>7 DEF Ghost
    <2>2. j # n + 1
        BY <1>1, <2>1
    <2>3. j \in 1..n /\ k \in 1..n
        BY <1>1, <2>1, <2>2
    <2> QED
        BY <1>1, <2>1, <2>3 DEF Ghost
<1> QED
    BY <1>2, <1>3, <1>5, <1>6, <1>7 DEF v

-----------------------------------------------------------------------------
(* The whole, in the behaviours without trouble.                           *)
Waits == call.op = "interrupt" /\ call.pc = "sent"
Asks == interrupt.pc = "asked" \/ \E r \in ToSet(reqs) : r.kind = "interrupt"
Tells == interrupt.pc = "told" \/ \E m \in ToSet(wire) : m.kind = "interrupted"
InHost == ToSet(host.inFlight)
Believed == ToSet(running)

\* An interrupt on its way is aimed at what runs, and stays so.
Aimed ==
    /\ interrupt.pc # "none" => up /\ interrupt.client = native.view.gen
    /\ call.op = "interrupt" => call.pc = "sent"
    /\ Waits => /\ call.turn \in targets /\ call.turn \in accepted
                /\ call.turn \in Believed => running[1] = call.turn
                /\ Asks => sdk.run \in {0, call.turn} /\ ~ZeroUnread(sdk)
                /\ Tells => call.turn \notin Has(sdk)

\* A turn that the runtime believes in is in flight or its end is on the wire,
\* but for one that was just reserved, or that was over when it was recovered.
Last1(b, t) == \A y \in ToSet(b) \ {t} : Before(b, y, t)
Belief ==
    /\ DoneOf(wire) \cap InHost = {} /\ DoneOf(wire) \subseteq accepted /\ Distinct(running)
    /\ resumed => InHost \subseteq Believed
    /\ \A x \in Believed \ (DoneOf(wire) \cup InHost) :
         \/ call.pc \in Starting /\ x = call.turn /\ Last1(running, x) /\ ~Confirmed(wire, x)
         \/ call.pc = "check" /\ Denied(wire, x)
    /\ \A x, y \in InHost : Before(running, x, y) => Before(host.inFlight, x, y)
    /\ call.pc \in Starting => call.turn \in Believed \cup accepted

Recovering ==
    call.pc = "recover" =>
        /\ call.turn = 0
        /\ \A m \in ToSet(wire) : m.kind = "recovered" =>
             /\ InHost \subseteq m.set /\ m.set \subseteq accepted /\ IsFiniteSet(m.set)
             /\ IF m.turn = 0 THEN m.set = {} ELSE m.turn \in m.set
Checking == call.pc = "check" => Believed \subseteq accepted /\ \A x, y \in Believed : x = y
Viewing == call.pc = "view" => Believed \subseteq {call.turn} /\ (call.turn # 0 => call.turn \in Believed \cup native.dead)
Holding ==
    call.pc = "held" =>
        /\ call.turn \in accepted /\ ~Ghost(wire, call.turn)
        /\ \A m \in ToSet(wire) : m.kind = "held" => (call.turn \in InHost => call.turn \in m.set)
Phases == Recovering /\ Checking /\ Viewing /\ Holding

\* The result of an abort is that of the turn whose interrupt is or was awaited.
Aborting ==
    ZeroUnread(sdk) =>
        /\ up /\ resumed /\ running # <<>> /\ running[1] = host.inFlight[1]
        /\ host.inFlight[1] \in native.dead \/ (Waits /\ call.turn = host.inFlight[1])

\* While an end is on the wire nothing runs, unless an answer overtook it or an
\* interrupt accounts for it.
Unheard ==
    \A x \in Open(wire) :
        x \in native.dead \/ sdk.run = 0 \/ interrupt.pc # "none" \/ (Waits /\ x = call.turn)

Buried ==
    /\ native.dead \subseteq accepted /\ native.dead \cap Has(sdk) = {}
    /\ \A x \in native.dead \cap Believed :
         \/ x = running[1]
         \/ call.pc \in Starting /\ x = call.turn /\ x \notin InHost /\ ~Confirmed(wire, x)

\* What the view holds of the head of the queue.
Exempt ==
    /\ call.pc \in Starting /\ running[1] = call.turn
    /\ call.turn \notin InHost \/ \E m \in ToSet(wire) : m.kind = "sent" /\ m.set # {}
    /\ \A m \in ToSet(wire) : m.kind = "held" => call.turn \notin m.set
Seen ==
    /\ ~resumed => native.view.status = "unknown"
    /\ native.view.status = "idle" => running = <<>> \/ running[1] \in native.dead \/ Exempt
    /\ native.view.status = "active" => running # <<>> /\ native.view.turn = running[1]

Stepping == InStep(sdk, host, accepted, interrupt)
Deep == Stepping /\ Aimed /\ Belief /\ Phases /\ Aborting /\ Unheard /\ Buried /\ Seen

\* What is asked or answered is awaited.
LEMMA Kinds ==
    ASSUME Control
    PROVE  /\ \A m \in ToSet(wire) :
                /\ m.kind = "sent" => call.pc = "accept" /\ m.set \subseteq {call.turn} /\ call.turn \in accepted
                /\ m.kind = "held" => call.pc = "held"
                /\ m.kind = "checked" => call.pc = "check"
                /\ m.kind = "recovered" => call.pc = "recover"
                /\ m.kind = "interrupted" => Waits
           /\ \A r \in ToSet(reqs) : (r.kind = "interrupt" => Waits) /\ (r.kind = "send" => call.pc = "accept" /\ r.turn = call.turn)
           /\ InHand # {} => /\ Waits /\ \A m \in ToSet(wire) : m.kind # "interrupted"
                             /\ \A r \in ToSet(reqs) : r.kind # "interrupt"
<1>1. wire \in Seq(Messages) /\ reqs \in Seq(Requests) /\ Orderly(reqs, wire, InHand, Awaited(call, sweep)) /\ Protocol
    BY DEF Control, Typed, Protocol
<1>2. ASSUME NEW m \in ToSet(wire)
      PROVE  /\ m.kind = "sent" => call.pc = "accept" /\ m.set \subseteq {call.turn} /\ call.turn \in accepted
             /\ m.kind = "held" => call.pc = "held"
             /\ m.kind = "checked" => call.pc = "check"
             /\ m.kind = "recovered" => call.pc = "recover"
             /\ m.kind = "interrupted" => Waits /\ "interrupted" \notin InHand
    <2>1. PICK i \in DOMAIN wire : wire[i] = m
        BY <1>1, <1>2, ToSetOf
    <2>2. m.kind = "done" \/ (m.kind \in Awaited(call, sweep) /\ m.kind \notin InHand)
        BY <1>1, <2>1 DEF Orderly
    <2>3. m.kind = "sent" => m.set \subseteq {call.turn} /\ call.turn \in accepted
        BY <1>1, <2>1 DEF Protocol
    <2> QED
        BY <2>2, <2>3 DEF Awaited, Waits
<1>3. ASSUME NEW r \in ToSet(reqs)
      PROVE  /\ r.kind = "interrupt" => Waits /\ "interrupted" \notin InHand
             /\ r.kind = "send" => call.pc = "accept" /\ r.turn = call.turn
    <2>1. PICK i \in DOMAIN reqs : reqs[i] = r
        BY <1>1, <1>3, ToSetOf
    <2>2. Answer(r.kind) \in Awaited(call, sweep) /\ Answer(r.kind) \notin InHand
        BY <1>1, <2>1 DEF Orderly
    <2>3. r.kind = "send" => r.turn = call.turn
        BY <1>1, <2>1 DEF Protocol
    <2> QED
        BY <2>2, <2>3 DEF Awaited, Waits, Answer
<1>4. InHand # {} => "interrupted" \in InHand /\ Waits
    <2>1. InHand # {} => "interrupted" \in InHand
        BY DEF InHand
    <2> QED
        BY <1>1, <2>1 DEF Orderly, Awaited, Waits
<1> QED
    BY <1>2, <1>3, <1>4

\* An interrupt is in the host's hands only for the call that waits for it.
LEMMA Held ==
    ASSUME Control, Aimed
    PROVE  /\ interrupt.pc # "none" => /\ Waits /\ up /\ resumed /\ InHand = {"interrupted"}
                                       /\ \A m \in ToSet(wire) : m.kind # "interrupted"
                                       /\ \A r \in ToSet(reqs) : r.kind # "interrupt"
           /\ Waits => up /\ resumed
           /\ ~Waits => interrupt.pc = "none" /\ ~Asks /\ ~Tells
<1>1. interrupt.pc # "none" => up /\ interrupt.client = native.view.gen
    BY DEF Aimed
<1>2. interrupt.pc # "none" => InHand = {"interrupted"}
    BY <1>1 DEF InHand
<1>3. Waits => up /\ resumed
    BY DEF Control, Typed, Shape, Waits
<1> QED
    BY <1>1, <1>2, <1>3, Kinds DEF Asks, Tells

LEMMA DeepTypes ==
    ASSUME Control
    PROVE  /\ sdk \in Processes /\ host \in Hosts /\ accepted \in SUBSET Turns /\ interrupt \in Interrupts
           /\ host.inFlight \in Seq(Turns) /\ wire \in Seq(Messages) /\ reqs \in Seq(Requests) /\ running \in Seq(Turns)
           /\ InHost \subseteq Turns /\ Believed \subseteq Turns
BY ToSetOf DEF Control, Typed, Hosts, InHost, Believed

LEMMA InHostFacts ==
    ASSUME Control, Stepping
    PROVE  /\ Has(sdk) \subseteq InHost /\ InHost \subseteq accepted /\ Distinct(host.inFlight)
           /\ ZeroUnread(sdk) => host.inFlight # <<>> /\ host.inFlight[1] \in InHost
BY DeepTypes, ToSetOf DEF Stepping, InStep, Within, Unread, InHost

-----------------------------------------------------------------------------
(* Steps of the process.                                                   *)
LEMMA ProcessDeep ==
    ASSUME Control, Deep, Stepping',
           UNCHANGED <<host, accepted, interrupt, reqs, wire, up, running, resumed, native, call, targets>>,
           Has(sdk') \subseteq Has(sdk), sdk'.run \in {0, sdk.run}, ZeroUnread(sdk') = ZeroUnread(sdk)
    PROVE  Deep'
<1>1. Aimed'
    BY DEF Deep, Aimed, Waits, Asks, Tells, Believed
<1>2. Belief' /\ Phases' /\ Seen'
    BY DEF Deep, Belief, Phases, Recovering, Checking, Viewing, Holding, Seen, Exempt, InHost, Believed
<1>3. Aborting' /\ Unheard' /\ Buried'
    BY DEF Deep, Aborting, Unheard, Buried, Waits, InHost, Believed
<1> QED
    BY <1>1, <1>2, <1>3 DEF Deep

LEMMA SdkFoldsDeep ==
    ASSUME Control, Deep, SdkFolds
    PROVE  Deep'
<1>1. /\ sdk' = Folded(sdk) /\ sdk.run # 0 /\ sdk.queue # <<>>
      /\ UNCHANGED <<host, accepted, interrupt, reqs, wire, up, running, resumed, native, call, targets>>
    BY DEF SdkFolds, viewVars, historyVars
<1>2. sdk \in Processes /\ host \in Hosts /\ accepted \in SUBSET Turns /\ interrupt \in Interrupts
    BY DeepTypes
<1>3. InStep(Folded(sdk), host, accepted, interrupt)
    BY <1>1, <1>2, FoldsInStep DEF Deep, Stepping
<1>4. Stepping'
    BY <1>1, <1>3 DEF Stepping
<1>5. Has(sdk') \subseteq Has(sdk) /\ sdk'.run = sdk.run /\ sdk'.results = sdk.results
    BY <1>1, <1>2, FoldedIs
<1>6. ZeroUnread(sdk') = ZeroUnread(sdk)
    BY <1>5 DEF ZeroUnread
<1> QED
    BY <1>1, <1>4, <1>5, <1>6, ProcessDeep

LEMMA SdkSucceedsDeep ==
    ASSUME Control, Deep, SdkSucceeds
    PROVE  Deep'
<1>1. /\ sdk' = Succeeded(sdk) /\ sdk.run # 0
      /\ UNCHANGED <<host, accepted, interrupt, reqs, wire, up, running, resumed, native, call, targets>>
    BY DEF SdkSucceeds, viewVars, historyVars
<1>2. sdk \in Processes /\ host \in Hosts /\ accepted \in SUBSET Turns /\ interrupt \in Interrupts
    BY DeepTypes
<1>3. InStep(Succeeded(sdk), host, accepted, interrupt) /\ ZeroUnread(Succeeded(sdk)) = ZeroUnread(sdk)
    BY <1>1, <1>2, SucceedsInStep DEF Deep, Stepping
<1>4. Stepping' /\ ZeroUnread(sdk') = ZeroUnread(sdk)
    BY <1>1, <1>3 DEF Stepping
<1>5. Has(sdk') = {} /\ sdk'.run = 0
    BY <1>1, <1>2, SucceededIs
<1> QED
    BY <1>1, <1>4, <1>5, ProcessDeep

LEMMA SdkAbortsDeep ==
    ASSUME Control, Deep, SdkAborts
    PROVE  Deep' /\ (sdk.run # 0 => sdk.run \in targets)
<1>1. /\ sdk' = Aborted(sdk) /\ interrupt.pc = "asked"
      /\ interrupt' = [interrupt EXCEPT !.pc = "told", !.survivors = Queued(sdk)]
      /\ UNCHANGED <<host, accepted, reqs, wire, up, running, resumed, native, call, targets>>
    BY DEF SdkAborts, viewVars, historyVars
<1>2. /\ sdk \in Processes /\ host \in Hosts /\ accepted \in SUBSET Turns /\ interrupt \in Interrupts
      /\ host.inFlight \in Seq(Turns) /\ running \in Seq(Turns)
    BY DeepTypes
<1>3. interrupt'.pc = "told" /\ interrupt'.asked = interrupt.asked /\ interrupt'.survivors = Queued(sdk)
      /\ interrupt'.client = interrupt.client /\ interrupt' \in Interrupts
    <2>1. Queued(sdk) \in SUBSET Turns
        BY <1>2, NotZeroQueued
    <2> QED
        BY <1>1, <1>2, <2>1 DEF Interrupts
<1>4. Stepping'
    BY <1>1, <1>2, <1>3, AbortsInStep DEF Deep, Stepping
<1>5. /\ Waits /\ up /\ resumed
      /\ \A m \in ToSet(wire) : m.kind # "interrupted"
      /\ \A r \in ToSet(reqs) : r.kind # "interrupt"
    BY <1>1, Held DEF Deep
<1>6. Asks
    BY <1>1 DEF Asks
<1>7. sdk.run \in {0, call.turn} /\ ~ZeroUnread(sdk) /\ call.turn \in targets
    BY <1>5, <1>6 DEF Deep, Aimed
<1>8. Has(sdk') \subseteq Has(sdk) /\ call.turn \notin Has(sdk')
    <2>1. CASE sdk.run = 0
        <3>1. sdk' = sdk /\ sdk.queue = <<>>
            BY <1>1, <1>2, <2>1, AbortedIs DEF Deep, Stepping, InStep, Within
        <3>2. Has(sdk) = {}
            BY <2>1, <3>1 DEF Has, Queued, ToSet
        <3> QED
            BY <3>1, <3>2
    <2>2. CASE sdk.run # 0
        <3>1. Has(sdk') = Queued(sdk) \ {0} /\ Has(sdk') \subseteq Has(sdk)
            BY <1>1, <1>2, <2>2, AbortedHas
        <3>2. sdk.run \notin Queued(sdk)
            BY DEF Deep, Stepping, InStep, Within
        <3> QED
            BY <1>7, <2>2, <3>1, <3>2
    <2> QED
        BY <2>1, <2>2
<1>9. Aimed'
    <2>1. ~Asks'
        BY <1>1, <1>3, <1>5 DEF Asks
    <2>2. call' = call /\ running' = running /\ targets' = targets /\ accepted' = accepted
        BY <1>1
    <2> QED
        BY <1>1, <1>3, <1>5, <1>7, <1>8, <2>1, <2>2 DEF Deep, Aimed, Waits, Believed
<1>10. Belief' /\ Phases' /\ Seen'
    BY <1>1 DEF Deep, Belief, Phases, Recovering, Checking, Viewing, Holding, Seen, Exempt, InHost, Believed
<1>11. Unheard'
    BY <1>3 DEF Unheard
<1>12. Buried'
    BY <1>1, <1>8 DEF Deep, Buried, InHost, Believed
<1>13. Aborting'
    <2>1. CASE sdk.run = 0
        BY <1>1, <1>2, <1>7, <2>1, AbortedIs DEF Aborting
    <2>2. CASE sdk.run # 0
        <3>1. sdk.run = call.turn /\ sdk.run \in Has(sdk)
            BY <1>2, <1>7, <2>2, NotZeroQueued
        <3>2. call.turn \in InHost /\ call.turn \in Believed
            BY <1>5, <3>1, InHostFacts DEF Deep, Belief
        <3>3. running # <<>> /\ running[1] = call.turn
            BY <1>2, <1>5, <3>2, ToSetOf DEF Deep, Aimed, Believed
        <3>4. host.inFlight[1] = sdk.run
            <4>1. Left(host, interrupt) = {}
                BY <1>1 DEF Left
            <4>2. Rest(sdk, host, interrupt) = InHost /\ Top(sdk) = sdk.run
                BY <1>7, <2>2, <4>1 DEF Rest, InHost, Top
            <4>3. \A x \in InHost \ {sdk.run} : Before(host.inFlight, sdk.run, x)
                BY <2>2, <4>2 DEF Deep, Stepping, InStep, Ordered
            <4> QED
                BY <1>2, <3>1, <3>2, <4>3, HeadOfAll, InHostFacts DEF InHost, Deep
        <3> QED
            BY <1>1, <1>5, <3>1, <3>3, <3>4 DEF Aborting, Waits
    <2> QED
        BY <2>1, <2>2
<1> QED
    BY <1>4, <1>7, <1>9, <1>10, <1>11, <1>12, <1>13 DEF Deep

-----------------------------------------------------------------------------
(* Results and receipts: turns leave the host, their ends are on the wire. *)

\* v is what w became: ends of "gone", and perhaps the answer to an interrupt.
Emits(w, v, gone) ==
    /\ ToSet(w) \subseteq ToSet(v)
    /\ \A m \in ToSet(v) : m \in ToSet(w) \/ m.kind \in {"done", "interrupted"}
    /\ DoneOf(v) \subseteq DoneOf(w) \cup gone
    /\ up => DoneOf(v) = DoneOf(w) \cup gone
    /\ \A t : /\ Confirmed(v, t) => Confirmed(w, t)
              /\ Denied(w, t) => Denied(v, t)
              /\ Ghost(v, t) => Ghost(w, t) \/ (t \in gone /\ \E x \in ToSet(w) : x.kind = "held" /\ t \notin x.set)

LEMMA EmitsDeep ==
    ASSUME Control, Deep, NEW gone \in SUBSET InHost, InHost' = InHost \ gone, Emits(wire, wire', gone),
           UNCHANGED <<accepted, up, running, resumed, native, call>>, Has(sdk') \subseteq Has(sdk),
           \A x, y \in InHost' : Before(host.inFlight, x, y) => Before(host'.inFlight, x, y)
    PROVE  Belief' /\ Phases' /\ Buried' /\ Seen'
<1>1. /\ Belief /\ Phases /\ Buried /\ Seen /\ InHost \subseteq accepted
    BY InHostFacts DEF Deep
<1>2. /\ \A m \in ToSet(wire') : m \in ToSet(wire) \/ m.kind \in {"done", "interrupted"}
      /\ ToSet(wire) \subseteq ToSet(wire')
      /\ DoneOf(wire') \subseteq DoneOf(wire) \cup gone /\ DoneOf(wire) \subseteq DoneOf(wire') \cup gone
      /\ up => DoneOf(wire') = DoneOf(wire) \cup gone
      /\ \A t : /\ Confirmed(wire', t) => Confirmed(wire, t)
                /\ Denied(wire, t) => Denied(wire', t)
                /\ Ghost(wire', t) => Ghost(wire, t) \/ (t \in gone /\ \E x \in ToSet(wire) : x.kind = "held" /\ t \notin x.set)
    <2>1. DoneOf(wire) \subseteq DoneOf(wire') \cup gone
        BY DEF Emits, DoneOf
    <2> QED
        BY <2>1 DEF Emits
<1>3. UNCHANGED <<accepted, up, running, resumed, native, call>> /\ Believed' = Believed
    BY DEF Believed
<1>4. Belief'
    <2>1. DoneOf(wire') \cap InHost' = {} /\ DoneOf(wire') \subseteq accepted'
        BY <1>1, <1>2, <1>3 DEF Belief
    <2>2. Distinct(running') /\ (resumed' => InHost' \subseteq Believed')
        BY <1>1, <1>3 DEF Belief
    <2>3. ASSUME NEW x \in Believed' \ (DoneOf(wire') \cup InHost')
          PROVE  \/ call'.pc \in Starting /\ x = call'.turn /\ Last1(running', x) /\ ~Confirmed(wire', x)
                 \/ call'.pc = "check" /\ Denied(wire', x)
        <3>1. up
            <4>1. ~up => running = <<>>
                BY DEF Control, Shape
            <4>2. running # <<>>
                BY <1>3, <2>3, ToSetOf, DeepTypes DEF Believed
            <4> QED
                BY <4>1, <4>2
        <3>2. x \in Believed \ (DoneOf(wire) \cup InHost)
            BY <1>2, <1>3, <2>3, <3>1
        <3> QED
            BY <1>1, <1>2, <1>3, <3>2 DEF Belief
    <2>4. \A x, y \in InHost' : Before(running', x, y) => Before(host'.inFlight, x, y)
        BY <1>1, <1>3 DEF Belief
    <2>5. call'.pc \in Starting => call'.turn \in Believed' \cup accepted'
        BY <1>1, <1>3 DEF Belief
    <2> QED
        BY <2>1, <2>2, <2>3, <2>4, <2>5 DEF Belief
<1>5. Recovering'
    BY <1>1, <1>2, <1>3 DEF Phases, Recovering
<1>6. Checking' /\ Viewing'
    BY <1>1, <1>3 DEF Phases, Checking, Viewing
<1>7. Holding'
    <2>1. ASSUME call.pc = "held"
          PROVE  /\ call.turn \in accepted /\ ~Ghost(wire', call.turn)
                 /\ \A m \in ToSet(wire') : m.kind = "held" => (call.turn \in InHost' => call.turn \in m.set)
        <3>1. /\ call.turn \in accepted /\ ~Ghost(wire, call.turn)
              /\ \A m \in ToSet(wire) : m.kind = "held" => (call.turn \in InHost => call.turn \in m.set)
            BY <1>1, <2>1 DEF Phases, Holding
        <3> QED
            BY <1>2, <3>1
    <2> QED
        BY <1>3, <2>1 DEF Holding
<1>8. Buried'
    BY <1>1, <1>2, <1>3 DEF Buried
<1>9. Seen'
    <2>1. Exempt => Exempt'
        BY <1>2, <1>3 DEF Exempt
    <2> QED
        BY <1>1, <1>3, <2>1 DEF Seen
<1> QED
    BY <1>4, <1>5, <1>6, <1>7, <1>8, <1>9 DEF Phases

LEMMA HostReadsResultDeep ==
    ASSUME Control, Deep, HostReadsResult
    PROVE  Deep'
<1> DEFINE t == sdk.results[1]
           ends == ToSet(Ends(host, t))
           m == ResultEvents(host, t)
<1>1. /\ sdk \in Processes /\ host \in Hosts /\ accepted \in SUBSET Turns /\ interrupt \in Interrupts
      /\ host.inFlight \in Seq(Turns) /\ wire \in Seq(Messages)
    BY DeepTypes
<1>2. sdk.results # <<>> /\ sdk.results \in Seq(Nat) /\ Head(sdk.results) = t /\ t \in Nat
    BY <1>1, ToSetOf DEF HostReadsResult, Processes
<1>3. /\ host' = AfterResult(host, t) /\ Emit(m)
      /\ UNCHANGED <<accepted, interrupt, reqs, up, running, resumed, native, call, targets>>
    BY <1>2 DEF HostReadsResult, viewVars, historyVars
<1>4. sdk' \in Processes /\ host' \in Hosts
    BY HostReadsResultControl DEF Control, Typed
<1>5. sdk'.run = sdk.run /\ sdk'.queue = sdk.queue /\ sdk'.results = Tail(sdk.results)
    BY <1>1 DEF HostReadsResult, Processes
<1>6. InStep(sdk, host, accepted, interrupt)
    BY DEF Deep, Stepping
<1> HIDE DEF t, m
<1>7. /\ InStep(sdk', host', accepted, interrupt) /\ ~ZeroUnread(sdk')
      /\ t = 0 => host.inFlight # <<>> /\ ends = {host.inFlight[1]} /\ interrupt.pc # "asked"
      /\ t # 0 => sdk.run = 0 /\ ~ZeroUnread(sdk)
      /\ ToSet(host'.inFlight) = InHost \ ends
      /\ \A x, y \in ToSet(host'.inFlight) : Before(host.inFlight, x, y) => Before(host'.inFlight, x, y)
    <2>1. host' = AfterResult(host, sdk.results[1])
        BY <1>3 DEF t
    <2> DEFINE n == sdk'
               g == host'
    <2>2. ReadKeeps(sdk, host, accepted, interrupt, n, g)
        <3>1. n \in Processes /\ g \in Hosts /\ n.run = sdk.run /\ n.queue = sdk.queue /\ n.results = Tail(sdk.results)
              /\ g = AfterResult(host, sdk.results[1])
            BY <1>4, <1>5, <2>1
        <3> HIDE DEF n, g
        <3> QED
            BY <1>1, <1>2, <1>6, <3>1, ReadsInStep
    <2> QED
        BY <2>2 DEF ReadKeeps, t, InHost
<1>8. Stepping'
    BY <1>3, <1>7 DEF Stepping
<1>9. DoneOnly(m) /\ {m[i].turn : i \in DOMAIN m} = ends
    BY <1>1, <1>2, ResultEventsAre DEF m
<1>10. ends \subseteq InHost
    BY <1>1, <1>2, EndsIs DEF InHost
<1> HIDE DEF ends
<1>11. /\ Emits(wire, wire', ends) /\ Open(wire') \subseteq Open(wire) \cup ends
       /\ \A x \in ToSet(wire') : x.kind = "interrupted" => x \in ToSet(wire)
    <2>1. CASE ~up
        BY <1>3, <2>1 DEF Emit, Emits
    <2>2. CASE up
        <3>1. wire' = wire \o m
            BY <1>3, <2>2 DEF Emit
        <3>2. /\ ToSet(wire') = ToSet(wire) \cup ToSet(m) /\ \A x \in ToSet(m) : x.kind = "done"
              /\ DoneOf(wire') = DoneOf(wire) \cup ends
              /\ Open(wire') \subseteq Open(wire) \cup ends
              /\ \A x : /\ Confirmed(wire', x) => Confirmed(wire, x)
                        /\ Denied(wire, x) => Denied(wire', x)
                        /\ Ghost(wire', x) => Ghost(wire, x) \/ (x \in ends /\ \E y \in ToSet(wire) : y.kind = "held" /\ x \notin y.set)
            BY <1>1, <1>9, <3>1, WireEmits
        <3> QED
            BY <3>2 DEF Emits
    <2> QED
        BY <2>1, <2>2
<1>12. Has(sdk') = Has(sdk)
    BY <1>5 DEF Has, Queued
<1>13. Belief' /\ Phases' /\ Buried' /\ Seen'
    <2>1. InHost' = InHost \ ends
        BY <1>7 DEF InHost
    <2>2. \A x, y \in InHost' : Before(host.inFlight, x, y) => Before(host'.inFlight, x, y)
        BY <1>7 DEF InHost
    <2> QED
        BY <1>3, <1>10, <1>11, <1>12, <2>1, <2>2, EmitsDeep
<1>14. Aimed'
    <2>1. Tells' => Tells
        BY <1>3, <1>11 DEF Tells
    <2>2. Asks' => Asks
        BY <1>3 DEF Asks
    <2> QED
        BY <1>3, <1>5, <1>7, <1>12, <2>1, <2>2 DEF Deep, Aimed, Waits, Believed
<1>15. Aborting'
    BY <1>7 DEF Aborting
<1>16. Unheard'
    <2>1. ASSUME NEW x \in Open(wire')
          PROVE  x \in native.dead \/ sdk.run = 0 \/ interrupt.pc # "none" \/ (Waits /\ x = call.turn)
        <3>1. CASE x \in Open(wire)
            BY <3>1 DEF Deep, Unheard
        <3>2. CASE x \in ends /\ t = 0
            <4>1. x = host.inFlight[1] /\ ZeroUnread(sdk)
                BY <1>2, <1>7, <3>2 DEF ZeroUnread, t
            <4> QED
                BY <4>1 DEF Deep, Aborting
        <3>3. CASE t # 0
            BY <1>7, <3>3
        <3> QED
            BY <1>11, <2>1, <3>1, <3>2, <3>3
    <2> QED
        BY <1>3, <1>5, <2>1 DEF Unheard, Waits
<1> QED
    BY <1>8, <1>13, <1>14, <1>15, <1>16 DEF Deep

LEMMA HostReadsReceiptDeep ==
    ASSUME Control, Deep, HostReadsReceipt
    PROVE  Deep'
<1> DEFINE folded == FoldedAcross(host, interrupt.asked, interrupt.survivors)
           d == FoldedEvents(host, folded)
           m == Reply("interrupted", 0, {})
           l == Left(host, interrupt)
<1>1. /\ sdk \in Processes /\ host \in Hosts /\ accepted \in SUBSET Turns /\ interrupt \in Interrupts
      /\ host.inFlight \in Seq(Turns) /\ wire \in Seq(Messages)
    BY DeepTypes
<1>2. /\ interrupt.pc = "told" /\ interrupt' = NoInterrupt /\ host' = AfterFolded(host, folded)
      /\ UNCHANGED <<sdk, accepted, reqs, up, running, resumed, native, call, targets>>
    BY DEF HostReadsReceipt, viewVars, historyVars
<1>3. /\ Waits /\ up /\ resumed /\ interrupt.client = native.view.gen
      /\ \A x \in ToSet(wire) : x.kind # "interrupted"
      /\ \A r \in ToSet(reqs) : r.kind # "interrupt"
    BY <1>2, Held DEF Deep, Aimed
<1>4. l = folded
    BY <1>2 DEF Left
<1>5. interrupt' \in Interrupts /\ interrupt'.pc = "none"
    BY <1>2, NoInterruptIs
<1>6. host' \in Hosts /\ host'.aborting = host.aborting /\ host'.inFlight = Only(host.inFlight, ToSet(host.inFlight) \ l)
    BY <1>1, <1>2, <1>4, HostAfter DEF AfterFolded
<1>7. m \in Messages /\ m.kind = "interrupted"
    BY ReplyIs
<1>8. DoneOnly(d) /\ {d[i].turn : i \in DOMAIN d} = InHost \cap l
    BY <1>1, <1>4, FoldedEventsAre DEF InHost
<1>9. wire' = wire \o (d \o <<m>>)
    BY <1>3 DEF HostReadsReceipt, Emit
<1> HIDE DEF folded, d, m
<1>10. l \subseteq InHost
    BY <1>2 DEF Left, FoldedAcross, InHost
<1> HIDE DEF l
<1>11. /\ InStep(sdk, host', accepted, interrupt') /\ ToSet(host'.inFlight) = InHost \ l
       /\ ZeroUnread(sdk) => host'.inFlight # <<>> /\ host'.inFlight[1] = host.inFlight[1]
    <2>1. InStep(sdk, host, accepted, interrupt)
        BY DEF Deep, Stepping
    <2>2. host' = AfterFolded(host, Left(host, interrupt))
        BY <1>2, <1>4 DEF l
    <2> DEFINE g == host'
               j == interrupt'
    <2>3. ReceiptKeeps(sdk, host, accepted, interrupt, g, j)
        <3>1. /\ g \in Hosts /\ j \in Interrupts /\ j.pc = "none" /\ g.aborting = host.aborting
              /\ g.inFlight = Only(host.inFlight, ToSet(host.inFlight) \ Left(host, interrupt))
            BY <1>4, <1>5, <1>6 DEF l
        <3> HIDE DEF g, j
        <3> QED
            BY <1>1, <1>2, <2>1, <3>1, ReceiptInStep
    <2> QED
        BY <2>3 DEF ReceiptKeeps, InHost, l
<1>12. Stepping'
    BY <1>2, <1>11 DEF Stepping
<1>13. InHost' = InHost \ l
    BY <1>11 DEF InHost
<1>14. \A x, y \in InHost' : Before(host.inFlight, x, y) => Before(host'.inFlight, x, y)
    <2> DEFINE S == ToSet(host.inFlight) \ l
    <2>1. Distinct(host.inFlight) /\ S \in SUBSET ToSet(host.inFlight) /\ host'.inFlight = Only(host.inFlight, S)
        BY <1>6, InHostFacts DEF Deep
    <2>2. S = InHost'
        BY <1>13 DEF InHost
    <2> HIDE DEF S
    <2>3. \A x, y : Before(host'.inFlight, x, y) <=> x \in S /\ y \in S /\ Before(host.inFlight, x, y)
        BY <1>1, <2>1, OnlyPart
    <2> QED
        BY <2>2, <2>3
<1>15. /\ Emits(wire, wire', l) /\ Open(wire') = {}
    <2> DEFINE w == wire \o d
               r == <<m>>
    <2>1. d \in Seq(Messages) /\ r \in Seq(Messages)
        BY <1>7, <1>8 DEF DoneOnly
    <2>2. w \in Seq(Messages)
        BY <1>1, <2>1, ConcatFacts
    <2>3. wire' = w \o r
        <3> HIDE DEF r
        <3> QED
            BY <1>1, <1>9, <2>1, ConcatAssociative DEF r
    <2>4. {d[i].turn : i \in DOMAIN d} = l
        BY <1>8, <1>10
    <2>5. /\ ToSet(w) = ToSet(wire) \cup ToSet(d) /\ \A x \in ToSet(d) : x.kind = "done"
          /\ DoneOf(w) = DoneOf(wire) \cup l
          /\ \A x : /\ Confirmed(w, x) => Confirmed(wire, x)
                    /\ Denied(wire, x) => Denied(w, x)
                    /\ Ghost(w, x) => Ghost(wire, x) \/ (x \in l /\ \E y \in ToSet(wire) : y.kind = "held" /\ x \notin y.set)
        BY <1>1, <1>8, <2>4, WireEmits
    <2> HIDE DEF w
    <2>6. m.kind # "done" /\ m.kind \notin {"sent", "held"} /\ m.kind # "checked" /\ m.kind \in {"sent", "interrupted"}
        BY <1>7
    <2>7. /\ ToSet(wire') = ToSet(w) \cup {m} /\ DoneOf(wire') = DoneOf(w) /\ Open(wire') = {}
          /\ \A x : /\ Confirmed(wire', x) => Confirmed(w, x)
                    /\ Denied(w, x) => Denied(wire', x)
                    /\ Ghost(wire', x) => Ghost(w, x)
        BY <1>7, <2>2, <2>3, <2>6, WireReplies
    <2> QED
        BY <1>7, <2>5, <2>7 DEF Emits
<1>16. Belief' /\ Phases' /\ Buried' /\ Seen'
    BY <1>2, <1>10, <1>13, <1>14, <1>15, EmitsDeep
<1>17. Aimed'
    <2>1. Tells
        BY <1>2 DEF Tells
    <2>2. ~Asks'
        BY <1>2, <1>3, <1>5 DEF Asks
    <2> QED
        BY <1>2, <1>3, <1>5, <2>1, <2>2 DEF Deep, Aimed, Waits, Believed
<1>18. Aborting'
    BY <1>2, <1>11 DEF Deep, Aborting, Waits
<1>19. Unheard'
    BY <1>15 DEF Unheard
<1> QED
    BY <1>12, <1>16, <1>17, <1>18, <1>19 DEF Deep

-----------------------------------------------------------------------------
(* What the host is asked.                                                 *)
LEMMA FiniteSeq ==
    ASSUME NEW T, NEW s \in Seq(T)
    PROVE  IsFiniteSet(ToSet(s))
<1>1. s \in Seq(ToSet(s))
    BY DEF ToSet
<1>2. \A x \in ToSet(s) : \E n \in 1..Len(s) : s[n] = x
    BY DEF ToSet
<1> QED
    BY <1>1, <1>2 DEF IsFiniteSet

\* An answer that changes nothing at the host: its status, or that a message was known.
LEMMA RepliesDeep ==
    ASSUME Control, Deep, up, reqs # <<>>, reqs' = Tail(reqs),
           NEW m \in Messages, m.kind \in Asked \cup {"sent"}, Emit(<<m>>),
           m.kind = "sent" => m.set = {}, m.kind = "held" => call.pc = "held",
           m.kind \in Asked => m.set = InHost /\ m.turn = (IF host.inFlight = <<>> THEN 0 ELSE host.inFlight[1]),
           UNCHANGED <<sdk, host, accepted, interrupt, up, running, resumed, native, call, targets>>
    PROVE  Deep'
<1>1. /\ host.inFlight \in Seq(Turns) /\ wire \in Seq(Messages) /\ reqs \in Seq(Requests) /\ running \in Seq(Turns)
      /\ InHost \subseteq accepted
    BY DeepTypes, InHostFacts DEF Deep
<1>2. wire' = wire \o <<m>> /\ m.kind # "done"
    BY DEF Emit, Asked
<1>3. /\ ToSet(wire') = ToSet(wire) \cup {m} /\ DoneOf(wire') = DoneOf(wire) /\ Open(wire') \subseteq Open(wire)
      /\ \A t : /\ Confirmed(wire', t) => Confirmed(wire, t) \/ (m.kind \in {"sent", "held"} /\ t \in m.set)
                /\ Denied(wire, t) /\ (m.kind = "checked" => t \notin m.set) => Denied(wire', t)
                /\ Ghost(wire', t) => Ghost(wire, t)
    BY <1>1, <1>2, WireReplies
<1>4. InHost' = InHost /\ Believed' = Believed /\ ToSet(reqs') \subseteq ToSet(reqs)
    BY <1>1, TailFacts DEF InHost, Believed
<1>5. \A t : t \notin InHost => (Confirmed(wire', t) => Confirmed(wire, t)) /\ (Denied(wire, t) => Denied(wire', t))
    BY <1>3 DEF Asked
<1>6. Stepping' /\ Aborting'
    BY <1>4 DEF Deep, Stepping, Aborting, Waits
<1>7. Aimed'
    <2>1. (Asks' => Asks) /\ (Tells' => Tells)
        BY <1>3, <1>4 DEF Asks, Tells, Asked
    <2> QED
        BY <1>4, <2>1 DEF Deep, Aimed, Waits
<1>8. Belief'
    BY <1>3, <1>4, <1>5 DEF Deep, Belief
<1>9. Recovering'
    <2>1. IsFiniteSet(InHost) /\ IF host.inFlight = <<>> THEN InHost = {} ELSE host.inFlight[1] \in InHost
        BY <1>1, FiniteSeq, ToSetOf DEF InHost
    <2>2. m.kind = "recovered" => /\ InHost \subseteq m.set /\ m.set \subseteq accepted /\ IsFiniteSet(m.set)
                                  /\ IF m.turn = 0 THEN m.set = {} ELSE m.turn \in m.set
        <3>1. host.inFlight # <<>> => host.inFlight[1] # 0
            BY <1>1, ToSetOf DEF Turns
        <3> QED
            BY <1>1, <2>1, <3>1 DEF Asked
    <2> QED
        BY <1>3, <1>4, <2>2 DEF Deep, Phases, Recovering
<1>10. Checking' /\ Viewing'
    BY <1>4 DEF Deep, Phases, Checking, Viewing
<1>11. Holding'
    BY <1>3, <1>4 DEF Deep, Phases, Holding, Asked
<1>12. Unheard' /\ Buried'
    <2>1. Unheard'
        BY <1>3 DEF Deep, Unheard, Waits
    <2>2. Buried'
        BY <1>4, <1>5 DEF Deep, Buried
    <2> QED
        BY <2>1, <2>2
<1>13. Seen'
    <2>1. ASSUME Exempt
          PROVE  Exempt'
        <3>1. call'.turn \notin InHost' \/ \E x \in ToSet(wire') : x.kind = "sent" /\ x.set # {}
            BY <1>3, <1>4, <2>1 DEF Exempt
        <3>2. m.kind = "held" => call.turn \notin m.set
            <4>1. m.kind = "held" => \A x \in ToSet(wire) : x.kind # "sent"
                BY Kinds
            <4> QED
                BY <2>1, <4>1 DEF Exempt, Asked
        <3> QED
            BY <1>3, <1>4, <2>1, <3>1, <3>2 DEF Exempt
    <2> QED
        BY <1>4, <2>1 DEF Deep, Seen
<1> QED
    BY <1>6, <1>7, <1>8, <1>9, <1>10, <1>11, <1>12, <1>13 DEF Deep, Phases

LEMMA ServeStatusDeep ==
    ASSUME Control, Deep, HostServes, Head(reqs).kind \notin {"send", "interrupt"}, ServeStatus(Head(reqs).kind)
    PROVE  Deep'
<1> DEFINE k == Head(reqs).kind
           m == Reply(k, IF host.inFlight = <<>> THEN 0 ELSE Head(host.inFlight), ToSet(host.inFlight))
<1>1. Typed
    BY DEF Control
<1>2. up /\ reqs # <<>> /\ reqs' = Tail(reqs) /\ reqs \in Seq(Requests)
    BY <1>1 DEF HostServes, Typed
<1>3. k \in Asked /\ k = Answer(k) /\ k # "sent"
    <2>1. Head(reqs) \in Requests
        BY <1>2
    <2>2. k \in Asked
        BY <2>1 DEF Requests
    <2> QED
        BY <2>2 DEF Answer, Asked
<1>4. m \in Messages /\ m.kind = k /\ m.set = InHost /\ m.turn = (IF host.inFlight = <<>> THEN 0 ELSE host.inFlight[1])
    BY <1>1, <1>3, StatusReplyIs DEF InHost
<1>5. Emit(<<m>>)
    BY DEF ServeStatus
<1> HIDE DEF m
<1>6. m.kind \in Awaited(call, sweep)
    BY <1>2, <1>3, <1>4, <1>5, ServedReply
<1>7. m.kind = "held" => call.pc = "held"
    BY <1>6 DEF Awaited
<1>8. UNCHANGED <<sdk, host, accepted, interrupt, up, running, resumed, native, call, targets>>
    BY DEF HostServes, ServeStatus, viewVars, hostVars
<1> HIDE DEF k
<1> QED
    BY <1>2, <1>3, <1>4, <1>5, <1>7, <1>8, RepliesDeep

LEMMA ServeInterruptDeep ==
    ASSUME Control, Deep, HostServes, Head(reqs).kind = "interrupt", ServeInterrupt, interrupt' \in Interrupts
    PROVE  Deep'
<1>1. /\ sdk \in Processes /\ host \in Hosts /\ accepted \in SUBSET Turns /\ interrupt \in Interrupts
      /\ reqs \in Seq(Requests)
    BY DeepTypes
<1>2. up /\ reqs # <<>> /\ reqs' = Tail(reqs) /\ Head(reqs) \in ToSet(reqs)
    BY <1>1, ToSetOf DEF HostServes
<1>3. /\ UNCHANGED <<sdk, accepted, wire, up, running, resumed, native, call, targets>>
      /\ interrupt.pc = "none" /\ host' = Interrupted(host)
    BY DEF HostServes, ServeInterrupt, viewVars
<1>4. interrupt'.pc = "asked" /\ interrupt'.asked = Interrupting(host) /\ interrupt'.client = native.view.gen
    <2> DEFINE a == Interrupting(host)
               g == native.view.gen
    <2>1. interrupt' = [NoInterrupt EXCEPT !.pc = "asked", !.asked = a, !.client = g]
        BY DEF ServeInterrupt
    <2> HIDE DEF a, g
    <2>2. interrupt'.pc = "asked" /\ interrupt'.asked = a /\ interrupt'.client = g
        BY <2>1 DEF NoInterrupt
    <2> QED
        BY <2>2 DEF a, g
<1>5. Waits /\ Asks
    BY <1>2, Kinds DEF Asks
<1>6. sdk.run \in {0, call.turn} /\ ~ZeroUnread(sdk)
    BY <1>5 DEF Deep, Aimed
<1>7. InStep(sdk, Interrupted(host), accepted, interrupt') /\ Interrupted(host).inFlight = host.inFlight
    <2> DEFINE j == interrupt'
    <2>1. j \in Interrupts /\ j.pc = "asked" /\ j.asked = Interrupting(host)
        BY <1>4
    <2> HIDE DEF j
    <2>2. InStep(sdk, host, accepted, interrupt)
        BY DEF Deep, Stepping
    <2>3. InStep(sdk, Interrupted(host), accepted, j)
        BY <1>1, <1>3, <1>6, <2>1, <2>2, AsksInStep
    <2>4. Interrupted(host).inFlight = host.inFlight
        BY <1>1 DEF Interrupted, Hosts
    <2> QED
        BY <2>3, <2>4 DEF j
<1>8. Stepping' /\ host'.inFlight = host.inFlight /\ InHost' = InHost /\ Believed' = Believed
    BY <1>3, <1>7 DEF Stepping, InHost, Believed
<1>9. Aimed'
    <2>1. Tells' => Tells
        BY <1>3, <1>4 DEF Tells
    <2> QED
        BY <1>2, <1>3, <1>4, <1>5, <1>8, <2>1 DEF Deep, Aimed, Waits
<1>10. Belief'
    BY <1>3, <1>8 DEF Deep, Belief
<1>11. Phases' /\ Seen'
    BY <1>3, <1>8 DEF Deep, Phases, Recovering, Checking, Viewing, Holding, Seen, Exempt
<1>12. Aborting' /\ Unheard' /\ Buried'
    BY <1>3, <1>4, <1>6, <1>8 DEF Deep, Aborting, Unheard, Buried
<1> QED
    BY <1>8, <1>9, <1>10, <1>11, <1>12 DEF Deep

LEMMA AcceptsDeep ==
    ASSUME Control, Deep, HostServes, reqs # <<>>, NEW t \in Turns, t = call.turn, call.pc = "accept", t \notin accepted,
           accepted' = accepted \cup {t}, host' = Sent(host, t), sdk' = Fed(sdk, t), Emit(<<Reply("sent", t, {t})>>),
           Trouble("misread", \E i \in DOMAIN sdk.results : sdk.results[i] # 0), interrupt' = interrupt, trouble' = {}
    PROVE  Deep'
<1> DEFINE m == Reply("sent", t, {t})
<1>1. /\ sdk \in Processes /\ host \in Hosts /\ accepted \in SUBSET Turns /\ interrupt \in Interrupts
      /\ host.inFlight \in Seq(Turns) /\ wire \in Seq(Messages) /\ reqs \in Seq(Requests) /\ running \in Seq(Turns)
    BY DeepTypes
<1>2. /\ up /\ reqs' = Tail(reqs) /\ UNCHANGED <<up, running, resumed, native, call, targets>>
    BY DEF HostServes, viewVars
<1>3. call.op = "send" /\ ~Waits
    BY DEF Waits, Control, Shape
<1>4. interrupt.pc = "none"
    BY <1>3, Held DEF Deep
<1>5. Named(sdk) = 0
    <2>1. \A i \in DOMAIN sdk.results : sdk.results[i] = 0
        BY DEF Trouble
    <2>2. sdk.results # <<>> => Len(sdk.results) \in DOMAIN sdk.results
        BY <1>1 DEF Processes
    <2> QED
        BY <2>1, <2>2 DEF Named
<1>6. /\ InHost \subseteq accepted /\ Distinct(host.inFlight) /\ (ZeroUnread(sdk) => host.inFlight # <<>>)
      /\ t \notin InHost
    BY InHostFacts DEF Deep
<1>7. Stepping' /\ ZeroUnread(sdk') = ZeroUnread(sdk) /\ host'.inFlight = Append(host.inFlight, t)
    <2>1. InStep(sdk, host, accepted, interrupt)
        BY DEF Deep, Stepping
    <2>2. InStep(Fed(sdk, t), Sent(host, t), accepted \cup {t}, interrupt)
        BY <1>1, <1>4, <1>5, <2>1, AcceptsInStep
    <2>5. ZeroUnread(Fed(sdk, t)) = ZeroUnread(sdk)
        BY <1>1, FedIs DEF ZeroUnread
    <2>3. Sent(host, t).inFlight = Append(host.inFlight, t)
        BY <1>1 DEF Sent, Hosts
    <2> QED
        BY <2>2, <2>3, <2>5 DEF Stepping
<1>8. Has(sdk') = Has(sdk) \cup {t}
    BY <1>1, FedIs
<1>9. /\ InHost' = InHost \cup {t} /\ Believed' = Believed
      /\ host.inFlight # <<>> => host'.inFlight[1] = host.inFlight[1]
      /\ \A x, y : Before(host'.inFlight, x, y) <=> Before(host.inFlight, x, y) \/ (x \in InHost /\ y = t)
    BY <1>1, <1>2, <1>7, AppendFacts DEF InHost, Believed
<1>10. m \in Messages /\ m.kind = "sent" /\ m.set = {t}
    <2> DEFINE S == {t}
               k == "sent"
    <2>1. S \in SUBSET Turns /\ t \in Nat /\ k \in Asked \cup {"sent", "interrupted"}
        BY DEF Turns
    <2>2. m = Reply(k, t, S)
        OBVIOUS
    <2> HIDE DEF S, k, m
    <2>3. m \in Messages /\ m.kind = k /\ m.set = S
        BY <2>1, <2>2, ReplyIs
    <2> QED
        BY <2>3 DEF S, k
<1>11. wire' = wire \o <<m>>
    BY <1>2 DEF Emit
<1> HIDE DEF m
<1>12. /\ ToSet(wire') = ToSet(wire) \cup {m} /\ DoneOf(wire') = DoneOf(wire) /\ Open(wire') = {}
       /\ \A x : x # t => (Confirmed(wire', x) => Confirmed(wire, x))
    <2>1. m.kind # "done" /\ m.kind \in {"sent", "interrupted"} /\ m.kind \notin {"recovered", "held", "checked"}
        BY <1>10
    <2>2. /\ ToSet(wire') = ToSet(wire) \cup {m} /\ DoneOf(wire') = DoneOf(wire) /\ Open(wire') = {}
          /\ \A x : Confirmed(wire', x) => Confirmed(wire, x) \/ (m.kind \in {"sent", "held"} /\ x \in m.set)
        BY <1>1, <1>10, <1>11, <2>1, WireReplies
    <2> QED
        BY <1>10, <2>2
<1>13. Aimed'
    BY <1>2, <1>3, <1>4 DEF Aimed, Waits
<1>14. /\ t \in Believed /\ t \notin DoneOf(wire) /\ Last1(running, t)
       /\ Distinct(running) /\ call.pc \in Starting
    <2>1. t \in Believed /\ t \notin DoneOf(wire) /\ Distinct(running) /\ call.pc \in Starting
        BY DEF Deep, Belief, Starting
    <2>2. call.pc # "check"
        OBVIOUS
    <2> QED
        BY <1>6, <2>1, <2>2 DEF Deep, Belief
<1>15. Belief'
    <2>1. DoneOf(wire') \cap InHost' = {} /\ DoneOf(wire') \subseteq accepted' /\ Distinct(running')
        BY <1>2, <1>9, <1>12, <1>14 DEF Deep, Belief
    <2>2. resumed' => InHost' \subseteq Believed'
        BY <1>2, <1>9, <1>14 DEF Deep, Belief
    <2>3. Believed' \ (DoneOf(wire') \cup InHost') = {}
        <3>1. call.pc # "check"
            OBVIOUS
        <3> QED
            BY <1>9, <1>12, <3>1 DEF Deep, Belief
    <2>4. ASSUME NEW x \in InHost', NEW y \in InHost', Before(running', x, y)
          PROVE  Before(host'.inFlight, x, y)
        <3>1. CASE x \in InHost /\ y \in InHost
            BY <1>2, <1>9, <2>4, <3>1 DEF Deep, Belief
        <3>2. CASE y = t
            <4>1. x # t
                BY <1>1, <1>2, <1>14, <2>4, <3>2, OrderFacts
            <4> QED
                BY <1>9, <3>2, <4>1
        <3>3. CASE x = t /\ y # t
            <4>1. y \in Believed /\ y # t
                BY <1>1, <1>2, <1>14, <2>4, <3>3, OrderFacts DEF Believed
            <4>2. Before(running, y, t)
                BY <1>14, <4>1 DEF Last1, Believed
            <4> QED
                BY <1>1, <1>2, <1>14, <2>4, <3>3, <4>2, OrderFacts
        <3> QED
            BY <1>9, <3>1, <3>2, <3>3
    <2>5. call'.pc \in Starting => call'.turn \in Believed' \cup accepted'
        BY <1>2, <1>9, <1>14
    <2> QED
        BY <2>1, <2>2, <2>3, <2>4, <2>5 DEF Belief
<1>16. Phases'
    BY <1>2 DEF Phases, Recovering, Checking, Viewing, Holding
<1>17. Aborting'
    BY <1>2, <1>6, <1>7, <1>9 DEF Deep, Aborting, Waits
<1>18. Unheard'
    BY <1>12 DEF Unheard
<1>19. Buried'
    <2>1. t \notin native.dead
        BY DEF Deep, Buried
    <2>2. native.dead \subseteq accepted' /\ native.dead \cap Has(sdk') = {}
        BY <1>8, <2>1 DEF Deep, Buried
    <2>3. \A x \in native.dead \cap Believed : x = running[1]
        BY <2>1 DEF Deep, Buried
    <2> QED
        BY <1>2, <1>9, <2>2, <2>3 DEF Buried
<1>20. Seen'
    <2>1. ASSUME Exempt
          PROVE  Exempt'
        <3>1. \E x \in ToSet(wire') : x.kind = "sent" /\ x.set # {}
            BY <1>10, <1>12
        <3> QED
            BY <1>2, <1>10, <1>12, <2>1, <3>1 DEF Exempt
    <2> QED
        BY <1>2, <2>1 DEF Deep, Seen
<1> QED
    BY <1>7, <1>13, <1>15, <1>16, <1>17, <1>18, <1>19, <1>20 DEF Deep

LEMMA ServeSendDeep ==
    ASSUME Control, Deep, HostServes, Head(reqs).kind = "send", ServeSend(Head(reqs).turn), trouble' = {}
    PROVE  Deep'
<1> DEFINE t == Head(reqs).turn
           m == Reply("sent", t, {})
<1>1. up /\ reqs # <<>> /\ reqs' = Tail(reqs) /\ reqs \in Seq(Requests) /\ Head(reqs) \in ToSet(reqs)
    BY DeepTypes, ToSetOf DEF HostServes
<1>2. call.pc = "accept" /\ t = call.turn
    BY <1>1, Kinds
<1>3. t \in Turns
    <2>1. Head(reqs) = reqs[1] /\ 1 \in DOMAIN reqs /\ reqs[1] \in Requests
        BY <1>1
    <2> QED
        BY <2>1 DEF Control, Typed, Requests, Turns
<1>4. UNCHANGED <<up, running, resumed, native, call, targets>>
    BY DEF HostServes, viewVars
<1>5. CASE /\ Accepts(accepted, t) /\ accepted' = accepted \cup {t} /\ host' = Sent(host, t) /\ sdk' = Fed(sdk, t)
           /\ Emit(<<Reply("sent", t, {t})>>) /\ interrupt' = interrupt
           /\ Trouble("misread", \E i \in DOMAIN sdk.results : sdk.results[i] # 0)
    <2>1. t \notin accepted
        BY <1>5 DEF Accepts
    <2> HIDE DEF t
    <2> QED
        BY <1>1, <1>2, <1>3, <1>5, <2>1, AcceptsDeep
<1>6. CASE Emit(<<m>>) /\ UNCHANGED hostVars
    <2>1. m \in Messages /\ m.kind = "sent" /\ m.set = {}
        <3>1. t \in Nat
            BY <1>3 DEF Turns
        <3> QED
            BY <3>1, ReplyIs
    <2>2. m.kind \notin Asked
        BY <2>1 DEF Asked
    <2>3. UNCHANGED <<sdk, host, accepted, interrupt>>
        BY <1>6 DEF hostVars
    <2> HIDE DEF m
    <2> QED
        BY <1>1, <1>4, <1>6, <2>1, <2>2, <2>3, RepliesDeep
<1> QED
    BY <1>5, <1>6 DEF ServeSend

LEMMA HostServesDeep ==
    ASSUME Control, Deep, HostServes, trouble' = {}
    PROVE  Deep'
<1>1. CASE Head(reqs).kind = "send" /\ ServeSend(Head(reqs).turn)
    BY <1>1, ServeSendDeep
<1>2. CASE Head(reqs).kind = "interrupt" /\ ServeInterrupt
    <2>1. interrupt' \in Interrupts
        BY <1>2, ServeInterruptControl DEF Control, Typed
    <2> QED
        BY <1>2, <2>1, ServeInterruptDeep
<1>3. CASE Head(reqs).kind \notin {"send", "interrupt"} /\ ServeStatus(Head(reqs).kind)
    BY <1>3, ServeStatusDeep
<1> QED
    BY <1>1, <1>2, <1>3 DEF HostServes

-----------------------------------------------------------------------------
(* The runtime: steps of a call that change nothing but the call.          *)
LEMMA CallDeep ==
    ASSUME Control, Deep,
           UNCHANGED <<sdk, host, accepted, interrupt, wire, up, running, resumed, native, targets>>,
           call.op # "interrupt", call'.op # "interrupt",
           \/ call.pc \in Starting /\ call'.pc = "accept" /\ call'.turn = call.turn
           \/ call.pc \notin Starting \cup {"check", "recover"} /\ call'.pc \notin Starting \cup {"check", "view"},
           call'.pc = "recover" => call'.turn = 0
    PROVE  Deep'
<1>1. ~Waits /\ ~Waits' /\ interrupt.pc = "none"
    BY Held DEF Deep, Waits
<1>2. InHost' = InHost /\ Believed' = Believed
    BY DEF InHost, Believed
<1>3. \A m \in ToSet(wire) : (m.kind = "recovered" => call.pc = "recover") /\ (m.kind = "held" => call.pc = "held")
    BY Kinds
<1>4. Stepping' /\ Aimed'
    BY <1>1 DEF Deep, Stepping, Aimed
<1>5. Aborting' /\ Unheard'
    BY <1>1 DEF Deep, Aborting, Unheard
<1>6. Belief'
    BY <1>2 DEF Deep, Belief, Starting
<1>7. Phases'
    BY <1>2, <1>3 DEF Phases, Recovering, Checking, Viewing, Holding, Starting
<1>8. Buried'
    BY <1>2 DEF Deep, Buried, Starting
<1>9. Seen'
    BY <1>2 DEF Deep, Seen, Exempt, Starting
<1> QED
    BY <1>4, <1>5, <1>6, <1>7, <1>8, <1>9 DEF Deep

LEMMA ProbeBeginsDeep ==
    ASSUME Control, Deep, NEW p \in probes, ProbeBegins(p)
    PROVE  Deep'
<1>1. UNCHANGED <<sdk, host, accepted, interrupt, reqs, wire, up, running, resumed, native, call, targets>>
    BY DEF ProbeBegins, hostVars, historyVars
<1>2. Has(sdk') \subseteq Has(sdk) /\ sdk'.run \in {0, sdk.run} /\ ZeroUnread(sdk') = ZeroUnread(sdk) /\ Stepping'
    BY <1>1 DEF Deep, Stepping
<1> QED
    BY <1>1, <1>2, ProcessDeep

LEMMA SweepBeginsDeep ==
    ASSUME Control, Deep, SweepBegins
    PROVE  Deep'
<1>1. UNCHANGED <<sdk, host, accepted, interrupt, wire, up, running, resumed, native, call, targets>>
    BY DEF SweepBegins, hostVars, historyVars, viewVars
<1>2. /\ InHost' = InHost /\ Believed' = Believed /\ (Waits' <=> Waits) /\ (Tells' <=> Tells)
    BY <1>1 DEF InHost, Believed, Waits, Tells
<1>3. Asks' => Asks
    <2>1. reqs' = Append(reqs, [kind |-> "status", turn |-> 0]) /\ [kind |-> "status", turn |-> 0] \in Requests
        BY RequestIs DEF SweepBegins, Control, Asked
    <2>2. ToSet(reqs') = ToSet(reqs) \cup {[kind |-> "status", turn |-> 0]}
        BY <2>1, DeepTypes, AppendFacts
    <2> QED
        BY <1>1, <2>2 DEF Asks
<1>4. Stepping' /\ Aimed' /\ Aborting' /\ Unheard'
    BY <1>1, <1>2, <1>3 DEF Deep, Stepping, Aimed, Aborting, Unheard
<1>5. Belief' /\ Phases'
    BY <1>1, <1>2 DEF Deep, Belief, Phases, Recovering, Checking, Viewing, Holding
<1>6. Buried' /\ Seen'
    BY <1>1, <1>2 DEF Deep, Buried, Seen, Exempt
<1> QED
    BY <1>4, <1>5, <1>6 DEF Deep

LEMMA SendBeginsDeep ==
    ASSUME Control, Deep, SendBegins
    PROVE  Deep'
<1>1. PICK turn : Begins([NoCall EXCEPT !.op = "send", !.pc = "choose", !.turn = turn])
    BY DEF SendBegins
<1>2. call.op = "none" /\ call.pc = "none" /\ call'.op = "send" /\ call'.pc = "choose"
    BY <1>1 DEF Begins, NoCall, Control, Shape
<1>3. UNCHANGED <<sdk, host, accepted, interrupt, wire, up, running, resumed, native, targets>>
    BY DEF SendBegins, hostVars, historyVars
<1> QED
    BY <1>2, <1>3, CallDeep DEF Starting

LEMMA ModelSetDeep ==
    ASSUME Control, Deep, ModelSet
    PROVE  Deep'
<1>1. UNCHANGED <<sdk, host, accepted, interrupt, wire, up, running, resumed, native, targets>>
      /\ call.pc = "model" /\ call' = [call EXCEPT !.pc = "accept"]
    BY DEF ModelSet, hostVars, historyVars, viewVars
<1>2. call' \in Calls /\ call'.pc = "accept" /\ call'.op = call.op /\ call'.turn = call.turn /\ call.op = "send"
    BY <1>1 DEF Control, Typed, Shape, Calls, Starting
<1> QED
    BY <1>1, <1>2, CallDeep DEF Starting

LEMMA CallEndsDeep ==
    ASSUME Control, Deep, CallEnds
    PROVE  Deep'
<1>1. UNCHANGED <<sdk, host, accepted, interrupt, wire, up, running, resumed, native, targets>>
      /\ call.pc = "last" /\ call'.op = "none" /\ call'.pc = "none"
    BY NoCallIs DEF CallEnds, hostVars, historyVars, viewVars
<1>2. call.op # "interrupt"
    BY <1>1 DEF Deep, Aimed
<1> QED
    BY <1>1, <1>2, CallDeep DEF Starting

LEMMA ResumeBeginsDeep ==
    ASSUME Control, Deep, ResumeBegins
    PROVE  Deep'
<1>1. UNCHANGED <<sdk, host, accepted, interrupt, wire, up, running, resumed, native, targets>>
      /\ call.op = "none" /\ call' = [NoCall EXCEPT !.op = "resume", !.pc = "recover"]
    BY DEF ResumeBegins, hostVars, historyVars, viewVars
<1>2. call'.op = "resume" /\ call'.pc = "recover" /\ call'.turn = 0 /\ call.pc = "none"
    BY <1>1 DEF NoCall, Control, Shape
<1> QED
    BY <1>1, <1>2, CallDeep DEF Starting

LEMMA WithoutHead ==
    ASSUME NEW s \in Seq(Turns), Distinct(s), s # <<>>, NEW turn, s[1] # turn
    PROVE  Without(s, turn) # <<>> /\ Without(s, turn)[1] = s[1]
<1> DEFINE S == ToSet(s) \ {turn}
<1>1. s[1] \in S
    BY ToSetOf
<1> HIDE DEF S
<1>2. Only(s, S) # <<>> /\ Only(s, S)[1] = s[1]
    BY <1>1, OnlyHead
<1> QED
    BY <1>2 DEF Without, S

\* A head that comes after all others is alone.
LEMMA AloneWithout ==
    ASSUME NEW s \in Seq(Turns), Distinct(s), s # <<>>, Last1(s, s[1])
    PROVE  Without(s, s[1]) = <<>>
<1>1. ToSet(s) \subseteq {s[1]}
    BY OrderFacts DEF Last1
<1>2. Without(s, s[1]) \in Seq(Turns) /\ ToSet(Without(s, s[1])) = ToSet(s) \ {s[1]}
    BY WithoutIs
<1>3. ToSet(Without(s, s[1])) = {}
    BY <1>1, <1>2
<1> QED
    BY <1>2, <1>3, ToSetOf

LEMMA ReservesDeep ==
    ASSUME Control, Deep, call.pc = "choose", call'.pc = "model", call'.op = "send", call'.turn = call.turn,
           native.view.status # "unknown", call.turn \in Turns,
           running' = IF call.turn \in ToSet(running) THEN running ELSE Append(running, call.turn),
           UNCHANGED <<sdk, host, accepted, interrupt, wire, up, resumed, native, targets>>
    PROVE  Deep'
<1> DEFINE t == call.turn
<1>1. running \in Seq(Turns) /\ call.op = "send" /\ ~Waits /\ ~Waits' /\ interrupt.pc = "none" /\ InHost' = InHost
    <2>1. call.op = "send" /\ ~Waits /\ ~Waits'
        BY DEF Waits, Control, Shape
    <2> QED
        BY <2>1, DeepTypes, Held DEF Deep, InHost
<1>2. resumed /\ Distinct(running) /\ InHost \subseteq Believed /\ Believed \subseteq DoneOf(wire) \cup InHost
    BY DEF Deep, Seen, Belief, Starting
<1>3. \A m \in ToSet(wire) : m.kind \notin {"sent", "held"}
    BY Kinds
<1>4. ~Confirmed(wire, t)
    BY <1>3 DEF Confirmed
<1>5. /\ running' \in Seq(Turns) /\ Distinct(running') /\ Believed' = Believed \cup {t}
      /\ running # <<>> => running' # <<>> /\ running'[1] = running[1]
      /\ running = <<>> => running' # <<>> /\ running'[1] = t /\ t \notin Believed
      /\ t \notin Believed => Last1(running', t)
      /\ \A x, y \in InHost : Before(running', x, y) => Before(running, x, y)
    <2>1. CASE t \in Believed
        <3>1. running' = running /\ running # <<>>
            BY <1>1, <2>1, ToSetOf DEF Believed
        <3> QED
            BY <1>1, <1>2, <2>1, <3>1 DEF Believed
    <2>2. CASE t \notin Believed
        <3>1. running' = Append(running, t)
            BY <2>2 DEF Believed
        <3> HIDE DEF t
        <3>2. /\ running' \in Seq(Turns) /\ running' # <<>> /\ ToSet(running') = ToSet(running) \cup {t}
              /\ running'[1] = (IF running = <<>> THEN t ELSE running[1])
              /\ Distinct(running')
              /\ \A x, y : Before(running', x, y) <=> Before(running, x, y) \/ (x \in ToSet(running) /\ y = t)
            <4>1. t \in Turns
                BY DEF t
            <4> QED
                BY <1>1, <1>2, <2>2, <3>1, <4>1, AppendFacts DEF Believed
        <3>3. Last1(running', t)
            BY <3>2 DEF Last1
        <3>4. t \notin InHost
            BY <1>2, <2>2
        <3> QED
            BY <2>2, <3>2, <3>3, <3>4 DEF Believed
    <2> QED
        BY <2>1, <2>2
<1>6. Stepping' /\ Aimed'
    BY <1>1 DEF Deep, Stepping, Aimed
<1>7. Belief'
    <2>1. DoneOf(wire') \cap InHost' = {} /\ DoneOf(wire') \subseteq accepted'
        BY <1>1 DEF Deep, Belief
    <2>2. \A x \in Believed' \ (DoneOf(wire') \cup InHost') : x = t /\ t \notin Believed
        BY <1>1, <1>2, <1>5
    <2>3. \A x, y \in InHost' : Before(running', x, y) => Before(host'.inFlight, x, y)
        BY <1>1, <1>5 DEF Deep, Belief
    <2> QED
        BY <1>1, <1>2, <1>4, <1>5, <2>1, <2>2, <2>3 DEF Belief, Starting
<1>8. Phases'
    BY DEF Phases, Recovering, Checking, Viewing, Holding
<1>9. Aborting'
    BY <1>1, <1>5 DEF Deep, Aborting
<1>10. Unheard'
    BY <1>1 DEF Deep, Unheard
<1>11. Buried'
    <2>1. native.dead \subseteq accepted /\ native.dead \cap Has(sdk) = {} /\ \A x \in native.dead \cap Believed : x = running[1]
        BY DEF Deep, Buried, Starting
    <2>2. ASSUME NEW x \in native.dead \cap Believed'
          PROVE  x = running'[1] \/ (x = t /\ t \notin InHost)
        <3>1. CASE x \in Believed
            <4>1. running # <<>>
                BY <1>1, <3>1, ToSetOf DEF Believed
            <4> QED
                BY <1>5, <2>1, <2>2, <3>1, <4>1
        <3>2. CASE x \notin Believed
            BY <1>2, <1>5, <2>2, <3>2
        <3> QED
            BY <3>1, <3>2
    <2> QED
        BY <1>1, <1>4, <2>1, <2>2 DEF Buried, Starting
<1>12. Seen'
    <2>1. CASE running = <<>>
        <3>1. InHost = {} /\ running'[1] = t
            BY <1>2, <1>5, <2>1 DEF Believed, ToSet
        <3>2. Exempt'
            BY <1>1, <1>3, <3>1 DEF Exempt, Starting
        <3> QED
            BY <1>2, <2>1, <3>2 DEF Deep, Seen
    <2>2. CASE running # <<>>
        <3>1. ~Exempt
            BY DEF Exempt, Starting
        <3> QED
            BY <1>2, <1>5, <2>2, <3>1 DEF Deep, Seen
    <2> QED
        BY <2>1, <2>2
<1> QED
    BY <1>6, <1>7, <1>8, <1>9, <1>10, <1>11, <1>12 DEF Deep

LEMMA SendChoosesDeep ==
    ASSUME Control, Deep, SendChooses
    PROVE  Deep'
<1>1. UNCHANGED <<sdk, host, accepted, interrupt, wire, up, resumed, native, targets>> /\ call.pc = "choose"
    BY DEF SendChooses, hostVars, historyVars, viewVars
<1>2. call.turn \in Turns /\ call.op = "send" /\ call \in Calls
    <2>1. call \in Calls /\ call.turn # 0
        BY <1>1 DEF Control, Typed
    <2> QED
        BY <1>1, <2>1 DEF Control, Shape, Calls, Turns
<1>3. CASE call' = NoCall /\ UNCHANGED running
    <2>1. call'.op = "none" /\ call'.pc = "none"
        BY <1>3, NoCallIs
    <2> QED
        BY <1>1, <1>2, <1>3, <2>1, CallDeep DEF Starting
<1>4. CASE native.view.status # "unknown" /\ \E steer \in BOOLEAN : Reserve(steer)
    <2>1. PICK steer \in BOOLEAN : Reserve(steer)
        BY <1>4
    <2>2. call'.pc = "model" /\ call'.op = "send" /\ call'.turn = call.turn
        BY <1>2, <2>1 DEF Reserve, Calls
    <2>3. running' = IF call.turn \in ToSet(running) THEN running ELSE Append(running, call.turn)
        BY <2>1 DEF Reserve
    <2> QED
        BY <1>1, <1>2, <1>4, <2>2, <2>3, ReservesDeep
<1> QED
    BY <1>3, <1>4 DEF SendChooses

LEMMA ModelFailsDeep ==
    ASSUME Control, Deep, ModelFails, trouble' = {}
    PROVE  Deep'
<1> DEFINE t == call.turn
<1>1. /\ UNCHANGED <<sdk, host, accepted, interrupt, wire, up, resumed, native, targets>>
      /\ call.pc = "model" /\ call'.op = "none" /\ call'.pc = "none" /\ running' = Without(running, t)
    BY NoCallIs DEF ModelFails, hostVars, viewVars
<1>2. t # native.view.turn /\ t \notin accepted
    BY DEF ModelFails, Trouble
<1>3. running \in Seq(Turns) /\ ~Waits /\ ~Waits' /\ interrupt.pc = "none" /\ InHost' = InHost
    <2>1. ~Waits /\ ~Waits'
        BY <1>1 DEF Waits
    <2> QED
        BY <1>1, <2>1, DeepTypes, Held DEF Deep, InHost
<1>4. InHost \subseteq accepted /\ t \notin InHost /\ t \notin DoneOf(wire) /\ t \notin native.dead
    BY <1>2, InHostFacts DEF Deep, Belief, Buried
<1>5. Distinct(running) /\ t \in Believed /\ Last1(running, t)
    <2>1. Distinct(running) /\ t \in Believed
        BY <1>1, <1>2 DEF Deep, Belief, Starting
    <2>2. call.pc # "check"
        BY <1>1
    <2> QED
        BY <1>4, <2>1, <2>2 DEF Deep, Belief
<1> HIDE DEF t
<1>6. /\ running' \in Seq(Turns) /\ Believed' = Believed \ {t} /\ Distinct(running')
      /\ \A x, y : Before(running', x, y) => Before(running, x, y)
    BY <1>1, <1>3, <1>5, WithoutIs DEF Believed
<1>7. running # <<>>
    BY <1>3, <1>5, ToSetOf DEF Believed
<1>8. IF running[1] = t THEN running' = <<>> ELSE running' # <<>> /\ running'[1] = running[1]
    BY <1>1, <1>3, <1>5, <1>7, WithoutHead, AloneWithout
<1>9. Stepping' /\ Aimed'
    BY <1>1, <1>3 DEF Deep, Stepping, Aimed
<1>10. Belief'
    <2>1. Believed' \ (DoneOf(wire') \cup InHost') = {}
        <3>1. call.pc # "check"
            BY <1>1
        <3> QED
            BY <1>1, <1>3, <1>6, <3>1 DEF Deep, Belief, t
    <2>2. resumed' => InHost' \subseteq Believed'
        BY <1>1, <1>3, <1>4, <1>6 DEF Deep, Belief
    <2> QED
        BY <1>1, <1>3, <1>6, <2>1, <2>2 DEF Deep, Belief, Starting
<1>11. Phases'
    BY <1>1 DEF Phases, Recovering, Checking, Viewing, Holding
<1>12. Aborting'
    <2>1. ZeroUnread(sdk) => host.inFlight[1] # t
        BY <1>4, InHostFacts DEF Deep
    <2> QED
        BY <1>1, <1>3, <1>8, <2>1 DEF Deep, Aborting
<1>13. Unheard'
    BY <1>1, <1>3 DEF Deep, Unheard
<1>14. Buried'
    <2>1. native.dead \subseteq accepted /\ native.dead \cap Has(sdk) = {} /\ \A x \in native.dead \cap Believed : x = t \/ x = running[1]
        BY DEF Deep, Buried, t
    <2> QED
        BY <1>1, <1>4, <1>6, <1>8, <2>1 DEF Buried
<1>15. Seen'
    <2>1. Exempt => running[1] = t
        BY DEF Exempt, t
    <2> QED
        BY <1>1, <1>2, <1>4, <1>7, <1>8, <2>1 DEF Deep, Seen
<1> QED
    BY <1>9, <1>10, <1>11, <1>12, <1>13, <1>14, <1>15 DEF Deep

-----------------------------------------------------------------------------
(* The runtime hears an end.                                               *)
\* v is what is left of w.
Sheds(w, v) ==
    /\ ToSet(v) \subseteq ToSet(w) /\ DoneOf(v) \subseteq DoneOf(w) /\ Open(v) \subseteq Open(w)
    /\ \A t : (Confirmed(v, t) => Confirmed(w, t)) /\ (Denied(w, t) => Denied(v, t)) /\ (Ghost(v, t) => Ghost(w, t))

LEMMA UnheardEventDeep ==
    ASSUME Control, Deep, ~resumed, call.op # "resume", Sheds(wire, wire'),
           UNCHANGED <<sdk, host, accepted, interrupt, reqs, up, running, resumed, native, call, targets>>
    PROVE  Deep'
<1>1. running = <<>> /\ Believed = {} /\ ~Waits /\ interrupt.pc = "none" /\ call.pc = "none" /\ native.view.status = "unknown"
    <2>1. running = <<>> /\ call.pc = "none"
        BY DEF Control, Shape
    <2>2. ~Waits /\ Believed = {}
        BY <2>1 DEF Waits, Believed, ToSet
    <2> QED
        BY <2>1, <2>2, Held DEF Deep, Seen
<1>2. InHost' = InHost /\ Believed' = Believed /\ ~Waits'
    BY <1>1 DEF InHost, Believed, Waits
<1>3. Stepping' /\ Aimed' /\ Aborting'
    BY <1>1, <1>2 DEF Deep, Stepping, Aimed, Aborting
<1>4. Belief'
    BY <1>1, <1>2 DEF Deep, Belief, Sheds, Starting
<1>5. Phases'
    BY <1>1 DEF Phases, Recovering, Checking, Viewing, Holding
<1>6. Unheard'
    BY <1>1, <1>2 DEF Deep, Unheard, Sheds
<1>7. Buried' /\ Seen'
    BY <1>1, <1>2 DEF Deep, Buried, Seen
<1> QED
    BY <1>3, <1>4, <1>5, <1>6, <1>7 DEF Deep

LEMMA HeardEventDeep ==
    ASSUME Control, Deep, native.view.ready, NEW d \in Turns, d \in DoneOf(wire), Sheds(wire, wire'),
           DoneOf(wire) \subseteq DoneOf(wire') \cup {d},
           \A m \in ToSet(wire) : m.kind # "done" => m \in ToSet(wire'),
           running' = Without(running, d), native'.view = AfterDone(d).view, native'.dead = AfterDone(d).dead,
           UNCHANGED <<sdk, host, accepted, interrupt, reqs, up, resumed, call, targets>>
    PROVE  Deep'
<1> DEFINE left == Without(running, d)
           lead == running # <<>> /\ running[1] = d /\ left # <<>>
           new == AfterDone(d)
<1>1. running \in Seq(Turns) /\ native \in Sessions /\ host.inFlight \in Seq(Turns) /\ InHost \subseteq Turns
    BY DeepTypes DEF Control, Typed
<1>2. d \notin InHost /\ d \in accepted /\ Distinct(running)
    BY DEF Deep, Belief
<1>3. /\ Sure(native, new) /\ native'.dead = native.dead \cup {d}
      /\ lead /\ left[1] \notin native.dead => native'.view.status = "active" /\ native'.view.turn = left[1]
      /\ ~(lead /\ left[1] \notin native.dead) =>
           IF native.view.turn = d \/ native.view.status = "idle"
             THEN native'.view.status = "idle" /\ native'.view.turn = 0
             ELSE native'.view.status = native.view.status /\ native'.view.turn = native.view.turn
    BY <1>1, AfterDoneIs DEF Idle, Kept
<1>4. native'.view.gen = native.view.gen
    BY <1>3 DEF Sure, Onward
<1>5. /\ running' \in Seq(Turns) /\ Believed' = Believed \ {d} /\ Distinct(running')
      /\ \A x, y : Before(running', x, y) <=> x # d /\ y # d /\ Before(running, x, y)
      /\ running = <<>> => running' = <<>>
    BY <1>1, <1>2, WithoutIs DEF Believed
<1>6. running # <<>> /\ running[1] # d => running' # <<>> /\ running'[1] = running[1]
    BY <1>1, <1>2, WithoutHead
<1>7. InHost' = InHost /\ (Waits' <=> Waits) /\ (Asks' <=> Asks) /\ (Tells' => Tells)
    BY DEF InHost, Waits, Asks, Tells, Sheds
<1>8. \A x \in Believed' : running # <<>> /\ x # d
    BY <1>1, <1>5, ToSetOf DEF Believed
<1> HIDE DEF left, new
<1>9. Stepping'
    BY DEF Deep, Stepping
<1>10. Aimed'
    BY <1>4, <1>5, <1>6, <1>7, <1>8 DEF Deep, Aimed
<1>11. Belief'
    <2>1. DoneOf(wire') \cap InHost' = {} /\ DoneOf(wire') \subseteq accepted' /\ Distinct(running')
        BY <1>5, <1>7 DEF Deep, Belief, Sheds
    <2>2. resumed' => InHost' \subseteq Believed'
        BY <1>2, <1>5, <1>7 DEF Deep, Belief
    <2>3. ASSUME NEW x \in Believed' \ (DoneOf(wire') \cup InHost')
          PROVE  \/ call'.pc \in Starting /\ x = call'.turn /\ Last1(running', x) /\ ~Confirmed(wire', x)
                 \/ call'.pc = "check" /\ Denied(wire', x)
        <3>1. x \in Believed \ (DoneOf(wire) \cup InHost) /\ x # d
            BY <1>5, <1>7, <2>3
        <3>2. CASE call.pc \in Starting /\ x = call.turn /\ Last1(running, x) /\ ~Confirmed(wire, x)
            <4>1. Last1(running', x)
                BY <1>5, <3>1, <3>2 DEF Last1, Believed
            <4> QED
                BY <3>2, <4>1 DEF Sheds
        <3>3. CASE call.pc = "check" /\ Denied(wire, x)
            BY <3>3 DEF Sheds
        <3> QED
            BY <3>1, <3>2, <3>3 DEF Deep, Belief
    <2>4. \A x, y \in InHost' : Before(running', x, y) => Before(host'.inFlight, x, y)
        BY <1>5, <1>7 DEF Deep, Belief
    <2>5. call'.pc \in Starting => call'.turn \in Believed' \cup accepted'
        BY <1>2, <1>5 DEF Deep, Belief
    <2> QED
        BY <2>1, <2>2, <2>3, <2>4, <2>5 DEF Belief
<1>12. Phases'
    <2>1. Recovering' /\ Checking'
        BY <1>5, <1>7 DEF Deep, Phases, Recovering, Checking, Sheds
    <2>2. Viewing'
        BY <1>3, <1>5 DEF Deep, Phases, Viewing
    <2>3. Holding'
        BY <1>7 DEF Deep, Phases, Holding, Sheds
    <2> QED
        BY <2>1, <2>2, <2>3 DEF Phases
<1>13. Aborting'
    <2>1. ZeroUnread(sdk) => host.inFlight[1] # d
        BY <1>2, InHostFacts DEF Deep
    <2> QED
        BY <1>3, <1>6, <1>7, <2>1 DEF Deep, Aborting
<1>14. Unheard'
    BY <1>3, <1>7 DEF Deep, Unheard, Sheds
<1>15. Buried'
    <2>1. native'.dead \subseteq accepted' /\ native'.dead \cap Has(sdk') = {}
        BY <1>2, <1>3, InHostFacts DEF Deep, Buried
    <2>2. ASSUME NEW x \in native'.dead \cap Believed'
          PROVE  x = running'[1] \/ (call'.pc \in Starting /\ x = call'.turn /\ x \notin InHost' /\ ~Confirmed(wire', x))
        <3>1. x \in native.dead \cap Believed /\ x # d
            BY <1>3, <1>5, <2>2
        <3> QED
            BY <1>6, <1>7, <1>8, <2>2, <3>1 DEF Deep, Buried, Sheds
    <2> QED
        BY <2>1, <2>2 DEF Buried
<1>16. Seen'
    <2>1. native.view.turn = 0 \/ native.view.status = "active"
        BY DEF Control, Viewed, Sound
    <2>2. d # 0 /\ (native.view.status = "active" => running # <<>> /\ native.view.turn = running[1])
        BY DEF Deep, Seen, Turns
    <2>3. native.view.status = "unknown" \/ native.view.status = "idle" \/ native.view.status = "active"
        BY <1>1 DEF Sessions, Views, Statuses, Control, Viewed, Sound
    <2>4. CASE running = <<>>
        <3>1. ~lead /\ native.view.turn # d /\ native.view.status # "active"
            BY <2>1, <2>2, <2>4
        <3>2. native'.view.status = native.view.status /\ native'.view.status # "active" /\ running' = <<>>
            BY <1>3, <1>5, <2>4, <3>1
        <3> QED
            BY <3>2 DEF Deep, Seen
    <2>5. CASE running # <<>> /\ running[1] # d
        <3>1. ~lead /\ native.view.turn # d
            BY <2>1, <2>2, <2>5
        <3>2. native'.view.status = native.view.status /\ (native.view.status = "active" => native'.view.turn = native.view.turn)
            BY <1>3, <2>1, <3>1
        <3>3. running' # <<>> /\ running'[1] = running[1]
            BY <1>6, <2>5
        <3>4. Exempt => Exempt'
            BY <1>7, <3>3 DEF Exempt, Sheds
        <3> QED
            BY <1>3, <2>5, <3>2, <3>3, <3>4 DEF Deep, Seen
    <2>6. CASE running # <<>> /\ running[1] = d
        <3>1. resumed
            BY <2>6 DEF Control, Shape
        <3>2. running' = left
            BY DEF left
        <3>3. CASE left = <<>>
            <4>1. native'.view.status # "active"
                BY <1>3, <2>1, <2>2, <2>6, <3>3
            <4> QED
                BY <3>1, <3>2, <3>3, <4>1 DEF Seen
        <3>4. CASE left # <<>> /\ left[1] \notin native.dead
            <4>1. native'.view.status = "active" /\ native'.view.turn = left[1]
                BY <1>3, <2>6, <3>4
            <4> QED
                BY <3>1, <3>2, <3>4, <4>1 DEF Seen
        <3>5. CASE left # <<>> /\ left[1] \in native.dead
            <4>1. native'.view.status # "active"
                BY <1>3, <2>1, <2>2, <2>6, <3>5
            <4> QED
                BY <1>3, <3>1, <3>2, <3>5, <4>1 DEF Seen
        <3> QED
            BY <3>3, <3>4, <3>5
    <2> QED
        BY <2>4, <2>5, <2>6
<1> QED
    BY <1>9, <1>10, <1>11, <1>12, <1>13, <1>14, <1>15, <1>16 DEF Deep

LEMMA HostEventDeep ==
    ASSUME Control, Deep, HostEvent
    PROVE  Deep'
<1>1. PICK i \in DOMAIN wire :
        /\ wire[i].kind = "done"
        /\ wire' = RemoveAt(wire, i)
        /\ IF Known
             THEN /\ running' = Without(running, wire[i].turn)
                  /\ Notified(AfterDone(wire[i].turn))
             ELSE UNCHANGED <<running, viewVars>>
        /\ UNCHANGED <<hostVars, reqs, up, sweep, resumed, call, cut, historyVars, used>>
    BY DEF HostEvent
<1> DEFINE d == wire[i].turn
<1>2. Typed /\ wire \in Seq(Messages)
    BY DEF Control, Typed
<1>3. UNCHANGED <<sdk, host, accepted, interrupt, reqs, up, resumed, call, targets>>
    BY <1>1 DEF hostVars, historyVars
<1>4. d \in Turns
    <2>1. wire[i] \in Messages /\ d # 0
        BY <1>1, <1>2 DEF Typed
    <2> QED
        BY <2>1 DEF Messages, Turns
<1>5. wire' \in Seq(Messages) /\ \E e : Drops(wire, i, wire', e)
    BY <1>1, <1>2, RemoveAtDrops
<1>6. /\ Sheds(wire, wire') /\ d \in DoneOf(wire) /\ DoneOf(wire) \subseteq DoneOf(wire') \cup {d}
      /\ \A m \in ToSet(wire) : m.kind # "done" => m \in ToSet(wire')
    <2>1. PICK e : Drops(wire, i, wire', e)
        BY <1>5
    <2> DEFINE v == wire'
    <2>2. v \in Seq(Messages) /\ Drops(wire, i, v, e)
        BY <1>5, <2>1
    <2> HIDE DEF v
    <2>3. /\ ToSet(v) \subseteq ToSet(wire) /\ ToSet(wire) \subseteq ToSet(v) \cup {wire[i]}
          /\ DoneOf(v) \subseteq DoneOf(wire) /\ DoneOf(wire) \subseteq DoneOf(v) \cup {wire[i].turn}
          /\ wire[i].turn \in DoneOf(wire) /\ Open(v) \subseteq Open(wire)
          /\ \A t : (Confirmed(v, t) => Confirmed(wire, t)) /\ (Denied(wire, t) => Denied(v, t)) /\ (Ghost(v, t) => Ghost(wire, t))
        BY <1>1, <1>2, <2>2, WireDrops
    <2> QED
        BY <1>1, <2>3 DEF v, Sheds
<1>7. native.view.ready
    <2>1. wire # <<>>
        BY <1>2
    <2> QED
        BY <2>1 DEF Control, Shape
<1> HIDE DEF d
<1>8. CASE Known
    <2>1. running' = Without(running, d) /\ Notified(AfterDone(d))
        BY <1>1, <1>8 DEF d
    <2>2. Sure(native, AfterDone(d))
        BY <1>2, <1>4, <1>7, AfterDoneIs DEF Typed
    <2>3. native'.view = AfterDone(d).view /\ native'.dead = AfterDone(d).dead
        BY <2>1, <2>2, NotifiedIs
    <2> QED
        BY <1>3, <1>4, <1>6, <1>7, <2>1, <2>3, HeardEventDeep
<1>9. CASE ~Known
    <2>1. ~resumed /\ call.op # "resume" /\ UNCHANGED <<running, native>>
        BY <1>1, <1>9 DEF Known, viewVars
    <2> QED
        BY <1>3, <1>6, <2>1, UnheardEventDeep
<1> QED
    BY <1>8, <1>9

-----------------------------------------------------------------------------
(* The runtime reconciles its belief with what the host has in flight.     *)
LEMMA WireTailSheds ==
    ASSUME Control, NEW kind, kind # "done", Answered(kind)
    PROVE  /\ Sheds(wire, wire') /\ DoneOf(wire') = DoneOf(wire) /\ wire[1] \in ToSet(wire) /\ wire[1] \in Messages
           /\ wire # <<>> /\ wire[1].kind = kind /\ \A m \in ToSet(wire) : m.kind # kind => m \in ToSet(wire')
<1>1. wire # <<>> /\ wire[1].kind = kind /\ wire' = Tail(wire) /\ wire[1] \in Messages /\ wire \in Seq(Messages)
    BY AnsweredIs, DeepTypes DEF Control
<1>2. /\ ToSet(Tail(wire)) \subseteq ToSet(wire) /\ ToSet(wire) \subseteq ToSet(Tail(wire)) \cup {wire[1]} /\ wire[1] \in ToSet(wire)
      /\ DoneOf(Tail(wire)) = DoneOf(wire) /\ Open(Tail(wire)) \subseteq Open(wire)
      /\ \A t : /\ Confirmed(Tail(wire), t) => Confirmed(wire, t)
                /\ Denied(wire, t) => Denied(Tail(wire), t)
                /\ Ghost(Tail(wire), t) => Ghost(wire, t)
    BY <1>1, WireTail
<1> QED
    BY <1>1, <1>2 DEF Sheds

LEMMA ReconcilesDeep ==
    ASSUME Control, Deep, up, resumed, NEW kind \in {"status", "checked"}, Reconciles(kind), trouble' = {},
           UNCHANGED <<sdk, host, accepted, interrupt, reqs, up, resumed, targets>>,
           \/ kind = "status" /\ call' = call
           \/ /\ kind = "checked" /\ call.pc = "check" /\ call'.pc = "view" /\ call.op = "resume" /\ call'.op = "resume"
              /\ call'.turn = IF running' = <<>> THEN 0 ELSE Head(running')
    PROVE  Deep'
<1> DEFINE set == wire[1].set
           left == Only(running, set)
           gone == Only(running, ToSet(running) \ set)
           G == Believed \ set
<1>1. running \in Seq(Turns) /\ native \in Sessions /\ host.inFlight \in Seq(Turns) /\ native.view.ready
    BY DeepTypes DEF Control, Typed, Shape
<1>2. /\ Sheds(wire, wire') /\ DoneOf(wire') = DoneOf(wire) /\ wire[1] \in ToSet(wire) /\ wire[1].kind = kind
      /\ \A m \in ToSet(wire) : m.kind # kind => m \in ToSet(wire')
    BY WireTailSheds DEF Reconciles
<1>3. /\ left \in Seq(Turns) /\ gone \in Seq(Turns) /\ running' = left /\ ToSet(left) = Believed \cap set /\ ToSet(gone) = G
      /\ Sure(native, native') /\ native'.view = Settle(left, gone).view /\ native'.dead = Settle(left, gone).dead
    BY ReconcilesIs DEF Believed
<1>4. Trouble("forgot", ToSet(gone) \cap (ToSet(host.inFlight) \cup {call.turn}) # {})
    BY DEF Reconciles
<1>5. /\ native'.dead = native.dead \cup ToSet(gone)
      /\ gone = <<>> => native'.view = native.view
      /\ gone # <<>> =>
           IF left = <<>> THEN native'.view.status = "idle"
           ELSE IF left[1] \in native'.dead
             THEN native'.view.status = "idle"
                  \/ (native'.view.status = native.view.status /\ native'.view.turn = native.view.turn)
           ELSE native'.view.status = "active" /\ native'.view.turn = left[1]
    <2>1. left \in Seq(Turns) /\ gone \in Seq(Turns)
        BY <1>3
    <2> HIDE DEF left, gone
    <2>2. /\ Settle(left, gone).dead = native.dead \cup ToSet(gone)
          /\ gone = <<>> => Settle(left, gone) = native
          /\ gone # <<>> =>
               IF left = <<>> THEN Idle(Settle(left, gone))
               ELSE IF left[1] \in Settle(left, gone).dead THEN Kept(native, Settle(left, gone)) \/ Idle(Settle(left, gone))
               ELSE Settle(left, gone).view.status = "active" /\ Settle(left, gone).view.turn = left[1]
        BY <1>1, <2>1, SettleIs
    <2> QED
        BY <1>3, <2>2 DEF Idle, Kept
<1>6. Distinct(running) /\ Distinct(left) /\ \A x, y : Before(left, x, y) <=> x \in set /\ y \in set /\ Before(running, x, y)
    <2>1. Distinct(running)
        BY DEF Deep, Belief
    <2> QED
        BY <1>1, <2>1, OnlyFacts
<1>7. running # <<>> /\ running[1] \in set => left # <<>> /\ left[1] = running[1]
    BY <1>1, <1>6, OnlyHead
<1>8. left # <<>> => running # <<>> /\ left[1] \in ToSet(left)
    <2>1. ToSet(left) \subseteq Believed /\ (left # <<>> => left[1] \in ToSet(left)) /\ (running = <<>> => Believed = {})
        BY <1>1, <1>3, ToSetOf DEF Believed
    <2> QED
        BY <2>1
<1>9. G \cap InHost = {} /\ call.turn \notin G /\ (gone = <<>> => G = {})
    <2>1. gone = <<>> => G = {}
        BY <1>3 DEF ToSet
    <2> HIDE DEF gone, G
    <2>2. ToSet(gone) \cap (ToSet(host.inFlight) \cup {call.turn}) = {}
        BY <1>4 DEF Trouble
    <2> QED
        BY <1>3, <2>1, <2>2 DEF InHost
<1> HIDE DEF left, gone, set
<1>10. Believed' = Believed \ G /\ InHost' = InHost /\ native'.dead = native.dead \cup G /\ Believed' = Believed \cap set
    BY <1>3, <1>5 DEF Believed, InHost
<1>11. G \subseteq accepted
    <2>1. ASSUME NEW x \in G, x \notin DoneOf(wire) PROVE x \in accepted
        <3>1. x \in Believed \ (DoneOf(wire) \cup InHost) /\ x # call.turn
            BY <1>9, <2>1
        <3>2. call.pc = "check"
            BY <3>1 DEF Deep, Belief
        <3> QED
            BY <3>1, <3>2 DEF Deep, Phases, Checking
    <2> QED
        BY <2>1 DEF Deep, Belief
<1> HIDE DEF G
<1>12. native'.view.gen = native.view.gen /\ Sound(native')
    BY <1>3 DEF Sure, Onward, Control, Viewed
<1>13. kind = "checked" => ~Waits /\ ~Waits' /\ call.pc \notin Starting /\ call'.pc \notin Starting
    BY DEF Waits, Starting
<1>14. call' = call \/ (kind = "checked" /\ call.pc = "check")
    OBVIOUS
<1>15. Stepping'
    BY DEF Deep, Stepping
<1>16. Aimed'
    <2>1. (Waits' <=> Waits) /\ (Asks' <=> Asks) /\ (Tells' => Tells)
        BY <1>2, <1>13, <1>14 DEF Waits, Asks, Tells, Sheds
    <2>2. ~Waits => interrupt.pc = "none"
        BY Held DEF Deep
    <2>3. CASE kind = "checked"
        BY <1>13, <2>2, <2>3 DEF Aimed
    <2>4. CASE call' = call
        <3>1. Waits /\ call.turn \in Believed' => running'[1] = call.turn
            <4>1. Waits /\ call.turn \in Believed' => call.turn \in set /\ running # <<>> /\ running[1] = call.turn
                BY <1>1, <1>10, ToSetOf DEF Deep, Aimed, Believed
            <4> QED
                BY <1>3, <1>7, <4>1
        <3> QED
            BY <1>12, <2>1, <2>4, <3>1 DEF Deep, Aimed
    <2> QED
        BY <1>14, <2>3, <2>4
<1>17. Belief'
    <2>1. DoneOf(wire') \cap InHost' = {} /\ DoneOf(wire') \subseteq accepted' /\ Distinct(running')
        BY <1>2, <1>3, <1>6, <1>10 DEF Deep, Belief
    <2>2. resumed' => InHost' \subseteq Believed'
        BY <1>9, <1>10 DEF Deep, Belief
    <2>3. ASSUME NEW x \in Believed' \ (DoneOf(wire') \cup InHost')
          PROVE  \/ call'.pc \in Starting /\ x = call'.turn /\ Last1(running', x) /\ ~Confirmed(wire', x)
                 \/ call'.pc = "check" /\ Denied(wire', x)
        <3>1. x \in Believed \ (DoneOf(wire) \cup InHost) /\ x \in set
            BY <1>2, <1>10, <2>3
        <3>2. CASE call.pc \in Starting /\ x = call.turn /\ Last1(running, x) /\ ~Confirmed(wire, x)
            <4>1. Last1(running', x)
                BY <1>3, <1>6, <1>10, <3>1, <3>2 DEF Last1, Believed
            <4>2. call' = call
                BY <1>13, <1>14, <3>2
            <4> QED
                BY <1>2, <3>2, <4>1, <4>2 DEF Sheds
        <3>3. CASE call.pc = "check" /\ Denied(wire, x)
            <4>1. kind # "checked"
                BY <1>2, <3>1, <3>3 DEF Denied, set
            <4> QED
                BY <1>2, <1>14, <3>3, <4>1 DEF Sheds
        <3> QED
            BY <3>1, <3>2, <3>3 DEF Deep, Belief
    <2>4. \A x, y \in InHost' : Before(running', x, y) => Before(host'.inFlight, x, y)
        BY <1>3, <1>6, <1>10 DEF Deep, Belief
    <2>5. call'.pc \in Starting => call'.turn \in Believed' \cup accepted'
        BY <1>9, <1>10, <1>13, <1>14 DEF Deep, Belief
    <2> QED
        BY <2>1, <2>2, <2>3, <2>4, <2>5 DEF Belief
<1>18. Phases'
    <2>1. CASE call' = call
        BY <1>2, <1>9, <1>10, <2>1 DEF Deep, Phases, Recovering, Checking, Viewing, Holding, Sheds
    <2>2. CASE kind = "checked"
        <3>1. call'.pc = "view" /\ call'.turn = IF running' = <<>> THEN 0 ELSE running'[1]
            BY <1>3, <2>2, ToSetOf
        <3>2. \A x, y \in Believed' : x = y
            BY <1>10, <2>2 DEF Deep, Phases, Checking
        <3>3. Believed' \subseteq {call'.turn} /\ (call'.turn # 0 => call'.turn \in Believed')
            BY <1>3, <1>8, <3>1, <3>2, ToSetOf DEF Believed
        <3> QED
            BY <3>1, <3>3 DEF Phases, Recovering, Checking, Viewing, Holding
    <2> QED
        BY <1>14, <2>1, <2>2
<1>19. Aborting'
    <2>1. ZeroUnread(sdk) => running # <<>> /\ running[1] = host.inFlight[1] /\ running[1] \in set
        <3>1. ZeroUnread(sdk) => running # <<>> /\ running[1] = host.inFlight[1] /\ running[1] \in InHost
            BY InHostFacts DEF Deep, Aborting
        <3>2. running # <<>> /\ running[1] \in InHost => running[1] \in set
            BY <1>1, <1>9, ToSetOf DEF G, Believed
        <3> QED
            BY <3>1, <3>2
    <2> QED
        BY <1>3, <1>7, <1>10, <1>13, <1>14, <2>1 DEF Deep, Aborting, Waits
<1>20. Unheard'
    BY <1>2, <1>10, <1>13, <1>14 DEF Deep, Unheard, Sheds, Waits
<1>21. Buried'
    <2>1. native'.dead \subseteq accepted' /\ native'.dead \cap Has(sdk') = {}
        BY <1>9, <1>10, <1>11, InHostFacts DEF Deep, Buried
    <2>2. ASSUME NEW x \in native'.dead \cap Believed'
          PROVE  x = running'[1] \/ (call'.pc \in Starting /\ x = call'.turn /\ x \notin InHost' /\ ~Confirmed(wire', x))
        <3>1. x \in native.dead \cap Believed /\ x \in set /\ running # <<>>
            BY <1>1, <1>10, <2>2, ToSetOf DEF Believed
        <3> QED
            BY <1>2, <1>3, <1>7, <1>10, <1>13, <1>14, <3>1 DEF Deep, Buried, Sheds
    <2> QED
        BY <2>1, <2>2 DEF Buried
<1>22. Seen'
    <2>1. native.view.status = "active" => running # <<>> /\ native.view.turn = running[1]
        BY DEF Deep, Seen
    <2>2. CASE gone = <<>>
        <3>1. running # <<>> => running[1] \in set
            BY <1>1, <1>9, <2>2, ToSetOf DEF G, Believed
        <3>2. native'.view = native.view
            BY <1>5, <2>2
        <3>3. Exempt /\ running # <<>> => Exempt'
            <4>1. CASE kind = "checked"
                BY <1>13, <4>1 DEF Exempt
            <4>2. CASE kind = "status" /\ call' = call
                BY <1>2, <1>3, <1>7, <1>10, <3>1, <4>2 DEF Exempt, Sheds
            <4> QED
                BY <4>1, <4>2
        <3> QED
            BY <1>3, <1>7, <1>8, <1>10, <3>1, <3>2, <3>3 DEF Deep, Seen
    <2>3. CASE gone # <<>> /\ left = <<>>
        BY <1>3, <1>5, <2>3 DEF Seen
    <2>4. CASE gone # <<>> /\ left # <<>> /\ left[1] \notin native'.dead
        BY <1>3, <1>5, <2>4 DEF Seen
    <2>5. CASE gone # <<>> /\ left # <<>> /\ left[1] \in native'.dead
        <3>1. native'.view.status # "active"
            <4>1. ASSUME native'.view.status = "active" PROVE FALSE
                <5>1. native'.view.turn = running[1] /\ running # <<>>
                    BY <1>5, <2>1, <2>5, <4>1
                <5>2. running[1] \notin native'.dead
                    BY <1>1, <1>12, <5>1, ToSetOf DEF Sound, Turns
                <5>3. running[1] \in set
                    BY <1>1, <1>10, <5>1, <5>2, ToSetOf DEF G, Believed
                <5> QED
                    BY <1>7, <2>5, <5>1, <5>2, <5>3
            <4> QED
                BY <4>1
        <3> QED
            BY <1>3, <2>5, <3>1 DEF Seen
    <2> QED
        BY <2>2, <2>3, <2>4, <2>5
<1> QED
    BY <1>15, <1>16, <1>17, <1>18, <1>19, <1>20, <1>21, <1>22 DEF Deep

LEMMA SweepEndsDeep ==
    ASSUME Control, Deep, SweepEnds, trouble' = {}
    PROVE  Deep'
<1>1. UNCHANGED <<sdk, host, accepted, interrupt, reqs, up, resumed, targets, call>> /\ Reconciles("status") /\ sweep
    BY DEF SweepEnds, hostVars
<1>2. up /\ resumed
    BY <1>1 DEF Control, Shape, Reconciles, Answered
<1> QED
    BY <1>1, <1>2, ReconcilesDeep

LEMMA ResumeChecksDeep ==
    ASSUME Control, Deep, ResumeChecks, trouble' = {}
    PROVE  Deep'
<1>1. UNCHANGED <<sdk, host, accepted, interrupt, reqs, up, resumed, targets>> /\ Reconciles("checked") /\ call.pc = "check"
      /\ call' = [call EXCEPT !.pc = "view", !.turn = IF running' = <<>> THEN 0 ELSE Head(running')]
    BY DEF ResumeChecks, hostVars
<1>2. up /\ resumed /\ call.op = "resume" /\ call \in Calls
    BY <1>1 DEF Control, Shape, Typed
<1>3. call'.pc = "view" /\ call'.op = "resume" /\ call'.turn = IF running' = <<>> THEN 0 ELSE Head(running')
    <2> DEFINE t == IF running' = <<>> THEN 0 ELSE Head(running')
    <2>1. call' = [call EXCEPT !.pc = "view", !.turn = t]
        BY <1>1
    <2> HIDE DEF t
    <2>2. call'.pc = "view" /\ call'.op = "resume" /\ call'.turn = t
        BY <1>2, <2>1 DEF Calls
    <2> QED
        BY <2>2 DEF t
<1> QED
    BY <1>1, <1>2, <1>3, ReconcilesDeep

-----------------------------------------------------------------------------
(* The answers to a send.                                                  *)
LEMMA StartedDeep ==
    ASSUME Control, Deep, call.pc \in {"accept", "held"}, call'.op = "send", call'.pc = "last",
           Sheds(wire, wire'), DoneOf(wire') = DoneOf(wire), Confirmed(wire, call.turn),
           native'.dead = native.dead, native'.view.gen = native.view.gen, Seen',
           UNCHANGED <<sdk, host, accepted, interrupt, up, running, resumed, targets>>
    PROVE  Deep'
<1>1. ~Waits /\ ~Waits' /\ interrupt.pc = "none" /\ InHost' = InHost /\ Believed' = Believed
    <2>1. ~Waits /\ ~Waits'
        BY DEF Waits
    <2> QED
        BY <2>1, Held DEF Deep, InHost, Believed
<1>2. call.pc # "check"
    OBVIOUS
<1>3. Stepping' /\ Aimed'
    BY <1>1 DEF Deep, Stepping, Aimed
<1>4. Belief'
    BY <1>1, <1>2 DEF Deep, Belief, Starting
<1>5. Phases'
    BY DEF Phases, Recovering, Checking, Viewing, Holding
<1>6. Aborting' /\ Unheard'
    BY <1>1 DEF Deep, Aborting, Unheard, Sheds
<1>7. Buried'
    BY <1>1 DEF Deep, Buried
<1> QED
    BY <1>3, <1>4, <1>5, <1>6, <1>7 DEF Deep

LEMMA AcceptedDeep ==
    ASSUME Control, Deep, Accepted
    PROVE  Deep'
<1>1. /\ call.pc = "accept" /\ Answered("sent") /\ wire[1].set # {}
      /\ UNCHANGED <<sdk, host, accepted, interrupt, up, running, resumed, targets>>
    BY DEF Accepted, hostVars, historyVars
<1>2. /\ Sheds(wire, wire') /\ DoneOf(wire') = DoneOf(wire) /\ wire[1] \in ToSet(wire) /\ wire[1].kind = "sent"
    BY <1>1, WireTailSheds
<1>3. call.turn \in wire[1].set
    BY <1>1, <1>2, Kinds
<1>4. Confirmed(wire, call.turn)
    BY <1>2, <1>3 DEF Confirmed
<1>5. PICK heard :
         /\ StartReturns(heard) /\ Sure(native, heard) /\ heard.dead = native.dead
         /\ \/ heard = native /\ (running = <<>> \/ running[1] # call.turn \/ call.turn \in native.dead)
            \/ /\ running # <<>> /\ running[1] = call.turn /\ call.turn \notin native.dead
               /\ heard.view.status = "active" /\ heard.view.turn = call.turn
    BY AcceptedIs
<1>6. /\ Sure(native, native') /\ native'.dead = heard.dead
      /\ call' = [call EXCEPT !.pc = "last"]
      /\ \/ native' = heard
         \/ Kept(heard, native')
         \/ running # <<>> /\ running[1] \in native'.dead /\ native'.view.status = "idle"
         \/ /\ running # <<>> /\ running[1] \notin native'.dead
            /\ native'.view.status = "active" /\ native'.view.turn = running[1]
    BY <1>1, <1>5, StartReturnsIs DEF Starting
<1>7. call'.pc = "last" /\ call'.op = "send" /\ resumed
    BY <1>1, <1>6 DEF Control, Typed, Calls, Shape
<1>8. native'.view.gen = native.view.gen
    BY <1>6 DEF Sure, Onward
<1>9. Seen'
    <2>1. CASE heard = native /\ (running = <<>> \/ running[1] # call.turn \/ call.turn \in native.dead)
        <3>1. Exempt => running = <<>> \/ running[1] \in native.dead
            BY <2>1 DEF Exempt
        <3> QED
            BY <1>1, <1>5, <1>6, <1>7, <2>1, <3>1 DEF Deep, Seen, Kept
    <2>2. CASE running # <<>> /\ running[1] = call.turn /\ heard.view.status = "active" /\ heard.view.turn = call.turn
        BY <1>1, <1>6, <1>7, <2>2 DEF Seen, Kept
    <2> QED
        BY <1>5, <2>1, <2>2
<1> QED
    BY <1>1, <1>2, <1>4, <1>5, <1>6, <1>7, <1>8, <1>9, StartedDeep

LEMMA DuplicateDeep ==
    ASSUME Control, Deep, Duplicate
    PROVE  Deep'
<1>1. /\ call.pc = "accept" /\ Answered("sent") /\ wire[1].set = {} /\ call' = [call EXCEPT !.pc = "held"]
      /\ UNCHANGED <<sdk, host, accepted, interrupt, up, running, resumed, native, targets>>
    BY DEF Duplicate, hostVars, historyVars, viewVars
<1>2. /\ Sheds(wire, wire') /\ DoneOf(wire') = DoneOf(wire) /\ wire[1] \in ToSet(wire) /\ wire[1].kind = "sent" /\ wire # <<>>
    BY <1>1, WireTailSheds
<1>3. call'.pc = "held" /\ call'.op = "send" /\ call.op = "send" /\ call'.turn = call.turn
    BY <1>1 DEF Control, Typed, Calls, Shape, Starting
<1>4. ~Waits /\ ~Waits' /\ interrupt.pc = "none" /\ InHost' = InHost /\ Believed' = Believed
    <2>1. ~Waits /\ ~Waits'
        BY <1>1, <1>3 DEF Waits
    <2> QED
        BY <1>1, <2>1, Held DEF Deep, InHost, Believed
<1>5. \A m \in ToSet(wire) : m.kind # "held"
    BY <1>1, Kinds
<1>6. \A m \in ToSet(wire) : m.kind = "sent" => m.set = {}
    <2>1. wire \in Seq(Messages) /\ 1 \in DOMAIN wire
        BY <1>2, DeepTypes, ToSetOf
    <2>2. \A i \in DOMAIN wire : wire[i].kind = "sent" => i = 1
        BY <1>2, <2>1 DEF Control, Protocol, Orderly
    <2> QED
        BY <1>1, <2>1, <2>2, ToSetOf
<1>7. call.turn \in accepted
    BY <1>2, Kinds
<1>8. Stepping' /\ Aimed'
    BY <1>1, <1>3, <1>4 DEF Deep, Stepping, Aimed
<1>9. Belief'
    BY <1>1, <1>2, <1>3, <1>4 DEF Deep, Belief, Starting, Sheds
<1>10. Phases'
    <2>1. \A m \in ToSet(wire') : m.kind # "held"
        BY <1>2, <1>5 DEF Sheds
    <2>2. ~Ghost(wire', call.turn)
        <3>1. ~Ghost(wire, call.turn)
            <4>1. wire \in Seq(Messages)
                BY DeepTypes
            <4>2. \A k \in DOMAIN wire : wire[k].kind # "held"
                BY <1>5, <4>1, ToSetOf
            <4> QED
                BY <4>2 DEF Ghost
        <3> QED
            BY <1>2, <3>1 DEF Sheds
    <2> QED
        BY <1>1, <1>3, <1>7, <2>1, <2>2 DEF Phases, Recovering, Checking, Viewing, Holding
<1>11. Aborting' /\ Unheard'
    BY <1>1, <1>2, <1>4 DEF Deep, Aborting, Unheard, Sheds
<1>12. Buried'
    BY <1>1, <1>2, <1>3, <1>4 DEF Deep, Buried, Starting, Sheds
<1>13. Seen'
    <2>1. Exempt => Exempt'
        <3>1. Exempt => call.turn \notin InHost /\ running[1] = call.turn
            BY <1>6 DEF Exempt
        <3>2. \A m \in ToSet(wire') : m.kind # "held"
            BY <1>2, <1>5 DEF Sheds
        <3> QED
            BY <1>1, <1>3, <1>4, <3>1, <3>2 DEF Exempt, Starting
    <2> QED
        BY <1>1, <2>1 DEF Deep, Seen
<1> QED
    BY <1>8, <1>9, <1>10, <1>11, <1>12, <1>13 DEF Deep

LEMMA NotHeldDeep ==
    ASSUME Control, Deep, call.pc = "held", call'.op = "send", call'.pc = "last", NEW t \in Turns, t = call.turn,
           Sheds(wire, wire'), DoneOf(wire') = DoneOf(wire), wire # <<>>, wire[1].kind = "held", t \notin wire[1].set,
           running' = Without(running, t), native'.dead = native.dead \cup {t}, native'.view.gen = native.view.gen,
           IF native.view.turn = t \/ native.view.status = "idle" THEN Idle(native') ELSE Kept(native, native'),
           UNCHANGED <<sdk, host, accepted, interrupt, up, resumed, targets>>
    PROVE  Deep'
<1>1. ~Waits /\ ~Waits' /\ interrupt.pc = "none" /\ InHost' = InHost /\ running \in Seq(Turns) /\ wire \in Seq(Messages) /\ resumed
    <2>1. ~Waits /\ ~Waits' /\ resumed
        BY DEF Waits, Control, Shape
    <2> QED
        BY <2>1, DeepTypes, Held DEF Deep, InHost
<1>2. t \in accepted /\ ~Ghost(wire, t) /\ t \notin InHost
    <2>1. wire[1] \in ToSet(wire)
        BY <1>1, ToSetOf
    <2> QED
        BY <2>1 DEF Deep, Phases, Holding
<1>3. t \notin DoneOf(wire)
    <2>1. ASSUME NEW m \in ToSet(wire), m.kind = "done", m.turn = t
          PROVE  FALSE
        <3>1. PICK j \in DOMAIN wire : wire[j] = m
            BY <1>1, ToSetOf
        <3>2. 1 \in DOMAIN wire /\ 1 < j
            BY <1>1, <2>1, <3>1
        <3>3. Ghost(wire, t)
            BY <2>1, <3>1, <3>2 DEF Ghost
        <3> QED
            BY <1>2, <3>3
    <2> QED
        BY <2>1 DEF DoneOf
<1>4. Distinct(running) /\ call.pc # "check"
    BY DEF Deep, Belief
<1>5. t \in Believed => Last1(running, t)
    BY <1>2, <1>3, <1>4 DEF Deep, Belief
<1>6. /\ running' \in Seq(Turns) /\ Believed' = Believed \ {t} /\ Distinct(running')
      /\ \A x, y : Before(running', x, y) => Before(running, x, y)
      /\ running = <<>> => running' = <<>>
    BY <1>1, <1>4, WithoutIs DEF Believed
<1>7. running # <<>> => IF running[1] = t THEN running' = <<>> ELSE running' # <<>> /\ running'[1] = running[1]
    <2>1. running # <<>> => running[1] \in Believed
        BY <1>1, ToSetOf DEF Believed
    <2> QED
        BY <1>1, <1>4, <1>5, <2>1, WithoutHead, AloneWithout
<1>8. Stepping' /\ Aimed'
    BY <1>1 DEF Deep, Stepping, Aimed
<1>9. Belief'
    BY <1>1, <1>2, <1>4, <1>6 DEF Deep, Belief, Starting
<1>10. Phases'
    BY DEF Phases, Recovering, Checking, Viewing, Holding
<1>11. Aborting' /\ Unheard'
    <2>1. ZeroUnread(sdk) => host.inFlight[1] # t
        BY <1>2, InHostFacts DEF Deep
    <2> QED
        BY <1>1, <1>7, <2>1 DEF Deep, Aborting, Unheard, Sheds
<1>12. Buried'
    <2>1. native'.dead \subseteq accepted' /\ native'.dead \cap Has(sdk') = {}
        BY <1>2, InHostFacts DEF Deep, Buried
    <2>2. ASSUME NEW x \in native'.dead \cap Believed'
          PROVE  x = running'[1]
        <3>1. x \in native.dead \cap Believed /\ x # t /\ running # <<>>
            BY <1>1, <1>6, <2>2, ToSetOf DEF Believed
        <3>2. x = running[1]
            BY <3>1 DEF Deep, Buried
        <3> QED
            BY <1>7, <3>1, <3>2
    <2> QED
        BY <2>1, <2>2 DEF Buried
<1>13. Seen'
    <2>1. t # 0 /\ (native.view.status = "active" => running # <<>> /\ native.view.turn = running[1])
          /\ (native.view.turn # 0 => native.view.status = "active")
        BY DEF Deep, Seen, Turns, Control, Viewed, Sound
    <2>2. CASE running' = <<>>
        <3>1. native'.view.status # "active"
            BY <1>7, <2>1, <2>2 DEF Idle, Kept
        <3> QED
            BY <1>1, <2>2, <3>1 DEF Seen
    <2>3. CASE running' # <<>>
        <3>1. running # <<>> /\ running[1] # t /\ running'[1] = running[1]
            BY <1>6, <1>7, <2>3
        <3>2. native.view.turn # t
            BY <2>1, <3>1
        <3>3. ~Exempt
            BY <3>1 DEF Exempt
        <3>4. native'.view.status = native.view.status /\ (native.view.status = "active" => native'.view.turn = native.view.turn)
            BY <3>2 DEF Idle, Kept
        <3> QED
            BY <1>1, <2>3, <3>1, <3>3, <3>4 DEF Deep, Seen
    <2> QED
        BY <2>2, <2>3
<1> QED
    BY <1>8, <1>9, <1>10, <1>11, <1>12, <1>13 DEF Deep

LEMMA DuplicateReturnsDeep ==
    ASSUME Control, Deep, DuplicateReturns
    PROVE  Deep'
<1>1. /\ call.pc = "held" /\ Answered("held")
      /\ UNCHANGED <<sdk, host, accepted, interrupt, up, resumed, targets>>
    BY DEF DuplicateReturns, hostVars, historyVars
<1>2. /\ Sheds(wire, wire') /\ DoneOf(wire') = DoneOf(wire) /\ wire[1] \in ToSet(wire) /\ wire[1].kind = "held" /\ wire # <<>>
    BY <1>1, WireTailSheds
<1>3. /\ native' \in Sessions /\ Sure(native, native') /\ call' = [call EXCEPT !.pc = "last"]
      /\ \/ call.turn \in wire[1].set /\ running' = running /\ StartReturns(native)
         \/ /\ call.turn \notin wire[1].set /\ running' = Without(running, call.turn)
            /\ native'.dead = native.dead \cup {call.turn}
            /\ IF native.view.turn = call.turn \/ native.view.status = "idle" THEN Idle(native') ELSE Kept(native, native')
    BY DuplicateReturnsIs
<1>4. call'.pc = "last" /\ call'.op = "send" /\ resumed
    BY <1>1, <1>3 DEF Control, Typed, Calls, Shape
<1>5. native'.view.gen = native.view.gen /\ native \in Sessions /\ Sure(native, native)
    BY <1>3, SureOfItself DEF Sure, Onward, Control, Typed
<1>6. call.turn \in Turns
    <2>1. call.turn # 0 /\ call.turn \in Nat
        BY <1>1 DEF Control, Typed, Calls, Starting
    <2> QED
        BY <2>1 DEF Turns
<1>7. CASE call.turn \in wire[1].set /\ running' = running /\ StartReturns(native)
    <2>1. Confirmed(wire, call.turn) /\ ~Exempt
        BY <1>2, <1>7 DEF Confirmed, Exempt
    <2>2. /\ native'.dead = native.dead
          /\ \/ native' = native
             \/ Kept(native, native')
             \/ running # <<>> /\ running[1] \in native'.dead /\ native'.view.status = "idle"
             \/ /\ running # <<>> /\ running[1] \notin native'.dead
                /\ native'.view.status = "active" /\ native'.view.turn = running[1]
        BY <1>1, <1>5, <1>7, StartReturnsIs DEF Starting
    <2>3. Seen'
        BY <1>1, <1>4, <1>7, <2>1, <2>2 DEF Deep, Seen, Kept
    <2> QED
        BY <1>1, <1>2, <1>4, <1>5, <1>7, <2>1, <2>2, <2>3, StartedDeep
<1>8. CASE /\ call.turn \notin wire[1].set /\ running' = Without(running, call.turn)
           /\ native'.dead = native.dead \cup {call.turn}
           /\ IF native.view.turn = call.turn \/ native.view.status = "idle" THEN Idle(native') ELSE Kept(native, native')
    BY <1>1, <1>2, <1>4, <1>5, <1>6, <1>8, NotHeldDeep
<1> QED
    BY <1>3, <1>7, <1>8

-----------------------------------------------------------------------------
(* Interrupts, and the resumption of the thread.                           *)
\* The turn that the view shows is what the process runs, if it runs any.
LEMMA ShownRuns ==
    ASSUME Control, Deep, native.view.status = "active", call.pc = "none"
    PROVE  /\ running # <<>> /\ native.view.turn = running[1] /\ running[1] \in Believed /\ running[1] \in accepted
           /\ sdk.run \in {0, running[1]} /\ ~ZeroUnread(sdk)
<1> DEFINE t == running[1]
<1>1. running \in Seq(Turns) /\ host.inFlight \in Seq(Turns) /\ wire \in Seq(Messages) /\ sdk \in Processes
    BY DeepTypes
<1>2. running # <<>> /\ native.view.turn = t /\ t \in Believed /\ t \in Turns
    BY <1>1, ToSetOf DEF Deep, Seen, Believed
<1>3. t \notin native.dead
    BY <1>2 DEF Control, Viewed, Sound, Turns
<1>4. ~Waits /\ interrupt.pc = "none" /\ resumed
    <2>1. ~Waits
        BY DEF Waits
    <2>2. resumed
        BY <1>2 DEF Control, Shape
    <2> QED
        BY <2>1, <2>2, Held DEF Deep
<1>5. ~ZeroUnread(sdk)
    BY <1>3, <1>4 DEF Deep, Aborting
<1>6. t \in DoneOf(wire) \/ t \in InHost
    BY <1>2 DEF Deep, Belief, Starting
<1>7. t \in accepted /\ Distinct(running) /\ Distinct(host.inFlight) /\ Has(sdk) \subseteq InHost /\ InHost \subseteq Believed
    BY <1>4, <1>6, InHostFacts DEF Deep, Belief
<1>8. CASE t \in DoneOf(wire)
    <2>1. \A m \in ToSet(wire) : m.kind \notin {"sent", "interrupted"}
        BY <1>4, Kinds
    <2>2. PICK m \in ToSet(wire) : m.kind = "done" /\ m.turn = t
        BY <1>8 DEF DoneOf
    <2>3. PICK k \in DOMAIN wire : wire[k] = m
        BY <1>1, ToSetOf
    <2>4. Opens(wire, k)
        <3>1. \A j \in DOMAIN wire : wire[j].kind \notin {"sent", "interrupted"}
            BY <1>1, <2>1, ToSetOf
        <3> QED
            BY <2>2, <2>3, <3>1 DEF Opens
    <2>5. t \in Open(wire)
        BY <2>2, <2>3, <2>4 DEF Open
    <2> QED
        BY <1>2, <1>3, <1>4, <1>5, <1>7, <2>5 DEF Deep, Unheard
<1>9. CASE t \in InHost
    <2>1. ASSUME sdk.run # 0, sdk.run # t
          PROVE  FALSE
        <3>1. sdk.run \in Has(sdk)
            BY <2>1 DEF Has
        <3>2. Rest(sdk, host, interrupt) = InHost /\ Top(sdk) = sdk.run
            BY <1>4, <1>5, <2>1 DEF Rest, Top, Left, InHost
        <3>3. Before(host.inFlight, sdk.run, t)
            BY <1>9, <2>1, <3>2 DEF Deep, Stepping, InStep, Ordered
        <3>4. Before(running, t, sdk.run)
            BY <1>1, <1>2, <1>7, <2>1, <3>1, OrderFacts DEF Believed
        <3>5. Before(host.inFlight, t, sdk.run)
            BY <1>7, <1>9, <3>1, <3>4 DEF Deep, Belief
        <3> QED
            BY <1>1, <1>7, <3>3, <3>5, OrderFacts
    <2> QED
        BY <1>2, <1>5, <1>7, <2>1
<1> QED
    BY <1>6, <1>8, <1>9

LEMMA InterruptBeginsDeep ==
    ASSUME Control, Deep, InterruptBegins
    PROVE  Deep'
<1> DEFINE turn == native.view.turn
<1>1. /\ native.view.status = "active" /\ call.op = "none" /\ call.pc = "none" /\ up /\ resumed
      /\ call'.op = "interrupt" /\ call'.turn = turn
      /\ call'.pc = IF turn \notin ToSet(running) THEN "observe" ELSE IF Head(running) = turn THEN "sent" ELSE "last"
      /\ (call'.pc = "sent" => targets' = targets \cup {turn})
    BY InterruptBeginsIs
<1>2. UNCHANGED <<sdk, host, accepted, interrupt, wire, up, running, resumed, native>>
    BY DEF InterruptBegins, hostVars, viewVars
<1>3. /\ running # <<>> /\ turn = running[1] /\ running[1] \in Believed /\ turn \in accepted
      /\ sdk.run \in {0, turn} /\ ~ZeroUnread(sdk)
    BY <1>1, ShownRuns
<1>4. call'.pc = "sent" /\ turn \in targets'
    <2>1. Head(running) = turn
        BY <1>3, DeepTypes, ToSetOf
    <2> QED
        BY <1>1, <1>3, <2>1 DEF Believed
<1>5. interrupt.pc = "none" /\ ~Waits /\ ~Tells'
    <2>1. ~Waits
        BY <1>1 DEF Waits
    <2>2. interrupt.pc = "none" /\ ~Tells
        BY <2>1, Held DEF Deep
    <2> QED
        BY <1>2, <2>1, <2>2 DEF Tells
<1>6. InHost' = InHost /\ Believed' = Believed
    BY <1>2 DEF InHost, Believed
<1> HIDE DEF turn
<1>7. Stepping'
    BY <1>2 DEF Deep, Stepping
<1>8. Aimed'
    BY <1>1, <1>2, <1>3, <1>4, <1>5 DEF Aimed
<1>9. Belief'
    BY <1>1, <1>2, <1>4, <1>6 DEF Deep, Belief, Starting
<1>10. Phases'
    BY <1>4 DEF Phases, Recovering, Checking, Viewing, Holding
<1>11. Aborting' /\ Unheard'
    BY <1>2, <1>3, <1>5 DEF Deep, Aborting, Unheard
<1>12. Buried' /\ Seen'
    BY <1>1, <1>2, <1>6 DEF Deep, Buried, Seen, Exempt, Starting
<1> QED
    BY <1>7, <1>8, <1>9, <1>10, <1>11, <1>12 DEF Deep

LEMMA InterruptEndsDeep ==
    ASSUME Control, Deep, InterruptEnds
    PROVE  Deep'
<1> DEFINE t == call.turn
<1>1. /\ call.op = "interrupt" /\ call'.op = "none" /\ call'.pc = "none"
      /\ UNCHANGED <<sdk, host, accepted, interrupt, reqs, up, running, resumed, targets>>
    BY NoCallIs DEF InterruptEnds, hostVars, historyVars
<1>2. Waits
    BY <1>1 DEF Deep, Aimed, Waits
<1>3. Answered("interrupted")
    BY <1>2 DEF InterruptEnds, Waits
<1>4. /\ Sheds(wire, wire') /\ DoneOf(wire') = DoneOf(wire) /\ wire[1] \in ToSet(wire) /\ wire[1].kind = "interrupted"
    BY <1>3, WireTailSheds
<1>5. Tells /\ interrupt.pc = "none"
    BY <1>4, Held DEF Deep, Tells
<1>6. t \notin Has(sdk) /\ t \in accepted /\ (t \in Believed => running[1] = t)
    BY <1>2, <1>5 DEF Deep, Aimed
<1>7. /\ t \in Turns /\ up /\ resumed /\ Sure(native, native') /\ native'.dead = native.dead \cup {t}
      /\ IF native.view.turn = t \/ native.view.status = "idle" THEN Idle(native') ELSE Kept(native, native')
    BY InterruptEndsIs
<1>8. native'.view.gen = native.view.gen /\ running \in Seq(Turns)
    BY <1>7, DeepTypes DEF Sure, Onward
<1>9. InHost' = InHost /\ Believed' = Believed /\ ~Waits'
    BY <1>1 DEF InHost, Believed, Waits
<1>10. Stepping' /\ Aimed'
    BY <1>1, <1>5, <1>9 DEF Deep, Stepping, Aimed
<1>11. Belief'
    BY <1>1, <1>2, <1>4, <1>9 DEF Deep, Belief, Starting, Waits
<1>12. Phases'
    BY <1>1 DEF Phases, Recovering, Checking, Viewing, Holding
<1>13. Aborting' /\ Unheard'
    BY <1>1, <1>4, <1>5, <1>7 DEF Deep, Aborting, Unheard, Sheds
<1>14. Buried'
    <2>1. call.pc \notin Starting
        BY <1>2 DEF Waits, Starting
    <2> QED
        BY <1>1, <1>6, <1>7, <1>9, <2>1 DEF Deep, Buried
<1>15. Seen'
    <2>1. call.pc \notin Starting
        BY <1>2 DEF Waits, Starting
    <2>2. native.view.turn = t => native.view.status = "active" /\ running[1] = t /\ running # <<>>
        BY <1>7 DEF Deep, Seen, Control, Viewed, Sound, Turns
    <2> QED
        BY <1>1, <1>7, <2>1, <2>2 DEF Deep, Seen, Exempt, Idle, Kept
<1> QED
    BY <1>10, <1>11, <1>12, <1>13, <1>14, <1>15 DEF Deep

LEMMA SingletonSet ==
    ASSUME NEW S, IsFiniteSet(S), ~(Cardinality(S) > 1), NEW x \in S
    PROVE  S = {x}
<1>1. Cardinality(S) \in Nat /\ (Cardinality(S) = 0 <=> S = {})
    BY FS_CardinalityType, FS_EmptySet
<1>2. Cardinality(S) = 1
    BY <1>1
<1> QED
    BY <1>2, FS_Singleton

LEMMA ResumeRecoversDeep ==
    ASSUME Control, Deep, ResumeRecovers, trouble' = {}
    PROVE  Deep'
<1> DEFINE m == wire[1]
<1>1. /\ call.pc = "recover" /\ Answered("recovered") /\ resumed' = TRUE
      /\ running' = IF m.turn = 0 THEN running ELSE <<m.turn>>
      /\ Trouble("unadopted", Cardinality(m.set) > 1)
      /\ IF running' = <<>> THEN call' = [call EXCEPT !.pc = "view"] ELSE call' = [call EXCEPT !.pc = "check"]
      /\ UNCHANGED <<sdk, host, accepted, interrupt, up, native, targets>>
    BY DEF ResumeRecovers, hostVars, viewVars
<1>2. /\ Sheds(wire, wire') /\ DoneOf(wire') = DoneOf(wire) /\ m \in ToSet(wire) /\ m.kind = "recovered" /\ m \in Messages
    BY <1>1, WireTailSheds
<1>3. ~resumed /\ running = <<>> /\ call.op = "resume" /\ call.turn = 0
    BY <1>1 DEF Control, Shape, Deep, Phases, Recovering
<1>4. /\ InHost \subseteq m.set /\ m.set \subseteq accepted /\ IsFiniteSet(m.set)
      /\ IF m.turn = 0 THEN m.set = {} ELSE m.turn \in m.set
    BY <1>1, <1>2 DEF Deep, Phases, Recovering
<1>5. ~(Cardinality(m.set) > 1)
    BY <1>1 DEF Trouble
<1> HIDE DEF m
<1>6. CASE m.turn = 0
    <2>1. running' = <<>> /\ call'.pc = "view" /\ call'.turn = 0 /\ call'.op = "resume" /\ InHost = {} /\ Believed' = {}
        BY <1>1, <1>3, <1>4, <1>6 DEF Control, Typed, Calls, Believed, ToSet
    <2>2. Distinct(running') /\ InHost' = {} /\ ~Waits /\ ~Waits' /\ interrupt.pc = "none"
        <3>1. ~Waits
            BY <1>1 DEF Waits
        <3> QED
            BY <1>1, <2>1, <3>1, Held DEF Deep, Distinct, InHost, Waits
    <2>3. Stepping' /\ Aimed' /\ Aborting' /\ Unheard'
        BY <1>1, <1>2, <1>3, <2>1, <2>2 DEF Deep, Stepping, Aimed, Aborting, Unheard, Sheds
    <2>4. Belief'
        BY <1>1, <1>2, <2>1, <2>2 DEF Deep, Belief, Starting
    <2>5. Phases'
        BY <2>1 DEF Phases, Recovering, Checking, Viewing, Holding
    <2>6. Buried' /\ Seen'
        BY <1>1, <1>3, <2>1 DEF Deep, Buried, Seen
    <2> QED
        BY <2>3, <2>4, <2>5, <2>6 DEF Deep
<1>7. CASE m.turn # 0
    <2> DEFINE t == m.turn
    <2>1. m.set = {t} /\ t \in accepted
        BY <1>4, <1>5, <1>7, SingletonSet
    <2>2. running' = <<t>> /\ running' # <<>>
        BY <1>1, <1>7
    <2>3. call'.pc = "check" /\ call'.op = "resume"
        BY <1>1, <1>3, <2>2 DEF Control, Typed, Calls
    <2> HIDE DEF t
    <2>4. Believed' = {t} /\ running'[1] = t /\ Distinct(running') /\ \A x, y : ~Before(running', x, y)
        BY <2>2, ToSetOne DEF Believed, Distinct, Before
    <2>5. InHost' = InHost /\ InHost \subseteq Believed' /\ ~Waits /\ ~Waits' /\ interrupt.pc = "none"
        <3>1. ~Waits
            BY <1>1 DEF Waits
        <3> QED
            BY <1>1, <1>4, <2>1, <2>3, <2>4, <3>1, Held DEF Deep, InHost, Waits
    <2>6. Stepping' /\ Aimed' /\ Aborting' /\ Unheard'
        BY <1>1, <1>2, <1>3, <2>3, <2>5 DEF Deep, Stepping, Aimed, Aborting, Unheard, Sheds
    <2>7. \A x : Denied(wire', x)
        <3>1. \A y \in ToSet(wire) : y.kind # "checked"
            BY <1>1, Kinds
        <3> QED
            BY <1>2, <3>1 DEF Denied, Sheds
    <2>8. Belief'
        BY <1>1, <1>2, <2>3, <2>4, <2>5, <2>7 DEF Deep, Belief, Starting
    <2>9. Phases'
        BY <1>1, <2>1, <2>3, <2>4 DEF Phases, Recovering, Checking, Viewing, Holding
    <2>10. Buried' /\ Seen'
        BY <1>1, <1>3, <2>3, <2>4 DEF Deep, Buried, Seen
    <2> QED
        BY <2>6, <2>8, <2>9, <2>10 DEF Deep
<1> QED
    BY <1>6, <1>7

LEMMA ResumeEndsDeep ==
    ASSUME Control, Deep, ResumeEnds
    PROVE  Deep'
<1>1. /\ UNCHANGED <<sdk, host, accepted, interrupt, wire, up, running, resumed, targets>>
      /\ call.pc = "view" /\ call' = [call EXCEPT !.pc = "last"]
    BY DEF ResumeEnds, hostVars, historyVars
<1>2. /\ Sure(native, native') /\ native'.dead = native.dead /\ native \in Sessions
      /\ IF call.turn = 0 \/ call.turn \in native.dead
           THEN native'.view.status = "idle"
           ELSE native'.view.status = "active" /\ native'.view.turn = call.turn
    BY ResumeEndsIs DEF Control, Typed
<1>3. native'.view.gen = native.view.gen
    BY <1>2 DEF Sure, Onward
<1>4. call.op = "resume" /\ resumed /\ call'.op = "resume" /\ call'.pc = "last"
    BY <1>1 DEF Control, Shape, Typed, Calls
<1>5. InHost' = InHost /\ Believed' = Believed /\ ~Waits /\ ~Waits' /\ interrupt.pc = "none"
    <2>1. ~Waits
        BY <1>1 DEF Waits
    <2> QED
        BY <1>1, <1>4, <2>1, Held DEF Deep, InHost, Believed, Waits
<1>6. Stepping' /\ Aimed' /\ Aborting' /\ Unheard'
    BY <1>1, <1>2, <1>4, <1>5 DEF Deep, Stepping, Aimed, Aborting, Unheard
<1>7. Belief'
    BY <1>1, <1>4, <1>5 DEF Deep, Belief, Starting
<1>8. Phases'
    BY <1>4 DEF Phases, Recovering, Checking, Viewing, Holding
<1>9. Buried'
    BY <1>1, <1>2, <1>5 DEF Deep, Buried, Starting
<1>10. Seen'
    <2>1. Believed \subseteq {call.turn} /\ (call.turn # 0 => call.turn \in Believed \cup native.dead)
        BY <1>1 DEF Deep, Phases, Viewing
    <2>2. /\ running # <<>> => running[1] \in Believed /\ running[1] # 0
          /\ running = <<>> => Believed = {}
        BY DeepTypes, ToSetOf DEF Believed, Turns
    <2> QED
        BY <1>1, <1>2, <1>4, <2>1, <2>2 DEF Seen
<1> QED
    BY <1>6, <1>7, <1>8, <1>9, <1>10 DEF Deep

LEMMA ProbeEndsDeep ==
    ASSUME Control, Deep, NEW p \in probes, ProbeEnds(p)
    PROVE  Deep'
<1>1. UNCHANGED <<sdk, host, accepted, interrupt, reqs, wire, up, running, resumed, call, targets>>
    BY DEF ProbeEnds, hostVars, historyVars
<1>2. PICK t \in (IF running = <<>> THEN {0} ELSE {0, running[1]}) :
         /\ Sure(native, native') /\ native'.dead = native.dead
         /\ \/ native'.view.status = native.view.status /\ native'.view.turn = native.view.turn
            \/ native'.view.status = "idle" /\ t \in native.dead
            \/ t # 0 /\ t \notin native.dead /\ native'.view.status = "active" /\ native'.view.turn = t
    BY ProbeEndsIs
<1>3. native'.view.gen = native.view.gen
    BY <1>2 DEF Sure, Onward
<1>4. InHost' = InHost /\ Believed' = Believed /\ (Waits' <=> Waits) /\ (Asks' <=> Asks) /\ (Tells' <=> Tells)
    BY <1>1 DEF InHost, Believed, Waits, Asks, Tells
<1>5. Stepping' /\ Aimed' /\ Aborting' /\ Unheard'
    BY <1>1, <1>2, <1>3, <1>4 DEF Deep, Stepping, Aimed, Aborting, Unheard
<1>6. Belief'
    BY <1>1, <1>4 DEF Deep, Belief
<1>7. Phases'
    BY <1>1, <1>2, <1>4 DEF Deep, Phases, Recovering, Checking, Viewing, Holding
<1>8. Buried'
    BY <1>1, <1>2, <1>4 DEF Deep, Buried
<1>9. Seen'
    <2>1. 0 \notin native.dead /\ (~resumed => running = <<>>)
        BY DEF Control, Typed, Sessions, Turns, Shape
    <2>2. Exempt' <=> Exempt
        BY <1>1, <1>4 DEF Exempt
    <2> QED
        BY <1>1, <1>2, <2>1, <2>2 DEF Deep, Seen
<1> QED
    BY <1>5, <1>6, <1>7, <1>8, <1>9 DEF Deep

-----------------------------------------------------------------------------
(* The connection is lost, and another is made.                            *)
LEMMA ConnectionLostDeep ==
    ASSUME Control, Deep, ConnectionLost, trouble' = {}
    PROVE  Deep'
<1>1. /\ UNCHANGED <<sdk, host, accepted, interrupt, targets>>
      /\ up' = FALSE /\ reqs' = <<>> /\ wire' = <<>> /\ running' = <<>> /\ resumed' = FALSE
      /\ native' = Invalidated(native) /\ call'.op = "none" /\ call'.pc = "none"
    BY NoCallIs DEF ConnectionLost, hostVars
<1>2. interrupt.pc = "none" /\ sdk.results = <<>>
    BY NoInterruptIs DEF ConnectionLost, Trouble
<1>3. native'.dead = {} /\ native'.view.status = "unknown"
    BY <1>1, InvalidatedIs DEF Control, Typed
<1>4. ToSet(wire') = {} /\ DoneOf(wire') = {} /\ Open(wire') = {} /\ Believed' = {} /\ Distinct(running')
    BY <1>1 DEF ToSet, DoneOf, Open, Believed, Distinct
<1>5. ~ZeroUnread(sdk') /\ ~Waits'
    BY <1>1, <1>2 DEF ZeroUnread, Waits
<1>6. Stepping' /\ Aimed' /\ Aborting' /\ Unheard'
    BY <1>1, <1>2, <1>4, <1>5 DEF Deep, Stepping, Aimed, Aborting, Unheard
<1>7. Belief'
    <2>1. \A x, y : ~Before(running', x, y)
        BY <1>1 DEF Before
    <2> QED
        BY <1>1, <1>4, <2>1 DEF Belief, Starting
<1>8. Phases' /\ Buried' /\ Seen'
    BY <1>1, <1>3, <1>4 DEF Phases, Recovering, Checking, Viewing, Holding, Buried, Seen
<1> QED
    BY <1>6, <1>7, <1>8 DEF Deep

LEMMA ReconnectedDeep ==
    ASSUME Control, Deep, Reconnected
    PROVE  Deep'
<1>1. /\ UNCHANGED <<sdk, host, accepted, interrupt, reqs, wire, running, resumed, call, targets>>
      /\ ~up /\ native' = Registered(native, native.view.gen + 1)
    BY DEF Reconnected, hostVars, historyVars
<1>2. interrupt.pc = "none" /\ ~resumed /\ running = <<>> /\ call.pc = "none" /\ ~ZeroUnread(sdk)
    BY <1>1 DEF Deep, Aimed, Aborting, Control, Shape
<1>3. native'.dead = native.dead /\ native'.view.status = "unknown"
    <2> DEFINE g == native.view.gen + 1
    <2>1. g \in Nat /\ native \in Sessions
        BY DEF Control, Typed, Sessions, Views
    <2> HIDE DEF g
    <2>2. Registered(native, g).dead = native.dead /\ Registered(native, g).view.status = "unknown"
        BY <2>1, RegisteredIs
    <2> QED
        BY <1>1, <2>2 DEF g
<1>4. InHost' = InHost /\ Believed' = Believed /\ ~Waits'
    BY <1>1, <1>2 DEF InHost, Believed, Waits
<1>5. Stepping' /\ Aimed' /\ Aborting' /\ Unheard'
    BY <1>1, <1>2, <1>3, <1>4 DEF Deep, Stepping, Aimed, Aborting, Unheard, Waits
<1>6. Belief'
    BY <1>1, <1>4 DEF Deep, Belief
<1>7. Phases' /\ Buried' /\ Seen'
    BY <1>1, <1>2, <1>3, <1>4 DEF Deep, Phases, Recovering, Checking, Viewing, Holding, Buried, Seen, Starting
<1> QED
    BY <1>5, <1>6, <1>7 DEF Deep

-----------------------------------------------------------------------------
(* The whole holds as long as nothing that "trouble" names has happened.   *)
LEMMA InitStepping ==
    InStep(Process, Session, {}, NoInterrupt)
<1>1. /\ Process.run = 0 /\ Process.queue = <<>> /\ Process.results = <<>>
      /\ Session.inFlight = <<>> /\ Session.aborting = 0
    BY DEF Process, Session
<1>2. ToSet(<<>>) = {} /\ DOMAIN <<>> = {}
    BY DEF ToSet
<1>3. NoInterrupt.pc = "none"
    BY NoInterruptIs
<1>4. Queued(Process) = {} /\ Has(Process) = {} /\ Named(Process) = 0 /\ Top(Process) = 0 /\ ~ZeroUnread(Process)
    BY <1>1, <1>2 DEF Queued, Has, Named, Top, ZeroUnread
<1>5. Left(Session, NoInterrupt) = {} /\ Rest(Process, Session, NoInterrupt) = {}
    BY <1>1, <1>2, <1>3 DEF Left, Rest
<1>6. Within(Process, Session, {})
    BY <1>1, <1>2, <1>4 DEF Within, Distinct
<1>7. Results(Process) /\ Unread(Process, Session)
    BY <1>1, <1>4 DEF Results, Unread
<1>8. Ordered(Process, Session, NoInterrupt)
    BY <1>4, <1>5 DEF Ordered
<1>9. Spared(Process, Session, NoInterrupt)
    BY <1>1, <1>2, <1>3, <1>4, <1>5 DEF Spared
<1> QED
    BY <1>6, <1>7, <1>8, <1>9 DEF InStep

LEMMA InitDeep ==
    ASSUME Init
    PROVE  Deep
<1>1. /\ sdk = Process /\ host = Session /\ accepted = {} /\ interrupt = NoInterrupt
      /\ reqs = <<>> /\ wire = <<>> /\ up = TRUE /\ resumed = TRUE /\ running = <<>> /\ call = NoCall
      /\ native.view.status = "idle" /\ native.dead = {}
    BY DEF Init
<1>2. ToSet(<<>>) = {} /\ DOMAIN <<>> = {}
    BY DEF ToSet
<1>3. interrupt.pc = "none" /\ call.pc = "none" /\ call.op = "none"
    BY <1>1, NoInterruptIs, NoCallIs
<1>4. /\ sdk.run = 0 /\ sdk.results = <<>> /\ ~ZeroUnread(sdk) /\ host.inFlight = <<>>
    BY <1>1 DEF Process, Session, ZeroUnread
<1>5. InHost = {} /\ Believed = {} /\ DoneOf(wire) = {} /\ Open(wire) = {} /\ ToSet(wire) = {} /\ ToSet(reqs) = {}
    BY <1>1, <1>2, <1>4 DEF InHost, Believed, DoneOf, Open
<1>6. Stepping
    BY <1>1, InitStepping DEF Stepping
<1>7. Aimed
    BY <1>3 DEF Aimed, Waits
<1>8. Belief
    BY <1>1, <1>2, <1>3, <1>5 DEF Belief, Distinct, Starting
<1>9. Phases
    BY <1>3 DEF Phases, Recovering, Checking, Viewing, Holding
<1>10. Aborting /\ Unheard /\ Buried
    BY <1>1, <1>4, <1>5 DEF Aborting, Unheard, Buried
<1>11. Seen
    BY <1>1 DEF Seen
<1> QED
    BY <1>6, <1>7, <1>8, <1>9, <1>10, <1>11 DEF Deep

LEMMA StutterDeep ==
    ASSUME Control, Deep, UNCHANGED vars
    PROVE  Deep'
<1>1. UNCHANGED <<sdk, host, accepted, interrupt, reqs, wire, up, running, resumed, native, call, targets>>
    BY DEF vars, hostVars, viewVars, historyVars
<1>2. Stepping'
    BY <1>1 DEF Deep, Stepping
<1> QED
    BY <1>1, <1>2, ProcessDeep

LEMMA NextDeep ==
    ASSUME Control, Deep, [Next]_vars, trouble' = {}
    PROVE  Deep'
<1>1. CASE SdkFolds \/ SdkSucceeds \/ SdkAborts
    BY <1>1, SdkFoldsDeep, SdkSucceedsDeep, SdkAbortsDeep
<1>2. CASE HostReadsResult \/ HostReadsReceipt \/ HostServes
    BY <1>2, HostReadsResultDeep, HostReadsReceiptDeep, HostServesDeep
<1>3. CASE HostEvent \/ SweepBegins \/ SweepEnds
    BY <1>3, HostEventDeep, SweepBeginsDeep, SweepEndsDeep
<1>4. CASE Probe
    <2>1. PICK p \in probes : ProbeBegins(p) \/ ProbeEnds(p)
        BY <1>4 DEF Probe
    <2> QED
        BY <2>1, ProbeBeginsDeep, ProbeEndsDeep
<1>5. CASE SendBegins \/ SendChooses \/ ModelSet \/ ModelFails
    BY <1>5, SendBeginsDeep, SendChoosesDeep, ModelSetDeep, ModelFailsDeep
<1>6. CASE Accepted \/ Duplicate \/ DuplicateReturns
    BY <1>6, AcceptedDeep, DuplicateDeep, DuplicateReturnsDeep
<1>7. CASE InterruptBegins \/ InterruptEnds \/ CallEnds
    BY <1>7, InterruptBeginsDeep, InterruptEndsDeep, CallEndsDeep
<1>8. CASE ResumeBegins \/ ResumeRecovers \/ ResumeChecks \/ ResumeEnds
    BY <1>8, ResumeBeginsDeep, ResumeRecoversDeep, ResumeChecksDeep, ResumeEndsDeep
<1>9. CASE ConnectionLost \/ Reconnected
    BY <1>9, ConnectionLostDeep, ReconnectedDeep
<1>10. CASE UNCHANGED vars
    BY <1>10, StutterDeep
<1> QED
    BY <1>1, <1>2, <1>3, <1>4, <1>5, <1>6, <1>7, <1>8, <1>9, <1>10 DEF Next

\* What has troubled the view is not forgotten.
LEMMA TroubleGrows ==
    ASSUME [Next]_vars
    PROVE  trouble \subseteq trouble'
<1>1. CASE HostServes
    <2>1. trouble' = trouble \/ \E happens \in BOOLEAN : Trouble("misread", happens)
        BY <1>1 DEF HostServes, ServeSend, ServeInterrupt, ServeStatus
    <2> QED
        BY <2>1 DEF Trouble
<1>2. CASE SweepEnds
    BY <1>2 DEF SweepEnds, Reconciles, Trouble
<1>3. CASE ModelFails
    BY <1>3 DEF ModelFails, Trouble
<1>4. CASE ResumeRecovers
    BY <1>4 DEF ResumeRecovers, Trouble
<1>5. CASE ResumeChecks
    BY <1>5 DEF ResumeChecks, Reconciles, Trouble
<1>6. CASE ConnectionLost
    BY <1>6 DEF ConnectionLost, Trouble
<1>7. CASE UNCHANGED trouble
    BY <1>7
<1> QED
    BY <1>1, <1>2, <1>3, <1>4, <1>5, <1>6, <1>7 DEF Next, SdkFolds, SdkSucceeds, SdkAborts, HostReadsResult, HostReadsReceipt,
       HostEvent, Probe, ProbeBegins, ProbeEnds, SweepBegins, SendBegins, SendChooses, ModelSet, Accepted, Duplicate,
       DuplicateReturns, InterruptBegins, InterruptEnds, ResumeBegins, ResumeEnds, CallEnds, Reconnected, historyVars, vars

\* Outside the cases that "trouble" names, host and process stay in step: the
\* first turn in flight is the one that runs or whose end is not read yet, an
\* interrupt on its way is aimed at it, the runtime believes in what is in flight
\* and in nothing else but what is just being reserved, recovered or heard to
\* end, and no turn that was seen to end is one the process still has
\* (claude-host/session.ts consumeResult, interrupt, settleFoldedAcrossInterrupt;
\* claude-runtime.ts turnStart, turnInterrupt, onHostEvent, recoverState).
Agreed == Untroubled => Deep

THEOREM StaysAgreed == Spec => []Agreed
<1>1. Init => Control /\ Agreed
    BY InitControl, InitDeep DEF Agreed
<1>2. Control /\ Agreed /\ [Next]_vars => Control' /\ Agreed'
    <2> SUFFICES ASSUME Control, Agreed, [Next]_vars PROVE Control' /\ Agreed'
        OBVIOUS
    <2>1. Untroubled' => trouble = {} /\ trouble' = {}
        BY TroubleGrows DEF Untroubled
    <2>2. Untroubled' => Deep'
        BY <2>1, NextDeep DEF Agreed, Untroubled
    <2> QED
        BY <2>2, NextControl DEF Agreed
<1> QED
    BY <1>1, <1>2, PTL DEF Spec

-----------------------------------------------------------------------------
(* What follows for the process.                                           *)
LEMMA NextSparesOthers ==
    ASSUME Control, Agreed, [Next]_vars, Len(sdk'.results) > Len(sdk.results), Last(sdk'.results) = 0, Untroubled
    PROVE  sdk.run \in targets
<1>1. sdk \in Processes /\ Deep /\ sdk.results \in Seq(Nat) /\ Len(sdk.results) \in Nat /\ sdk.run \in Nat
    BY DEF Control, Typed, Agreed, Processes
<1>2. CASE SdkFolds
    BY <1>1, <1>2, FoldedIs DEF SdkFolds
<1>3. CASE SdkSucceeds
    <2>1. sdk'.results = Append(sdk.results, sdk.run) /\ sdk.run # 0
        BY <1>1, <1>3, SucceededIs DEF SdkSucceeds
    <2>2. Last(sdk'.results) = sdk.run
        BY <1>1, <2>1 DEF Last
    <2> QED
        BY <2>1, <2>2
<1>4. CASE SdkAborts
    <2>1. sdk' = Aborted(sdk)
        BY <1>4 DEF SdkAborts
    <2>2. sdk.run # 0
        BY <1>1, <2>1, AbortedIs
    <2> QED
        BY <1>1, <1>4, <2>2, SdkAbortsDeep
<1>5. CASE HostReadsResult
    <2>1. sdk'.results = Tail(sdk.results) /\ sdk.results # <<>>
        BY <1>1, <1>5 DEF HostReadsResult, Processes
    <2> QED
        BY <1>1, <2>1
<1>6. CASE HostServes
    <2> DEFINE t == Head(reqs).turn
    <2>1. CASE Head(reqs).kind = "send" /\ ServeSend(t) /\ Accepts(accepted, t)
        <3>1. sdk' = Fed(sdk, t)
            BY <2>1 DEF ServeSend
        <3>2. sdk'.results = sdk.results
            BY <1>1, <3>1 DEF Fed, Processes
        <3> QED
            BY <1>1, <3>2
    <2>2. CASE sdk' = sdk
        BY <1>1, <2>2
    <2> QED
        BY <1>6, <2>1, <2>2 DEF HostServes, ServeSend, ServeInterrupt, ServeStatus, hostVars
<1>7. CASE UNCHANGED sdk
    BY <1>1, <1>7
<1> QED
    BY <1>2, <1>3, <1>4, <1>5, <1>6, <1>7 DEF Next, HostReadsReceipt, HostEvent, Probe, ProbeBegins, ProbeEnds, SweepBegins, SweepEnds,
       SendBegins, SendChooses, ModelSet, ModelFails, Accepted, Duplicate, DuplicateReturns, InterruptBegins, InterruptEnds,
       ResumeBegins, ResumeRecovers, ResumeChecks, ResumeEnds, CallEnds, ConnectionLost, Reconnected, hostVars, vars

\* An abort ends a turn that somebody asked to interrupt: the interrupt that is
\* on its way finds its turn running, or nothing, never the next one of the queue
\* (claude-host/session.ts interrupt, claude-runtime.ts turnInterrupt).
THEOREM InterruptsSpareOthers == Spec => SparesOthers
<1>1. Control /\ Agreed /\ [Next]_vars =>
        [Len(sdk'.results) > Len(sdk.results) /\ Last(sdk'.results) = 0 /\ Untroubled => sdk.run \in targets]_vars
    BY NextSparesOthers
<1> QED
    BY <1>1, StaysInControl, StaysAgreed, PTL DEF Spec, SparesOthers

-----------------------------------------------------------------------------
(* What follows for the view.                                              *)
\* The turn that runs is before all that is queued behind it.
LEMMA RunIsFirst ==
    ASSUME Control, Deep, sdk.run # 0, NEW x \in Has(sdk) \ {sdk.run}
    PROVE  Before(host.inFlight, sdk.run, x)
<1>1. Top(sdk) = sdk.run
    BY DEF Top
<1>2. x \in InHost /\ Left(host, interrupt) \cap Has(sdk) = {}
    BY InHostFacts DEF Deep, Stepping, InStep, Spared
<1>3. ZeroUnread(sdk) => host.inFlight[1] \notin Has(sdk)
    BY DEF Deep, Stepping, InStep, Unread
<1>4. x \in Rest(sdk, host, interrupt)
    BY <1>2, <1>3 DEF Rest, InHost
<1> QED
    BY <1>1, <1>4 DEF Deep, Stepping, InStep, Ordered

LEMMA NeverAdoptsQueued ==
    ASSUME Control, Deep
    PROVE  QueuedNotAdopted
<1> SUFFICES ASSUME native.view.turn \in Queued(sdk) PROVE FALSE
    BY DEF QueuedNotAdopted
<1> DEFINE t == native.view.turn
<1>1. /\ sdk \in Processes /\ host.inFlight \in Seq(Turns) /\ running \in Seq(Turns)
    BY DeepTypes
<1>2. t # 0 /\ t \in Has(sdk)
    BY <1>1, NotZeroQueued
<1>3. native.view.status = "active"
    BY <1>2 DEF Control, Viewed, Sound
<1>4. running # <<>> /\ t = running[1]
    BY <1>3 DEF Deep, Seen
<1>5. resumed
    BY <1>4 DEF Control, Shape
<1>6. sdk.run # 0 /\ sdk.run # t
    <2>1. sdk.run \notin Queued(sdk) /\ (sdk.run = 0 => sdk.queue = <<>>)
        BY DEF Deep, Stepping, InStep, Within
    <2>2. sdk.queue # <<>>
        BY DEF Queued, ToSet
    <2> QED
        BY <2>1, <2>2
<1>7. sdk.run \in InHost /\ t \in InHost /\ InHost \subseteq Believed
    BY <1>1, <1>2, <1>5, <1>6, NotZeroQueued, InHostFacts DEF Deep, Belief
<1>8. Before(running, t, sdk.run)
    BY <1>1, <1>4, <1>6, <1>7, OrderFacts DEF Deep, Belief, Believed
<1>9. Before(host.inFlight, t, sdk.run)
    BY <1>7, <1>8 DEF Deep, Belief
<1>10. Before(host.inFlight, sdk.run, t)
    BY <1>2, <1>6, RunIsFirst
<1> QED
    BY <1>1, <1>9, <1>10, OrderFacts, InHostFacts DEF Deep

LEMMA QuietIsTrue ==
    ASSUME Control, Deep, Quiet
    PROVE  BeliefIsTrue /\ StatusIsTrue
<1>1. /\ sdk \in Processes /\ host.inFlight \in Seq(Turns) /\ running \in Seq(Turns)
    BY DeepTypes
<1>2. /\ up /\ resumed /\ wire = <<>> /\ reqs = <<>> /\ sdk.results = <<>> /\ interrupt.pc = "none" /\ call.op = "none"
    BY DEF Quiet
<1>3. call.pc = "none"
    BY <1>2 DEF Control, Shape
<1>4. DoneOf(wire) = {}
    BY <1>2 DEF DoneOf, ToSet
<1>5. Believed = InHost
    BY <1>2, <1>3, <1>4 DEF Deep, Belief, Starting
<1>6. Distinct(running) /\ Distinct(host.inFlight)
    BY InHostFacts DEF Deep, Belief
<1>7. \A x, y : Before(running, x, y) => Before(host.inFlight, x, y)
    BY <1>1, <1>5, <1>6, OrderFacts DEF Deep, Belief, Believed
<1>8. running = host.inFlight
    BY <1>1, <1>5, <1>6, <1>7, SameSequence DEF Believed, InHost
<1>9. Named(sdk) = 0 /\ ~ZeroUnread(sdk) /\ Top(sdk) = sdk.run /\ Rest(sdk, host, interrupt) = InHost
    BY <1>2 DEF Named, ZeroUnread, Top, Rest, Left, InHost
<1>10. /\ sdk.run # 0 => sdk.run \in InHost /\ \A x \in InHost \ {sdk.run} : Before(host.inFlight, sdk.run, x)
       /\ sdk.run = 0 => InHost = {}
    BY <1>9 DEF Deep, Stepping, InStep, Ordered
<1>11. sdk.run # 0 => running # <<>> /\ running[1] = sdk.run
    BY <1>1, <1>6, <1>8, <1>10, HeadOfAll DEF InHost
<1>12. native.view.status = "idle" => sdk.run = 0
    <2>1. sdk.run # 0 => running[1] \notin native.dead
        BY <1>1, <1>11, NotZeroQueued DEF Deep, Buried
    <2>2. ~Exempt
        BY <1>3 DEF Exempt, Starting
    <2> QED
        BY <1>11, <2>1, <2>2 DEF Deep, Seen
<1>13. native.view.status = "active" => native.view.turn = sdk.run
    <2>1. sdk.run = 0 => running = <<>>
        BY <1>1, <1>5, <1>10, ToSetOf DEF Believed
    <2> QED
        BY <1>11, <2>1 DEF Deep, Seen
<1> QED
    BY <1>8, <1>12, <1>13 DEF BeliefIsTrue, StatusIsTrue

\* The view never holds a turn active that was seen to end in its generation
\* (native-session-state.ts applyRefresh, applyStartResponse, observe).  Outside
\* the cases that "trouble" names it holds no turn that is only queued and takes
\* none for ended that the process still has, and once nothing is on its way,
\* view, runtime, host and process agree on what runs.
THEOREM StaysTrue == Spec => []ViewIsTrue
<1>1. Control => NotReinstated /\ (Quiet => native.view.status # "unknown")
    BY DEF Control, Viewed, Sound, NotReinstated, Quiet
<1>2. Control /\ Agreed /\ Untroubled => DeadIsOver /\ QueuedNotAdopted
    BY NeverAdoptsQueued DEF Agreed, Deep, Buried, DeadIsOver
<1>3. Control /\ Agreed /\ Quiet /\ Untroubled => BeliefIsTrue /\ StatusIsTrue
    BY QuietIsTrue DEF Agreed
<1>4. Control /\ Agreed => ViewIsTrue
    BY <1>1, <1>2, <1>3 DEF ViewIsTrue
<1> QED
    BY <1>4, StaysInControl, StaysAgreed, PTL
=============================================================================
