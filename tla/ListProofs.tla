------------------------------ MODULE ListProofs ----------------------------
(* Induction over the numbers, and what the filters and edits of lists give  *)
(* for lists of any length: the lemmas the pages' theorems rest on.          *)
EXTENDS Lists, Integers, SequencesExt, FiniteSetsExt, SequenceTheorems, WellFoundedInduction, TLAPS

-----------------------------------------------------------------------------
\* A number and a larger one.
Below == {ss \in Nat \X Nat : ss[1] < ss[2]}

\* Being below is well-founded,
LEMMA BelowWF == IsWellFoundedOn(Below, Nat)
  BY NatLessThanWellFounded DEF OpToRel, Below

\* so a set that has 0, and with a number the next, has all numbers.
LEMMA SetInduction ==
    ASSUME NEW S, 0 \in S, \A n \in Nat : n \in S => n + 1 \in S
    PROVE  Nat \subseteq S
<1> SUFFICES ASSUME Nat \ S # {} PROVE FALSE
  OBVIOUS
<1>1. PICK x \in Nat \ S : \A y \in Nat \ S : ~(<<y, x>> \in Below)
  BY BelowWF, WFMin, Zenon
<1>2. x # 0 /\ x - 1 \in Nat /\ x - 1 < x
  OBVIOUS
<1>3. <<x - 1, x>> \in Below
  BY <1>2 DEF Below
<1>4. x - 1 \in S
  BY <1>1, <1>2, <1>3
<1> QED
  BY <1>4, <1>2, <1>1

-----------------------------------------------------------------------------
\* What the filter has of the first n entries, from what it has of fewer.
FirstOf(s, K, g, n) ==
    IF n = 0 THEN <<>>
    ELSE IF s[n] \in K THEN Append(g[n - 1], s[n]) ELSE g[n - 1]

\* There is such a function for any number of entries, by induction on it,
LEMMA FirstExists ==
    ASSUME NEW s, NEW K, NEW N \in Nat
    PROVE  \E g : g = [n \in 0..N |-> FirstOf(s, K, g, n)]
<1> DEFINE S == {m \in Nat : \E g : g = [n \in 0..m |-> FirstOf(s, K, g, n)]}
<1>1. 0 \in S
  <2> DEFINE g == [n \in 0..0 |-> <<>>]
  <2>1. g = [n \in 0..0 |-> FirstOf(s, K, g, n)]
    BY DEF FirstOf
  <2> QED
    BY <2>1
<1>2. ASSUME NEW m \in Nat, m \in S PROVE m + 1 \in S
  <2>1. PICK g : g = [n \in 0..m |-> FirstOf(s, K, g, n)]
    BY <1>2
  <2> DEFINE h == [n \in 0..(m + 1) |-> FirstOf(s, K, g, n)]
  <2>2. \A n \in 0..m : h[n] = g[n]
    <3>1. \A n \in 0..m : n \in 0..(m+1)
      OBVIOUS
    <3> QED BY <2>1, <3>1
  <2>3. ASSUME NEW n \in 0..(m + 1) PROVE h[n] = FirstOf(s, K, h, n)
    <3>1. n = 0 \/ n - 1 \in 0..m
      OBVIOUS
    <3>2. h[n] = FirstOf(s, K, g, n)
      OBVIOUS
    <3> HIDE DEF h
    <3> QED
      BY <3>1, <3>2, <2>2 DEF FirstOf
  <2>4. h = [n \in 0..(m + 1) |-> h[n]]
    OBVIOUS
  <2> HIDE DEF h
  <2>5. h = [n \in 0..(m + 1) |-> FirstOf(s, K, h, n)]
    BY <2>3, <2>4
  <2> QED
    BY <2>5
<1>3. Nat \subseteq S
  <2> HIDE DEF S
  <2> QED BY <1>1, <1>2, SetInduction
<1> QED
  BY <1>3

\* so the filter is what the function has of all of them.
LEMMA OnlyIs ==
    ASSUME NEW T, NEW s \in Seq(T), NEW K
    PROVE  \E g : /\ Only(s, K) = g[Len(s)]
                  /\ \A n \in 0..Len(s) : g[n] = FirstOf(s, K, g, n)
<1> DEFINE g == CHOOSE g : g = [n \in 0..Len(s) |-> FirstOf(s, K, g, n)]
<1>1. Only(s, K) = g[Len(s)]
  BY DEF Only, FirstOf
<1>2. g = [n \in 0..Len(s) |-> FirstOf(s, K, g, n)]
  <2>1. Len(s) \in Nat OBVIOUS
  <2> QED BY <2>1, FirstExists
<1> HIDE DEF g
<1> QED
  BY <1>1, <1>2

\* A filter yields no more entries than s has, each of them an entry of s that is
\* in K, and none twice if s has none twice.
LEMMA OnlyFacts ==
    ASSUME NEW T, NEW s \in Seq(T), NEW K
    PROVE  /\ Only(s, K) \in Seq(T)
           /\ Len(Only(s, K)) <= Len(s)
           /\ \A j \in 1..Len(Only(s, K)) :
                 Only(s, K)[j] \in K /\ \E i \in 1..Len(s) : Only(s, K)[j] = s[i]
           /\ IsInjective(s) => IsInjective(Only(s, K))
<1>1. PICK g : /\ Only(s, K) = g[Len(s)]
               /\ \A n \in 0..Len(s) : g[n] = FirstOf(s, K, g, n)
  BY OnlyIs
<1> DEFINE P(n) == /\ g[n] \in Seq(T) /\ Len(g[n]) <= n
                   /\ \A j \in 1..Len(g[n]) : g[n][j] \in K /\ \E i \in 1..n : g[n][j] = s[i]
                   /\ IsInjective(s) => IsInjective(g[n])
           S == {n \in Nat : n <= Len(s) => P(n)}
<1>2. Len(s) \in Nat /\ (\A n \in 1..Len(s) : s[n] \in T) /\ DOMAIN s = 1..Len(s)
  OBVIOUS
<1>3. 0 \in S
  <2>1. g[0] = <<>>
    BY <1>1, <1>2 DEF FirstOf
  <2>2. P(0)
    BY <2>1 DEF IsInjective
  <2> QED
    BY <2>2
<1>4. ASSUME NEW n \in Nat, n \in S PROVE n + 1 \in S
  <2> SUFFICES ASSUME n + 1 <= Len(s) PROVE P(n + 1)
    OBVIOUS
  <2>1. P(n)
    BY <1>2, <1>4
  <2>2. n + 1 \in 0..Len(s) /\ n + 1 \in 1..Len(s)
    BY <1>2
  <2>3. g[n + 1] = IF s[n + 1] \in K THEN Append(g[n], s[n + 1]) ELSE g[n]
    BY <1>1, <2>2 DEF FirstOf
  <2>4. CASE s[n + 1] \notin K
    BY <2>1, <2>3, <2>4
  <2>5. CASE s[n + 1] \in K
    <3> DEFINE a == g[n]
               x == s[n + 1]
               b == g[n + 1]
    <3>1. b = Append(a, x) /\ a \in Seq(T) /\ x \in T
      BY <1>2, <2>1, <2>2, <2>3, <2>5
    <3>2. \A j \in 1..Len(a) : a[j] \in K /\ \E i \in 1..n : a[j] = s[i]
      BY <2>1
    <3>3. Len(a) <= n /\ Len(a) \in Nat /\ (IsInjective(s) => IsInjective(a))
      BY <2>1
    <3> HIDE DEF a, b, x, P
    <3>4. b \in Seq(T) /\ Len(b) = Len(a) + 1 /\ b[Len(a) + 1] = x
          /\ \A j \in 1..Len(a) : b[j] = a[j]
      BY <3>1, <3>3
    <3>5. ASSUME NEW j \in 1..Len(b) PROVE b[j] \in K /\ \E i \in 1..(n + 1) : b[j] = s[i]
      <4>1. CASE j = Len(a) + 1
        BY <2>5, <3>4, <4>1, <2>2 DEF x
      <4>2. CASE j \in 1..Len(a)
        BY <3>2, <3>4, <4>2
      <4> QED
        BY <4>1, <4>2, <3>3, <3>4
    <3>6. ASSUME IsInjective(s) PROVE IsInjective(b)
      <4>1. \A j \in 1..Len(a) : a[j] # x
        <5> SUFFICES ASSUME NEW j \in 1..Len(a), a[j] = x PROVE FALSE
          OBVIOUS
        <5>1. PICK i \in 1..n : x = s[i]
          BY <3>2
        <5>2. i \in 1..Len(s) /\ i # n + 1
          BY <2>2, <1>2
        <5> QED
          BY <5>1, <5>2, <2>2, <1>2, <3>6 DEF IsInjective, x
      <4>2. DOMAIN a = 1..Len(a) /\ DOMAIN b = 1..(Len(a) + 1)
        BY <3>1, <3>4
      <4>3. IsInjective(a)
        BY <3>6, <3>3
      <4> QED
        BY <3>3, <3>4, <4>1, <4>2, <4>3 DEF IsInjective
    <3>7. Len(b) <= n + 1
      BY <3>3, <3>4
    <3>8. P(n + 1)
      BY <3>4, <3>5, <3>6, <3>7 DEF b, P
    <3> QED
      BY <3>8
  <2> QED
    BY <2>4, <2>5
<1>5. Len(s) \in S
  <2> HIDE DEF S
  <2> QED
    BY <1>2, <1>3, <1>4, SetInduction
<1> QED
  BY <1>1, <1>2, <1>5

-----------------------------------------------------------------------------
\* A part of a list,
LEMMA PartIs ==
    ASSUME NEW T, NEW s \in Seq(T), NEW m \in Nat, NEW n \in Nat, 1 <= m, m <= n + 1, n <= Len(s)
    PROVE  /\ SubSeq(s, m, n) \in Seq(T) /\ Len(SubSeq(s, m, n)) = n - m + 1
           /\ \A k \in 1..(n - m + 1) : SubSeq(s, m, n)[k] = s[m + k - 1]
  OBVIOUS

\* and two lists one after the other.
LEMMA JoinIs ==
    ASSUME NEW T, NEW a \in Seq(T), NEW b \in Seq(T)
    PROVE  /\ a \o b \in Seq(T) /\ Len(a \o b) = Len(a) + Len(b)
           /\ \A k \in 1..Len(a) : (a \o b)[k] = a[k]
           /\ \A k \in 1..Len(b) : (a \o b)[Len(a) + k] = b[k]
  OBVIOUS

\* A list without one of its places,
LEMMA RemoveIs ==
    ASSUME NEW T, NEW s \in Seq(T), NEW i \in 1..Len(s)
    PROVE  /\ RemoveAt(s, i) \in Seq(T) /\ Len(RemoveAt(s, i)) = Len(s) - 1
           /\ \A k \in 1..(Len(s) - 1) : RemoveAt(s, i)[k] = IF k < i THEN s[k] ELSE s[k + 1]
<1> DEFINE a == SubSeq(s, 1, i - 1)
           b == SubSeq(s, i + 1, Len(s))
<1>0. Len(s) \in Nat /\ i - 1 \in Nat /\ i + 1 \in Nat
  OBVIOUS
<1>1. a \in Seq(T) /\ Len(a) = i - 1 /\ \A k \in 1..(i - 1) : a[k] = s[k]
  BY <1>0, PartIs
<1>2. b \in Seq(T) /\ Len(b) = Len(s) - i /\ \A k \in 1..(Len(s) - i) : b[k] = s[i + k]
  BY <1>0, PartIs
<1>3. RemoveAt(s, i) = a \o b
  BY DEF RemoveAt
<1> HIDE DEF a, b
<1>4. /\ a \o b \in Seq(T) /\ Len(a \o b) = Len(s) - 1
      /\ \A k \in 1..(i - 1) : (a \o b)[k] = s[k]
      /\ \A k \in 1..(Len(s) - i) : (a \o b)[(i - 1) + k] = s[i + k]
  <2>0. a \in Seq(T) /\ b \in Seq(T)
    BY <1>1, <1>2
  <2>1. /\ a \o b \in Seq(T) /\ Len(a \o b) = Len(a) + Len(b)
        /\ \A k \in 1..Len(a) : (a \o b)[k] = a[k]
        /\ \A k \in 1..Len(b) : (a \o b)[Len(a) + k] = b[k]
    BY <2>0, JoinIs
  <2> DEFINE ab == a \o b
  <2> HIDE DEF ab
  <2>2. /\ ab \in Seq(T) /\ Len(ab) = (i - 1) + (Len(s) - i)
        /\ \A k \in 1..(i - 1) : ab[k] = a[k]
        /\ \A k \in 1..(Len(s) - i) : ab[(i - 1) + k] = b[k]
    BY <2>1, <1>1, <1>2 DEF ab
  <2>3. (i - 1) + (Len(s) - i) = Len(s) - 1
    BY <1>0
  <2>4. /\ \A k \in 1..(i - 1) : ab[k] = s[k]
        /\ \A k \in 1..(Len(s) - i) : ab[(i - 1) + k] = s[i + k]
    BY <2>2, <1>1, <1>2
  <2> QED
    BY <2>2, <2>3, <2>4 DEF ab
<1>5. ASSUME NEW k \in 1..(Len(s) - 1), k >= i PROVE (a \o b)[k] = s[k + 1]
  <2>1. k - (i - 1) \in 1..(Len(s) - i)
    BY <1>0, <1>5
  <2>2. (a \o b)[(i - 1) + (k - (i - 1))] = s[i + (k - (i - 1))]
    BY <2>1, <1>4
  <2>3. (i - 1) + (k - (i - 1)) = k /\ i + (k - (i - 1)) = k + 1
    BY <1>0
  <2> QED
    BY <2>2, <2>3
<1> QED
  BY <1>0, <1>3, <1>4, <1>5

\* and one with another entry put in.
LEMMA InsertIs ==
    ASSUME NEW T, NEW s \in Seq(T), NEW x \in T, NEW j \in 1..(Len(s) + 1)
    PROVE  /\ InsertAt(s, j, x) \in Seq(T) /\ Len(InsertAt(s, j, x)) = Len(s) + 1
           /\ \A k \in 1..(j - 1) : InsertAt(s, j, x)[k] = s[k]
           /\ InsertAt(s, j, x)[j] = x
           /\ \A k \in (j + 1)..(Len(s) + 1) : InsertAt(s, j, x)[k] = s[k - 1]
<1> DEFINE a == SubSeq(s, 1, j - 1)
           b == SubSeq(s, j, Len(s))
           c == a \o <<x>>
<1>0. Len(s) \in Nat /\ j - 1 \in Nat /\ j \in Nat
  OBVIOUS
<1>1. a \in Seq(T) /\ Len(a) = j - 1 /\ \A k \in 1..(j - 1) : a[k] = s[k]
  BY <1>0, PartIs
<1>2. b \in Seq(T) /\ Len(b) = Len(s) - j + 1 /\ \A k \in 1..(Len(s) - j + 1) : b[k] = s[j + k - 1]
  BY <1>0, PartIs
<1>3. InsertAt(s, j, x) = c \o b
  BY DEF InsertAt
<1> HIDE DEF a, b
<1>4. c \in Seq(T) /\ Len(c) = j /\ c[j] = x /\ \A k \in 1..(j - 1) : c[k] = s[k]
  <2>1. <<x>> \in Seq(T) /\ Len(<<x>>) = 1 /\ <<x>>[1] = x
    OBVIOUS
  <2>2. c \in Seq(T) /\ Len(c) = Len(a) + 1
        /\ (\A k \in 1..Len(a) : c[k] = a[k]) /\ c[Len(a) + 1] = x
    BY <1>1, <2>1, JoinIs
  <2> HIDE DEF c
  <2> QED
    BY <1>0, <1>1, <2>2
<1> HIDE DEF c
<1>5. /\ c \o b \in Seq(T) /\ Len(c \o b) = Len(s) + 1
      /\ \A k \in 1..j : (c \o b)[k] = c[k]
      /\ \A k \in 1..(Len(s) - j + 1) : (c \o b)[j + k] = s[j + k - 1]
  <2>1. /\ c \o b \in Seq(T) /\ Len(c \o b) = Len(c) + Len(b)
        /\ \A k \in 1..Len(c) : (c \o b)[k] = c[k]
        /\ \A k \in 1..Len(b) : (c \o b)[Len(c) + k] = b[k]
    BY <1>2, <1>4, JoinIs
  <2> DEFINE cb == c \o b
  <2> HIDE DEF cb
  <2>2. /\ cb \in Seq(T) /\ Len(cb) = j + (Len(s) - j + 1)
        /\ \A k \in 1..j : cb[k] = c[k]
        /\ \A k \in 1..(Len(s) - j + 1) : cb[j + k] = b[k]
    BY <2>1, <1>2, <1>4 DEF cb
  <2>3. j + (Len(s) - j + 1) = Len(s) + 1
    BY <1>0
  <2>4. \A k \in 1..(Len(s) - j + 1) : cb[j + k] = s[j + k - 1]
    BY <2>2, <1>2
  <2> QED
    BY <2>2, <2>3, <2>4 DEF cb
<1>6. ASSUME NEW k \in 1..(Len(s) + 1), k > j PROVE (c \o b)[k] = s[k - 1]
  <2>1. k - j \in 1..(Len(s) - j + 1)
    BY <1>0, <1>6
  <2>2. (c \o b)[j + (k - j)] = s[j + (k - j) - 1]
    BY <2>1, <1>5
  <2>3. j + (k - j) = k /\ j + (k - j) - 1 = k - 1
    BY <1>0
  <2> QED
    BY <2>2, <2>3
<1> QED
  BY <1>0, <1>3, <1>4, <1>5, <1>6

\* A list without repetition has none without a place, nor what stood there,
LEMMA RemoveInjective ==
    ASSUME NEW T, NEW s \in Seq(T), IsInjective(s), NEW i \in DOMAIN s
    PROVE  /\ IsInjective(RemoveAt(s, i))
           /\ \A j \in DOMAIN RemoveAt(s, i) : RemoveAt(s, i)[j] # s[i]
<1> DEFINE r == RemoveAt(s, i)
<1>1. i \in 1..Len(s) /\ Len(s) \in Nat
  OBVIOUS
<1>2. /\ r \in Seq(T) /\ Len(r) = Len(s) - 1
      /\ \A j \in 1..(Len(s) - 1) : r[j] = IF j < i THEN s[j] ELSE s[j + 1]
  BY <1>1, RemoveIs
<1> HIDE DEF r
<1>3. DOMAIN r = 1..(Len(s) - 1) /\ DOMAIN s = 1..Len(s)
  BY <1>2
<1>4. IsInjective(r)
  BY <1>1, <1>2, <1>3 DEF IsInjective
<1>5. \A j \in DOMAIN r : r[j] # s[i]
  BY <1>1, <1>2, <1>3 DEF IsInjective
<1> QED
  BY <1>2, <1>4, <1>5 DEF r

\* and putting in one that is new makes none the same either.
LEMMA InsertInjective ==
    ASSUME NEW T, NEW s \in Seq(T), IsInjective(s), NEW x \in T, \A i \in DOMAIN s : s[i] # x,
           NEW j \in 1..(Len(s) + 1)
    PROVE  IsInjective(InsertAt(s, j, x))
<1> DEFINE r == InsertAt(s, j, x)
<1>1. Len(s) \in Nat
  OBVIOUS
<1>2. /\ r \in Seq(T) /\ Len(r) = Len(s) + 1
      /\ \A k \in 1..(j - 1) : r[k] = s[k]
      /\ r[j] = x
      /\ \A k \in (j + 1)..(Len(s) + 1) : r[k] = s[k - 1]
  BY InsertIs
<1> HIDE DEF r
<1>3. DOMAIN r = 1..(Len(s) + 1) /\ DOMAIN s = 1..Len(s)
  BY <1>2
<1>4. ASSUME NEW k \in 1..(Len(s) + 1), NEW l \in 1..(Len(s) + 1), r[k] = r[l], k < l
      PROVE  FALSE
  <2>0. j \in Nat /\ k \in Nat /\ l \in Nat /\ k >= 1 /\ l >= 1 /\ j >= 1
        /\ k <= Len(s) + 1 /\ l <= Len(s) + 1
    BY <1>1
  <2>1. \A m \in 1..(Len(s) + 1) : /\ m < j => m \in 1..(j - 1)
                                   /\ m > j => m \in (j + 1)..(Len(s) + 1)
    BY <1>1
  <2>2. \A p, q \in 1..Len(s) : p # q => s[p] # s[q]
    BY <1>3 DEF IsInjective
  <2>3. \A p \in 1..Len(s) : s[p] # x
    BY <1>3
  <2>4. CASE l < j
    <3>1. r[k] = s[k] /\ r[l] = s[l] /\ k \in 1..Len(s) /\ l \in 1..Len(s) /\ k # l
      BY <1>1, <1>2, <1>4, <2>0, <2>1, <2>4
    <3> QED
      BY <1>4, <2>2, <3>1
  <2>5. CASE l = j
    <3>1. r[k] = s[k] /\ r[l] = x /\ k \in 1..Len(s)
      BY <1>1, <1>2, <1>4, <2>0, <2>1, <2>5
    <3> QED
      BY <1>4, <2>3, <3>1
  <2>6. CASE l > j /\ k < j
    <3>1. r[k] = s[k] /\ r[l] = s[l - 1] /\ k \in 1..Len(s) /\ l - 1 \in 1..Len(s) /\ k # l - 1
      BY <1>1, <1>2, <1>4, <2>0, <2>1, <2>6
    <3> QED
      BY <1>4, <2>2, <3>1
  <2>7. CASE l > j /\ k = j
    <3>1. r[k] = x /\ r[l] = s[l - 1] /\ l - 1 \in 1..Len(s)
      BY <1>1, <1>2, <1>4, <2>0, <2>1, <2>7
    <3> QED
      BY <1>4, <2>3, <3>1
  <2>8. CASE l > j /\ k > j
    <3>1. r[k] = s[k - 1] /\ r[l] = s[l - 1]
      BY <1>1, <1>2, <1>4, <2>0, <2>1, <2>8
    <3>2. k - 1 \in 1..Len(s) /\ l - 1 \in 1..Len(s) /\ k - 1 # l - 1
      BY <1>1, <1>4, <2>0, <2>8
    <3> QED
      BY <1>4, <2>2, <3>1, <3>2
  <2> QED
    BY <2>4, <2>5, <2>6, <2>7, <2>8
<1>5. IsInjective(r)
  <2>1. \A k, l \in 1..(Len(s) + 1) : k = l \/ k < l \/ l < k
    BY <1>1
  <2> QED
    BY <1>3, <1>4, <2>1 DEF IsInjective
<1> QED
  BY <1>5 DEF r

\* An entry that is new to a list makes no two the same.
LEMMA AddInjective ==
    ASSUME NEW T, NEW s \in Seq(T), IsInjective(s), NEW x \in T, \A i \in DOMAIN s : s[i] # x
    PROVE  Append(s, x) \in Seq(T) /\ IsInjective(Append(s, x))
  BY DEF IsInjective

-----------------------------------------------------------------------------
\* A set of numbers up to a bound that is not empty has a largest,
LEMMA MaxIs ==
    ASSUME NEW n \in Nat, NEW S \in SUBSET (1..n), S # {}
    PROVE  Max(S) \in S /\ \A y \in S : y <= Max(S)
<1> DEFINE P == {k \in Nat : \A T \in SUBSET (1..k) : T # {} => \E x \in T : \A y \in T : x >= y}
<1>1. 0 \in P
  <2>1. 1..0 = {}
    OBVIOUS
  <2> QED
    BY <2>1
<1>2. ASSUME NEW k \in Nat, k \in P PROVE k + 1 \in P
  <2> SUFFICES ASSUME NEW T \in SUBSET (1..(k + 1)), T # {}
               PROVE  \E x \in T : \A y \in T : x >= y
    OBVIOUS
  <2>1. CASE k + 1 \in T
    BY <2>1
  <2>2. CASE k + 1 \notin T
    <3>1. T \in SUBSET (1..k)
      BY <2>2
    <3> QED
      BY <1>2, <3>1
  <2> QED
    BY <2>1, <2>2
<1>3. n \in P
  <2> HIDE DEF P
  <2> QED
    BY <1>1, <1>2, SetInduction
<1>4. \E x \in S : \A y \in S : x >= y
  BY <1>3
<1> DEFINE m == CHOOSE x \in S : \A y \in S : x >= y
<1>5. m \in S /\ \A y \in S : m >= y
  BY <1>4
<1>6. m = Max(S)
  BY DEF Max
<1> HIDE DEF m
<1> QED
  BY <1>5, <1>6

\* and the largest is known when it is met.
LEMMA MaxMet ==
    ASSUME NEW S \in SUBSET Int, NEW x \in S, \A y \in S : y <= x PROVE Max(S) = x
<1>1. \A z \in S : (\A y \in S : z >= y) => z = x
  OBVIOUS
<1>2. \A y \in S : x >= y
  OBVIOUS
<1> QED
  BY <1>1, <1>2 DEF Max

\* So is the smallest,
LEMMA MinMet ==
    ASSUME NEW S \in SUBSET Int, NEW x \in S, \A y \in S : x <= y PROVE Min(S) = x
<1>1. \A z \in S : (\A y \in S : z <= y) => z = x
  OBVIOUS
<1> QED
  BY <1>1 DEF Min

\* and the smaller of two.
LEMMA MinTwo ==
    ASSUME NEW a \in Int, NEW b \in Int PROVE Min({a, b}) = IF a <= b THEN a ELSE b
<1>1. CASE a <= b
  <2>1. Min({a, b}) = a
    BY <1>1, MinMet
  <2> QED
    BY <1>1, <2>1
<1>2. CASE ~(a <= b)
  <2>1. Min({a, b}) = b
    BY <1>2, MinMet
  <2> QED
    BY <1>2, <2>1
<1> QED
  BY <1>1, <1>2
=============================================================================
