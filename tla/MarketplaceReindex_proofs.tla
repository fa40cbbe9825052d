---------------------- MODULE MarketplaceReindex_proofs ----------------------
(***************************************************************************)
(* MarketplaceReindex, for any table the indexer may have written, any     *)
(* size of a batch, any beforeTimestamp and any events added meanwhile: it *)
(* is type correct, skips no event, processes an event with its            *)
(* transaction and its next results, and processes events by timestamp.    *)
(***************************************************************************)
EXTENDS MarketplaceReindex, SequenceTheorems, FiniteSetTheorems,
        WellFoundedInduction, TLAPS

-----------------------------------------------------------------------------
(* Numbers, recursive functions and Kept. A recursive function is given as *)
(* the one chosen among those that satisfy its equation: there is one, so  *)
(* what is chosen satisfies it.                                            *)

\* A set of numbers has a smallest.
LEMMA Smallest ==
  ASSUME NEW N \in SUBSET Nat, N # {}
  PROVE  \E m \in N : \A n \in N : m <= n
<1>1. PICK m \in N : \A n \in N : ~(<<n, m>> \in OpToRel(<, Nat))
  BY NatLessThanWellFounded, WFMin
<1>2. \A n \in N : ~(n < m)
  BY <1>1 DEF OpToRel
<1> QED BY <1>2

\* What holds of 0, and of k + 1 when it holds of k, holds up to n.
LEMMA Climb ==
  ASSUME NEW n \in Nat, NEW P \in SUBSET Nat, 0 \in P,
         \A k \in 0..(n - 1) : k \in P => k + 1 \in P
  PROVE  \A k \in 0..n : k \in P
<1> DEFINE Bad == {k \in Nat : k <= n /\ k \notin P}
<1> SUFFICES ASSUME Bad # {} PROVE FALSE
  OBVIOUS
<1>1. PICK m \in Bad : \A k \in Bad : m <= k
  <2>1. Bad \in SUBSET Nat
    OBVIOUS
  <2> HIDE DEF Bad
  <2> QED BY <2>1, Smallest
<1>2. m \in Nat /\ m <= n /\ m \notin P /\ m # 0
  OBVIOUS
<1>3. m - 1 \in 0..(n - 1) /\ m - 1 \notin Bad
  BY <1>1, <1>2
<1>4. m - 1 \in P
  BY <1>2, <1>3
<1> QED BY <1>2, <1>3, <1>4

\* A function of 0..n given by its first value and by each next one.
LEMMA Recursion ==
  ASSUME NEW T, NEW b \in T, NEW n \in Nat, NEW next \in [1..n -> [T -> T]]
  PROVE  \E f \in [0..n -> T] :
           f[0] = b /\ \A k \in 1..n : f[k] = next[k][f[k - 1]]
<1> DEFINE Is(f, m) == f[0] = b /\ \A k \in 1..m : f[k] = next[k][f[k - 1]]
           P == {m \in Nat : m <= n => \E f \in [0..m -> T] : Is(f, m)}
<1>1. 0 \in P
  <2>1. Is([i \in 0..0 |-> b], 0)
    OBVIOUS
  <2>2. [i \in 0..0 |-> b] \in [0..0 -> T]
    OBVIOUS
  <2> HIDE DEF Is
  <2> QED BY <2>1, <2>2
<1>2. ASSUME NEW m \in 0..(n - 1), m \in P PROVE m + 1 \in P
  <2>1. PICK f \in [0..m -> T] : Is(f, m)
    BY <1>2
  <2> DEFINE g == [i \in 0..(m + 1) |-> IF i <= m THEN f[i] ELSE next[m + 1][f[m]]]
  <2>2. g \in [0..(m + 1) -> T]
    OBVIOUS
  <2>3. g[0] = b
    BY <2>1
  <2>4. ASSUME NEW k \in 1..(m + 1) PROVE g[k] = next[k][g[k - 1]]
    <3>1. k - 1 \in 0..m /\ g[k - 1] = f[k - 1]
      OBVIOUS
    <3>2. CASE k = m + 1
      <4>1. g[k] = next[m + 1][f[m]] /\ f[m] = f[k - 1]
        BY <3>2
      <4> QED BY <3>1, <3>2, <4>1
    <3>3. CASE k # m + 1
      <4>1. k \in 1..m /\ g[k] = f[k]
        BY <3>3
      <4>2. f[k] = next[k][f[k - 1]]
        BY <2>1, <4>1
      <4> QED BY <3>1, <4>1, <4>2
    <3> QED BY <3>2, <3>3
  <2>5. Is(g, m + 1)
    BY <2>3, <2>4
  <2> HIDE DEF g, Is
  <2> QED BY <2>2, <2>5
<1>3. \A k \in 0..n : k \in P
  <2>1. P \in SUBSET Nat
    OBVIOUS
  <2> HIDE DEF P
  <2> QED BY <1>1, <1>2, <2>1, Climb
<1> QED BY <1>3

\* f is the function of 0..n that b and next give.
Follows(f, T, b, n, next) ==
    f \in [0..n -> T] /\ f[0] = b /\ \A k \in 1..n : f[k] = next[k][f[k - 1]]

LEMMA Following ==
  ASSUME NEW T, NEW b \in T, NEW n \in Nat, NEW next \in [1..n -> [T -> T]]
  PROVE  \E f : Follows(f, T, b, n, next)
<1>1. PICK f \in [0..n -> T] : f[0] = b /\ \A k \in 1..n : f[k] = next[k][f[k - 1]]
  BY Recursion
<1>2. Follows(f, T, b, n, next)
  BY <1>1 DEF Follows
<1> QED BY <1>2

\* u builds what is kept of s, one element after the other.
KeptBy(u, T, s, kept) ==
    /\ u \in [0..Len(s) -> Seq(T)]
    /\ u[0] = <<>> /\ Kept(s, kept) = u[Len(s)]
    /\ \A i \in 1..Len(s) : u[i] = IF s[i] \in kept THEN Append(u[i - 1], s[i]) ELSE u[i - 1]

\* Kept is built so.
LEMMA KeptFunction ==
  ASSUME NEW T, NEW s \in Seq(T), NEW kept
  PROVE  \E u : KeptBy(u, T, s, kept)
<1> DEFINE As(u) == u = [i \in 0..Len(s) |->
                           IF i = 0 THEN <<>>
                           ELSE IF s[i] \in kept THEN Append(u[i - 1], s[i]) ELSE u[i - 1]]
           next == [i \in 1..Len(s) |-> [t \in Seq(T) |->
                      IF s[i] \in kept THEN Append(t, s[i]) ELSE t]]
           c == CHOOSE u : As(u)
<1>1. next \in [1..Len(s) -> [Seq(T) -> Seq(T)]]
  <2>1. ASSUME NEW i \in 1..Len(s), NEW t \in Seq(T) PROVE Append(t, s[i]) \in Seq(T)
    OBVIOUS
  <2> QED BY <2>1
<1>2. Len(s) \in Nat /\ <<>> \in Seq(T)
  OBVIOUS
<1>3. PICK f \in [0..Len(s) -> Seq(T)] :
        f[0] = <<>> /\ \A k \in 1..Len(s) : f[k] = next[k][f[k - 1]]
  <2> DEFINE U == Seq(T)
             b == <<>>
             n == Len(s)
  <2>1. next \in [1..n -> [U -> U]] /\ n \in Nat /\ b \in U
    BY <1>1, <1>2
  <2> HIDE DEF next, U, b, n
  <2>2. \E f \in [0..n -> U] : f[0] = b /\ \A k \in 1..n : f[k] = next[k][f[k - 1]]
    BY <2>1, Recursion
  <2> QED BY <2>2 DEF U, b, n
<1>4. \A k \in 1..Len(s) : f[k] = IF s[k] \in kept THEN Append(f[k - 1], s[k]) ELSE f[k - 1]
  <2> TAKE k \in 1..Len(s)
  <2>1. k - 1 \in 0..Len(s)
    OBVIOUS
  <2>2. f[k - 1] \in Seq(T)
    BY <2>1
  <2> DEFINE t == f[k - 1]
  <2>3. t \in Seq(T) /\ f[k] = next[k][t]
    BY <1>3, <2>2
  <2> HIDE DEF t
  <2>4. next[k][t] = IF s[k] \in kept THEN Append(t, s[k]) ELSE t
    BY <2>3
  <2> QED BY <2>3, <2>4 DEF t
<1>5. As(f)
  <2> DEFINE g == [i \in 0..Len(s) |->
                     IF i = 0 THEN <<>>
                     ELSE IF s[i] \in kept THEN Append(f[i - 1], s[i]) ELSE f[i - 1]]
  <2>1. \A i \in 0..Len(s) : f[i] = g[i]
    <3> TAKE i \in 0..Len(s)
    <3>1. g[i] = IF i = 0 THEN <<>>
                 ELSE IF s[i] \in kept THEN Append(f[i - 1], s[i]) ELSE f[i - 1]
      OBVIOUS
    <3>2. CASE i = 0
      BY <1>3, <3>1, <3>2
    <3>3. CASE i # 0
      <4>1. i \in 1..Len(s)
        BY <3>3
      <4>2. f[i] = IF s[i] \in kept THEN Append(f[i - 1], s[i]) ELSE f[i - 1]
        BY <1>4, <4>1
      <4> HIDE DEF g
      <4> QED BY <3>1, <3>3, <4>2
    <3> QED BY <3>2, <3>3
  <2>2. DOMAIN f = 0..Len(s) /\ DOMAIN g = 0..Len(s)
    OBVIOUS
  <2>3. f = [i \in 0..Len(s) |-> f[i]] /\ g = [i \in 0..Len(s) |-> g[i]]
    OBVIOUS
  <2> HIDE DEF g
  <2>4. f = g
    BY <2>1, <2>3
  <2> QED BY <2>4 DEF g
<1>6. As(c)
  <2> HIDE DEF As
  <2> QED BY <1>5
<1>7. Kept(s, kept) = c[Len(s)]
  BY DEF Kept
<1>8. c[0] = <<>> /\ \A i \in 1..Len(s) : c[i] = IF s[i] \in kept THEN Append(c[i - 1], s[i]) ELSE c[i - 1]
  <2> DEFINE g == [i \in 0..Len(s) |->
                     IF i = 0 THEN <<>>
                     ELSE IF s[i] \in kept THEN Append(c[i - 1], s[i]) ELSE c[i - 1]]
  <2> HIDE DEF c
  <2>1. c = g
    BY <1>6
  <2>2. \A i \in 0..Len(s) : g[i] = IF i = 0 THEN <<>>
                                     ELSE IF s[i] \in kept THEN Append(c[i - 1], s[i]) ELSE c[i - 1]
    OBVIOUS
  <2>3. 0 \in 0..Len(s) /\ 1..Len(s) \subseteq 0..Len(s) /\ \A i \in 1..Len(s) : i # 0
    OBVIOUS
  <2>4. c[0] = g[0] /\ \A i \in 1..Len(s) : c[i] = g[i]
    BY <2>1
  <2> HIDE DEF g
  <2> QED BY <2>2, <2>3, <2>4
<1>9. c \in [0..Len(s) -> Seq(T)]
  <2> HIDE DEF c, next
  <2>1. c = [i \in 0..Len(s) |-> c[i]]
    <3> DEFINE g == [i \in 0..Len(s) |->
                       IF i = 0 THEN <<>>
                       ELSE IF s[i] \in kept THEN Append(c[i - 1], s[i]) ELSE c[i - 1]]
    <3>1. c = g
      BY <1>6
    <3>2. g = [i \in 0..Len(s) |-> g[i]]
      OBVIOUS
    <3> HIDE DEF g
    <3> QED BY <3>1, <3>2
  <2> DEFINE P == {k \in Nat : c[k] \in Seq(T)}
  <2>2. 0 \in P
    BY <1>2, <1>8
  <2>3. ASSUME NEW k \in 0..(Len(s) - 1), k \in P PROVE k + 1 \in P
    <3>1. k + 1 \in 1..Len(s) /\ (k + 1) - 1 = k /\ c[k] \in Seq(T) /\ s[k + 1] \in T
      BY <2>3
    <3>2. c[k + 1] = IF s[k + 1] \in kept THEN Append(c[k], s[k + 1]) ELSE c[k]
      BY <1>8, <3>1
    <3>3. Append(c[k], s[k + 1]) \in Seq(T)
      BY <3>1, AppendProperties
    <3>4. c[k + 1] \in Seq(T)
      BY <3>1, <3>2, <3>3
    <3> QED BY <3>4
  <2>4. \A k \in 0..Len(s) : k \in P
    <3> HIDE DEF P
    <3>1. P \in SUBSET Nat
      BY DEF P
    <3> QED BY <1>2, <2>2, <2>3, <3>1, Climb
  <2> QED BY <2>1, <2>4
<1> HIDE DEF c
<1> QED BY <1>7, <1>8, <1>9 DEF KeptBy

\* m says where the elements of k lie in s: in the order of s, each that is kept.
LiesAs(m, k, s, kept) ==
    /\ \A i, j \in 1..Len(k) : i < j => m[i] < m[j]
    /\ \A i \in 1..Len(k) : k[i] = s[m[i]] /\ s[m[i]] \in kept

\* What is kept of a sequence lies in it in its order, and nothing kept is left out.
LEMMA KeptIs ==
  ASSUME NEW T, NEW s \in Seq(T), NEW kept
  PROVE  /\ Kept(s, kept) \in Seq(T)
         /\ Len(Kept(s, kept)) <= Len(s)
         /\ \E m \in [1..Len(Kept(s, kept)) -> 1..Len(s)] :
              /\ LiesAs(m, Kept(s, kept), s, kept)
              /\ \A j \in 1..Len(s) : s[j] \in kept => \E i \in 1..Len(Kept(s, kept)) : m[i] = j
<1>1. \E u : KeptBy(u, T, s, kept)
  BY KeptFunction
<1>0. PICK u \in [0..Len(s) -> Seq(T)] :
        /\ u[0] = <<>> /\ Kept(s, kept) = u[Len(s)]
        /\ \A i \in 1..Len(s) : u[i] = IF s[i] \in kept THEN Append(u[i - 1], s[i]) ELSE u[i - 1]
  BY <1>1 DEF KeptBy
<1> DEFINE Has(m, k, t) == /\ m \in [1..Len(t) -> 1..k]
                           /\ LiesAs(m, t, s, kept)
                           /\ \A j \in 1..k : s[j] \in kept => \E i \in 1..Len(t) : m[i] = j
           P == {k \in Nat : k <= Len(s) => Len(u[k]) <= k /\ \E m : Has(m, k, u[k])}
<1>2. Len(s) \in Nat /\ \A k \in 0..Len(s) : u[k] \in Seq(T) /\ Len(u[k]) \in Nat
  <2>1. ASSUME NEW k \in 0..Len(s) PROVE u[k] \in Seq(T) /\ Len(u[k]) \in Nat
    <3>1. u[k] \in Seq(T)
      OBVIOUS
    <3> QED BY <3>1, LenProperties
  <2> QED BY <2>1, LenProperties
<1>3. 0 \in P
  <2>1. Has(<<>>, 0, <<>>)
    BY DEF LiesAs
  <2>2. Len(u[0]) = 0
    BY <1>0
  <2> HIDE DEF Has
  <2> QED BY <1>0, <2>1, <2>2
<1>4. ASSUME NEW k \in 0..(Len(s) - 1), k \in P PROVE k + 1 \in P
  <2> DEFINE t == u[k]
             v == u[k + 1]
             n == Len(t)
  <2>1. /\ k \in Nat /\ k <= Len(s) /\ k + 1 <= Len(s) /\ k + 1 \in 1..Len(s) /\ k \in 0..Len(s)
        /\ (k + 1) - 1 = k /\ s[k + 1] \in T
    BY <1>2
  <2>2. t \in Seq(T) /\ n \in Nat /\ n <= k
    BY <1>2, <1>4, <2>1
  <2>3. v = IF s[k + 1] \in kept THEN Append(t, s[k + 1]) ELSE t
    BY <1>0, <2>1
  <2>4. PICK m : Has(m, k, t)
    BY <1>4, <2>1
  <2> HIDE DEF t, v
  <2>5. CASE s[k + 1] \notin kept
    <3>1. v = t
      BY <2>3, <2>5
    <3>2. Has(m, k + 1, t)
      <4>1. m \in [1..Len(t) -> 1..(k + 1)]
        BY <2>1, <2>2, <2>4
      <4>2. \A j \in 1..(k + 1) : s[j] \in kept => \E i \in 1..Len(t) : m[i] = j
        <5> SUFFICES ASSUME NEW j \in 1..(k + 1), s[j] \in kept PROVE \E i \in 1..Len(t) : m[i] = j
          OBVIOUS
        <5>1. j \in 1..k
          BY <2>1, <2>5
        <5> QED BY <2>4, <5>1
      <4> QED BY <2>4, <4>1, <4>2
    <3>3. \E x : Has(x, k + 1, v)
      <4> HIDE DEF Has
      <4> QED BY <3>1, <3>2
    <3> HIDE DEF Has
    <3> QED BY <2>1, <2>2, <3>1, <3>3 DEF v
  <2>6. CASE s[k + 1] \in kept
    <3> DEFINE x == [i \in 1..(n + 1) |-> IF i <= n THEN m[i] ELSE k + 1]
    <3>1. /\ v \in Seq(T) /\ Len(v) = n + 1 /\ v[n + 1] = s[k + 1]
          /\ \A i \in 1..n : v[i] = t[i]
      BY <2>1, <2>2, <2>3, <2>6, AppendProperties
    <3>2. m \in [1..n -> 1..k]
      BY <2>4
    <3>3. x \in [1..(n + 1) -> 1..(k + 1)]
      BY <2>1, <2>2, <3>2
    <3>4. x[n + 1] = k + 1 /\ \A i \in 1..n : x[i] = m[i] /\ m[i] \in 1..k
      <4> HIDE DEF n
      <4> QED BY <2>2, <3>2
    <3>5. \A i \in 1..(n + 1) : i \in 1..n \/ i = n + 1
      BY <2>2
    <3>6. LiesAs(x, v, s, kept)
      <4>1. \A i, j \in 1..n : i < j => m[i] < m[j]
        BY <2>4 DEF LiesAs
      <4>2. \A i \in 1..n : t[i] = s[m[i]] /\ s[m[i]] \in kept
        BY <2>4 DEF LiesAs
      <4> HIDE DEF x, n, Has
      <4>3. \A i, j \in 1..(n + 1) : i < j => x[i] < x[j]
        <5> TAKE i, j \in 1..(n + 1)
        <5>1. CASE j = n + 1 /\ i # n + 1
          <6>1. i \in 1..n
            BY <3>5, <5>1
          <6>2. x[i] \in 1..k /\ x[j] = k + 1
            BY <3>4, <5>1, <6>1
          <6> QED BY <2>1, <6>2
        <5>2. CASE j # n + 1 /\ i # n + 1
          BY <3>4, <3>5, <4>1, <5>2
        <5>3. CASE i = n + 1
          BY <2>2, <5>3
        <5> QED BY <5>1, <5>2, <5>3
      <4>4. \A i \in 1..(n + 1) : v[i] = s[x[i]] /\ s[x[i]] \in kept
        BY <2>6, <3>1, <3>4, <3>5, <4>2
      <4> QED BY <3>1, <4>3, <4>4 DEF LiesAs
    <3>7. \A j \in 1..(k + 1) : s[j] \in kept => \E i \in 1..(n + 1) : x[i] = j
      <4> SUFFICES ASSUME NEW j \in 1..(k + 1), s[j] \in kept PROVE \E i \in 1..(n + 1) : x[i] = j
        OBVIOUS
      <4>1. CASE j = k + 1
        <5>1. n + 1 \in 1..(n + 1)
          BY <2>2
        <5> HIDE DEF x, n
        <5> QED BY <3>4, <4>1, <5>1
      <4>2. CASE j # k + 1
        <5>1. PICK i \in 1..n : m[i] = j
          BY <2>1, <2>4, <4>2
        <5>2. i \in 1..(n + 1) /\ x[i] = j
          BY <2>2, <3>4, <5>1
        <5> HIDE DEF x, n
        <5> QED BY <5>2
      <4> QED BY <4>1, <4>2
    <3> HIDE DEF x, n
    <3>8. Has(x, k + 1, v)
      BY <3>1, <3>3, <3>6, <3>7
    <3>9. Len(v) <= k + 1
      BY <2>1, <2>2, <3>1
    <3> HIDE DEF Has
    <3>10. \E y : Has(y, k + 1, v)
      BY <3>8
    <3> QED BY <2>1, <3>9, <3>10 DEF v
  <2> QED BY <2>5, <2>6
<1>5. Len(s) \in P
  <2>1. P \in SUBSET Nat
    OBVIOUS
  <2>2. Len(s) \in 0..Len(s)
    BY <1>2
  <2> HIDE DEF P
  <2> QED BY <1>2, <1>3, <1>4, <2>1, <2>2, Climb
<1>6. PICK m : Has(m, Len(s), u[Len(s)])
  BY <1>2, <1>5
<1>7. Len(u[Len(s)]) <= Len(s) /\ u[Len(s)] \in Seq(T)
  BY <1>2, <1>5
<1> QED BY <1>0, <1>6, <1>7

\* Selecting from a sequence is intersecting its set of elements.
LEMMA KeptSet ==
  ASSUME NEW T, NEW s \in Seq(T), NEW kept
  PROVE  ToSet(Kept(s, kept)) = ToSet(s) \cap kept
<1> DEFINE k == Kept(s, kept)
<1>1. k \in Seq(T) /\ Len(k) \in Nat /\ Len(s) \in Nat
  BY KeptIs, LenProperties
<1>2. PICK m \in [1..Len(k) -> 1..Len(s)] :
        /\ LiesAs(m, k, s, kept)
        /\ \A j \in 1..Len(s) : s[j] \in kept => \E i \in 1..Len(k) : m[i] = j
  BY KeptIs
<1> HIDE DEF k
<1>3. ToSet(k) = {k[i] : i \in 1..Len(k)} /\ ToSet(s) = {s[i] : i \in 1..Len(s)}
  BY <1>1 DEF ToSet
<1>4. \A i \in 1..Len(k) : m[i] \in 1..Len(s) /\ k[i] = s[m[i]] /\ s[m[i]] \in kept
  BY <1>2 DEF LiesAs
<1>5. ASSUME NEW e \in ToSet(s), e \in kept PROVE e \in ToSet(k)
  <2>1. PICK j \in 1..Len(s) : s[j] = e
    BY <1>3
  <2>2. PICK i \in 1..Len(k) : m[i] = j
    BY <1>2, <1>5, <2>1
  <2> QED BY <1>3, <1>4, <2>1, <2>2
<1>6. ToSet(k) \subseteq ToSet(s) \cap kept
  BY <1>3, <1>4
<1> QED BY <1>5, <1>6 DEF k

\* Events by timestamp.
Sorted(s) == \A i, j \in DOMAIN s : i <= j => s[i].ts <= s[j].ts

Apart(s) == \A i, j \in DOMAIN s : i # j => s[i] # s[j]

\* ... and is by timestamp, and without doubles, when the sequence is.
LEMMA KeptOrder ==
  ASSUME NEW T, NEW s \in Seq(T), NEW kept
  PROVE  /\ Sorted(s) => Sorted(Kept(s, kept))
         /\ Apart(s) => Apart(Kept(s, kept))
<1> DEFINE k == Kept(s, kept)
<1>1. k \in Seq(T) /\ Len(k) \in Nat /\ Len(s) \in Nat
  BY KeptIs, LenProperties
<1>2. PICK m \in [1..Len(k) -> 1..Len(s)] : LiesAs(m, k, s, kept)
  BY KeptIs
<1> HIDE DEF k
<1>3. DOMAIN k = 1..Len(k) /\ DOMAIN s = 1..Len(s)
  BY <1>1
<1>4. \A i \in 1..Len(k) : m[i] \in 1..Len(s) /\ m[i] \in Nat /\ k[i] = s[m[i]]
  BY <1>2 DEF LiesAs
<1>5. \A i, j \in 1..Len(k) : i < j => m[i] < m[j]
  BY <1>2 DEF LiesAs
<1>6. \A i, j \in 1..Len(k) : (i <= j => m[i] <= m[j]) /\ (i # j => m[i] # m[j])
  <2> TAKE i, j \in 1..Len(k)
  <2>1. i = j \/ i < j \/ j < i
    BY <1>1
  <2>2. m[i] \in Nat /\ m[j] \in Nat
    BY <1>4
  <2> QED BY <1>5, <2>1, <2>2
<1>7. Sorted(s) => Sorted(k)
  BY <1>3, <1>4, <1>6 DEF Sorted
<1>8. Apart(s) => Apart(k)
  BY <1>3, <1>4, <1>6 DEF Apart
<1> QED BY <1>7, <1>8 DEF k

\* The elements of a sequence and its places.
LEMMA InSet ==
  ASSUME NEW T, NEW s \in Seq(T)
  PROVE  /\ Len(s) \in Nat /\ DOMAIN s = 1..Len(s)
         /\ ToSet(s) \subseteq T
         /\ \A i \in 1..Len(s) : s[i] \in ToSet(s) /\ s[i] \in T
         /\ \A e \in ToSet(s) : \E i \in 1..Len(s) : s[i] = e
         /\ s # <<>> <=> Len(s) > 0
         /\ s = <<>> <=> ToSet(s) = {}
<1>1. Len(s) \in Nat /\ DOMAIN s = 1..Len(s) /\ ToSet(s) = {s[i] : i \in 1..Len(s)}
  BY LenProperties DEF ToSet
<1>2. \A i \in 1..Len(s) : s[i] \in T
  BY ElementOfSeq
<1>3. s = <<>> <=> Len(s) = 0
  BY EmptySeq
<1>4. s = <<>> <=> ToSet(s) = {}
  <2>1. Len(s) = 0 => ToSet(s) = {}
    BY <1>1
  <2>2. Len(s) # 0 => 1 \in 1..Len(s)
    BY <1>1
  <2>3. Len(s) # 0 => s[1] \in ToSet(s)
    BY <1>1, <2>2
  <2> QED BY <1>3, <2>1, <2>3
<1> QED BY <1>1, <1>2, <1>3, <1>4

\* Joining sequences joins their sets of elements.
LEMMA JoinSet ==
  ASSUME NEW T, NEW s \in Seq(T), NEW r \in Seq(T)
  PROVE  s \o r \in Seq(T) /\ ToSet(s \o r) = ToSet(s) \cup ToSet(r)
<1> DEFINE c == s \o r
<1>1. /\ c \in Seq(T) /\ Len(c) = Len(s) + Len(r)
      /\ \A i \in 1..(Len(s) + Len(r)) : c[i] = IF i <= Len(s) THEN s[i] ELSE r[i - Len(s)]
  BY ConcatProperties
<1>2. /\ Len(s) \in Nat /\ Len(r) \in Nat
      /\ ToSet(s) = {s[i] : i \in 1..Len(s)} /\ ToSet(r) = {r[i] : i \in 1..Len(r)}
      /\ ToSet(c) = {c[i] : i \in 1..Len(c)}
  BY <1>1, LenProperties DEF ToSet
<1> HIDE DEF c
<1>3. ASSUME NEW i \in 1..Len(s) PROVE s[i] \in ToSet(c)
  <2>1. i \in 1..Len(c) /\ c[i] = s[i]
    BY <1>1, <1>2
  <2> QED BY <1>2, <2>1
<1>4. ASSUME NEW i \in 1..Len(r) PROVE r[i] \in ToSet(c)
  <2>1. Len(s) + i \in 1..Len(c) /\ ~(Len(s) + i <= Len(s)) /\ (Len(s) + i) - Len(s) = i
    BY <1>1, <1>2
  <2>2. c[Len(s) + i] = r[i]
    BY <1>1, <2>1
  <2> QED BY <1>2, <2>1, <2>2
<1>5. ASSUME NEW i \in 1..Len(c) PROVE c[i] \in ToSet(s) \cup ToSet(r)
  <2>1. CASE i <= Len(s)
    BY <1>1, <1>2, <2>1
  <2>2. CASE ~(i <= Len(s))
    <3>1. i - Len(s) \in 1..Len(r) /\ c[i] = r[i - Len(s)]
      BY <1>1, <1>2, <2>2
    <3> QED BY <1>2, <3>1
  <2> QED BY <2>1, <2>2
<1>6. ToSet(c) = ToSet(s) \cup ToSet(r)
  BY <1>2, <1>3, <1>4, <1>5
<1> QED BY <1>1, <1>6 DEF c

LEMMA FiniteElements ==
  ASSUME NEW T, NEW s \in Seq(T)
  PROVE  IsFiniteSet(ToSet(s)) /\ Cardinality(ToSet(s)) \in Nat /\ Cardinality(ToSet(s)) <= Len(s)
<1>1. Len(s) \in Nat /\ s \in [1..Len(s) -> ToSet(s)] /\ \A e \in ToSet(s) : \E i \in 1..Len(s) : s[i] = e
  <2>1. s = [i \in 1..Len(s) |-> s[i]]
    BY LenProperties
  <2>2. \A i \in 1..Len(s) : s[i] \in ToSet(s)
    BY InSet
  <2> QED BY <2>1, <2>2, InSet
<1>2. s \in Surjection(1..Len(s), ToSet(s))
  BY <1>1 DEF Surjection
<1>3. IsFiniteSet(1..Len(s)) /\ Cardinality(1..Len(s)) = Len(s)
  <2> DEFINE n == Len(s)
  <2>1. n \in Nat
    BY <1>1
  <2> HIDE DEF n
  <2>2. IsFiniteSet(1..n) /\ Cardinality(1..n) = IF 1 > n THEN 0 ELSE n - 1 + 1
    BY <2>1, FS_Interval
  <2>3. Cardinality(1..n) = n
    BY <2>1, <2>2
  <2> QED BY <2>2, <2>3 DEF n
<1>4. IsFiniteSet(ToSet(s)) /\ Cardinality(ToSet(s)) <= Cardinality(1..Len(s))
  BY <1>2, <1>3, FS_Surjection
<1> QED BY <1>3, <1>4, FS_CardinalityType

-----------------------------------------------------------------------------
(* What a read of the table and the cut of a batch leave out: of every     *)
(* timestamp but the last, all the events are read, and the last is cut    *)
(* off, or is the only one; then the events left out are too many for a    *)
(* batch (Crowded).                                                        *)

LEMMA EventTyped ==
  ASSUME NEW e \in Event
  PROVE  e.ts \in Nat /\ e.n \in Nat /\ e.ts > 0
  BY ReindexAssumption DEF Event, Transactions

\* The first of the events by timestamp is the oldest, the last the newest.
LEMMA Ends ==
  ASSUME NEW s \in Seq(Event), s # <<>>, Sorted(s)
  PROVE  /\ s[1] \in ToSet(s) /\ s[Len(s)] \in ToSet(s) /\ Newest(s) = s[Len(s)].ts
         /\ Newest(s) \in Nat /\ s[1].ts \in Nat
         /\ \A e \in ToSet(s) : s[1].ts <= e.ts /\ e.ts <= Newest(s)
<1>1. Len(s) \in Nat /\ Len(s) > 0 /\ DOMAIN s = 1..Len(s) /\ ToSet(s) \subseteq Event
  BY InSet
<1>2. 1 \in 1..Len(s) /\ Len(s) \in 1..Len(s)
  BY <1>1
<1>3. s[1] \in ToSet(s) /\ s[Len(s)] \in ToSet(s) /\ s[1] \in Event /\ s[Len(s)] \in Event
  BY <1>2, InSet
<1>4. ASSUME NEW e \in ToSet(s) PROVE s[1].ts <= e.ts /\ e.ts <= s[Len(s)].ts
  <2>1. PICK i \in 1..Len(s) : s[i] = e
    BY InSet
  <2>2. 1 <= i /\ i <= Len(s)
    BY <1>1
  <2> QED BY <1>1, <1>2, <2>1, <2>2 DEF Sorted
<1> QED BY <1>3, <1>4, EventTyped DEF Newest

\* What the cut of the newest timestamp leaves of a batch.
LEMMA WholeIs ==
  ASSUME NEW b \in Seq(Event), b # <<>>, Sorted(b)
  PROVE  /\ Whole(b) \in Seq(Event) /\ Whole(b) # <<>> /\ Sorted(Whole(b))
         /\ ToSet(Whole(b)) \subseteq ToSet(b)
         /\ \A e \in ToSet(b) : e.ts <= Newest(Whole(b)) => e \in ToSet(Whole(b))
         /\ \/ Newest(Whole(b)) < Newest(b)
            \/ Newest(Whole(b)) = Newest(b) /\ \A e \in ToSet(b) : e.ts = Newest(b)
<1>1. CASE Newest(b) = b[1].ts
  <2>1. Whole(b) = b
    BY <1>1 DEF Whole
  <2>2. \A e \in ToSet(b) : e.ts = Newest(b)
    <3> TAKE e \in ToSet(b)
    <3>1. e \in Event
      BY InSet
    <3>2. b[1].ts <= e.ts /\ e.ts <= Newest(b) /\ e.ts \in Nat /\ Newest(b) \in Nat
      BY <3>1, Ends, EventTyped
    <3> QED BY <1>1, <3>2
  <2> QED BY <2>1, <2>2
<1>2. CASE Newest(b) # b[1].ts
  <2> DEFINE kept == {e \in ToSet(b) : e.ts # Newest(b)}
             w == Kept(b, kept)
  <2>1. Whole(b) = w
    BY <1>2 DEF Whole
  <2>2. w \in Seq(Event) /\ Sorted(w) /\ ToSet(w) = ToSet(b) \cap kept
    BY KeptIs, KeptOrder, KeptSet
  <2>3. b[1] \in kept
    BY <1>2, Ends
  <2> HIDE DEF w
  <2>4. w # <<>>
    BY <2>2, <2>3, Ends, InSet
  <2>5. ASSUME NEW e \in ToSet(w) PROVE e \in ToSet(b) /\ e.ts < Newest(b)
    <3>1. e \in ToSet(b) /\ e.ts # Newest(b) /\ e \in Event
      BY <2>2, InSet
    <3>2. e.ts <= Newest(b) /\ e.ts \in Nat /\ Newest(b) \in Nat
      BY <3>1, Ends, EventTyped
    <3> QED BY <3>1, <3>2
  <2>6. Newest(w) < Newest(b)
    BY <2>2, <2>4, <2>5, Ends
  <2>7. ASSUME NEW e \in ToSet(b), e.ts <= Newest(w) PROVE e \in ToSet(w)
    <3>1. e \in Event /\ e.ts \in Nat /\ Newest(w) \in Nat /\ Newest(b) \in Nat
      BY <2>2, <2>4, InSet, EventTyped, Ends
    <3>2. e.ts # Newest(b)
      BY <2>6, <2>7, <3>1
    <3> QED BY <2>2, <3>2
  <2>8. ToSet(w) \subseteq ToSet(b)
    BY <2>5
  <2> HIDE DEF kept
  <2>9. /\ w \in Seq(Event) /\ w # <<>> /\ Sorted(w) /\ ToSet(w) \subseteq ToSet(b)
        /\ \A e \in ToSet(b) : e.ts <= Newest(w) => e \in ToSet(w)
        /\ Newest(w) < Newest(b)
    BY <2>2, <2>4, <2>6, <2>7, <2>8
  <2> QED BY <2>1, <2>9
<1> QED BY <1>1, <1>2

\* ... and what beforeTimestamp leaves of it.
LEMMA OlderIs ==
  ASSUME NEW b \in Seq(Event), Sorted(b)
  PROVE  /\ OlderOf(b) \in Seq(Event) /\ Sorted(OlderOf(b))
         /\ \A e : e \in ToSet(OlderOf(b)) <=> e \in ToSet(b) /\ e.ts < before
<1> DEFINE kept == {e \in ToSet(b) : e.ts < before}
<1>1. OlderOf(b) = Kept(b, kept)
  BY DEF OlderOf
<1>2. Kept(b, kept) \in Seq(Event) /\ Sorted(Kept(b, kept)) /\ ToSet(Kept(b, kept)) = ToSet(b) \cap kept
  BY KeptIs, KeptOrder, KeptSet
<1> QED BY <1>1, <1>2

\* A timestamp that a batch does not leave out for the next one, or for good
\* (before), is in it with all the events the batch had of it.
LEMMA SlicedIs ==
  ASSUME NEW b \in Seq(Event), b # <<>>, Sorted(b), before \in Nat
  PROVE  LET s == Sliced(b)
         IN  /\ s.batch \in Seq(Event) /\ Sorted(s.batch) /\ ToSet(s.batch) \subseteq ToSet(b)
             /\ s.after \in Nat
             /\ \A e \in ToSet(s.batch) : e.ts <= s.after
             /\ \/ before # None /\ s.after = before
                \/ \E e \in ToSet(b) : s.after = e.ts
             /\ \A e \in ToSet(b) :
                  e.ts <= s.after /\ (before # None => e.ts < before) => e \in ToSet(s.batch)
             /\ \/ s.after < Newest(b)
                \/ s.after <= Newest(b) /\ \A e \in ToSet(b) : e.ts = Newest(b)
<1> DEFINE w == Whole(b)
<1>1. /\ w \in Seq(Event) /\ w # <<>> /\ Sorted(w) /\ ToSet(w) \subseteq ToSet(b)
      /\ \A e \in ToSet(b) : e.ts <= Newest(w) => e \in ToSet(w)
      /\ \/ Newest(w) < Newest(b)
         \/ Newest(w) = Newest(b) /\ \A e \in ToSet(b) : e.ts = Newest(b)
  BY WholeIs
<1>2. Newest(b) \in Nat
  BY Ends
<1>3. Sliced(b) = IF before # None /\ Newest(w) > before
                  THEN [batch |-> OlderOf(w), after |-> before]
                  ELSE [batch |-> w, after |-> Newest(w)]
  BY DEF Sliced
<1> HIDE DEF w
<1>4. /\ Newest(w) \in Nat /\ w[Len(w)] \in ToSet(w) /\ Newest(w) = w[Len(w)].ts
      /\ \A e \in ToSet(w) : e.ts <= Newest(w)
  BY <1>1, Ends
<1>5. \A e \in ToSet(b) : e.ts \in Nat
  BY InSet, EventTyped
<1>6. CASE before # None /\ Newest(w) > before
  <2> DEFINE o == OlderOf(w)
  <2>1. Sliced(b).batch = o /\ Sliced(b).after = before
    BY <1>3, <1>6
  <2>2. o \in Seq(Event) /\ Sorted(o) /\ \A e : e \in ToSet(o) <=> e \in ToSet(w) /\ e.ts < before
    BY <1>1, OlderIs
  <2> HIDE DEF o
  <2>3. \A e \in ToSet(o) : e.ts <= before
    BY <1>1, <1>5, <2>2
  <2>4. \A e \in ToSet(b) : e.ts < before => e \in ToSet(o)
    <3> SUFFICES ASSUME NEW e \in ToSet(b), e.ts < before PROVE e \in ToSet(o)
      OBVIOUS
    <3>1. e.ts <= Newest(w)
      BY <1>4, <1>5, <1>6
    <3> QED BY <1>1, <2>2, <3>1
  <2>5. \/ before < Newest(b)
        \/ before <= Newest(b) /\ \A e \in ToSet(b) : e.ts = Newest(b)
    BY <1>1, <1>2, <1>4, <1>6
  <2>6. ToSet(o) \subseteq ToSet(b)
    BY <1>1, <2>2
  <2> QED BY <1>6, <2>1, <2>2, <2>3, <2>4, <2>5, <2>6
<1>7. CASE ~(before # None /\ Newest(w) > before)
  <2>1. Sliced(b).batch = w /\ Sliced(b).after = Newest(w)
    BY <1>3, <1>7
  <2>2. \E e \in ToSet(b) : Newest(w) = e.ts
    BY <1>1, <1>4
  <2>3. \/ Newest(w) < Newest(b)
        \/ Newest(w) <= Newest(b) /\ \A e \in ToSet(b) : e.ts = Newest(b)
    BY <1>1, <1>2, <1>4
  <2> QED BY <1>1, <1>4, <2>1, <2>2, <2>3
<1> QED BY <1>6, <1>7

-----------------------------------------------------------------------------
(* The tables: what the indexer adds leaves a table by timestamp, each     *)
(* transaction at one timestamp, each result with the transaction the user *)
(* sent.                                                                   *)

\* What the indexer may have written: events by timestamp, each with its own id;
\* a transaction is one timestamp, and a result of one that the user sent.
GoodTable(t) ==
    /\ t \in Seq(Event) /\ Len(t) <= Stored + Added
    /\ Sorted(t)
    /\ \A i \in DOMAIN t : t[i].n \in 1..Len(t)
    /\ \A i, j \in DOMAIN t : t[i].n = t[j].n => i = j
    /\ \E k \in 0..Len(t) : Txs(t) = 1..k
    /\ \A e, f \in ToSet(t) : e.tx = f.tx => e.ts = f.ts /\ e.orig = f.orig
    /\ \A e \in ToSet(t) : e.orig # None => \E f \in ToSet(t) : f.tx = e.orig /\ f.orig = None
    /\ \A e \in ToSet(t) : e.kind # "other" => e.a \in Auctions

\* Where the next event of t belongs.
Known(t, e) == \E g \in ToSet(t) : e.ts = g.ts /\ e.tx = g.tx /\ e.orig = g.orig
Fresh(t, e) ==
    /\ e.tx = Cardinality(Txs(t)) + 1
    /\ e.orig = None \/ \E g \in ToSet(t) : g.tx = e.orig /\ g.orig = None

LEMMA HappeningIs ==
  ASSUME NEW t, NEW ts, NEW h \in Happenings(t, ts)
  PROVE  /\ h.kind \in {"start", "over", "other"} /\ h.a \in Auctions \cup {None}
         /\ h.kind # "other" => h.a \in Auctions
  BY DEF Happenings

\* What the next event of a table may be.
LEMMA NewEventIs ==
  ASSUME NEW t, NEW e \in NewEvents(t)
  PROVE  /\ e = [n |-> e.n, ts |-> e.ts, tx |-> e.tx, orig |-> e.orig, ord |-> e.ord,
                 kind |-> e.kind, a |-> e.a]
         /\ e.n = Len(t) + 1 /\ e.ord = Len(OfTx(t, e.tx))
         /\ e.kind \in {"start", "over", "other"} /\ e.a \in Auctions \cup {None}
         /\ e.kind # "other" => e.a \in Auctions
         /\ Known(t, e) \/ (e.ts \in 1..MaxTime /\ Fresh(t, e))
<1> DEFINE New(ts, x, o, h) == [n |-> Len(t) + 1, ts |-> ts, tx |-> x, orig |-> o,
                                ord |-> Len(OfTx(t, x)), kind |-> h.kind, a |-> h.a]
           A == UNION {{New(g.ts, g.tx, g.orig, h) : h \in Happenings(t, g.ts)} : g \in ToSet(t)}
           Os(ts) == {None} \cup {g.tx : g \in {f \in ToSet(t) : f.orig = None /\ f.ts <= ts}}
           B == UNION {{New(ts, Cardinality(Txs(t)) + 1, o, h) :
                          o \in Os(ts), h \in Happenings(t, ts)} : ts \in 1..MaxTime}
<1>1. NewEvents(t) = A \cup B
  BY DEF NewEvents
<1>2. CASE e \in A
  <2>1. PICK g \in ToSet(t) : e \in {New(g.ts, g.tx, g.orig, h) : h \in Happenings(t, g.ts)}
    BY <1>2
  <2>2. PICK h \in Happenings(t, g.ts) : e = New(g.ts, g.tx, g.orig, h)
    BY <2>1
  <2>3. Known(t, e)
    BY <2>2 DEF Known
  <2>4. /\ h.kind \in {"start", "over", "other"} /\ h.a \in Auctions \cup {None}
        /\ h.kind # "other" => h.a \in Auctions
    BY HappeningIs
  <2>5. e.kind = h.kind /\ e.a = h.a /\ e.n = Len(t) + 1 /\ e.ord = Len(OfTx(t, e.tx))
    BY <2>2
  <2> QED BY <2>2, <2>3, <2>4, <2>5
<1>3. CASE e \in B
  <2>1. PICK ts \in 1..MaxTime : e \in {New(ts, Cardinality(Txs(t)) + 1, o, h) :
                                           o \in Os(ts), h \in Happenings(t, ts)}
    BY <1>3
  <2>2. PICK o \in Os(ts), h \in Happenings(t, ts) : e = New(ts, Cardinality(Txs(t)) + 1, o, h)
    BY <2>1
  <2>3. Fresh(t, e)
    <3>1. e.tx = Cardinality(Txs(t)) + 1 /\ e.orig = o
      BY <2>2
    <3>2. o = None \/ \E g \in ToSet(t) : g.tx = o /\ g.orig = None
      OBVIOUS
    <3> QED BY <3>1, <3>2 DEF Fresh
  <2>4. /\ h.kind \in {"start", "over", "other"} /\ h.a \in Auctions \cup {None}
        /\ h.kind # "other" => h.a \in Auctions
    BY HappeningIs
  <2>5. /\ e.kind = h.kind /\ e.a = h.a /\ e.n = Len(t) + 1 /\ e.ord = Len(OfTx(t, e.tx))
        /\ e.ts = ts
    BY <2>2
  <2> QED BY <2>2, <2>3, <2>4, <2>5
<1> HIDE DEF A, B
<1> QED BY <1>1, <1>2, <1>3

\* t with e after its first k events.
Grown(t, k, e, r) ==
    /\ Len(r) = Len(t) + 1
    /\ \A i \in 1..k : r[i] = t[i]
    /\ r[k + 1] = e
    /\ \A i \in (k + 2)..(Len(t) + 1) : r[i] = t[i - 1]

\* A table grows by an event after its first k ...
LEMMA PutGrows ==
  ASSUME NEW T, NEW t \in Seq(T), NEW k \in 0..Len(t), NEW e \in T
  PROVE  PutAfter(t, k, e) \in Seq(T) /\ Grown(t, k, e, PutAfter(t, k, e))
<1> DEFINE n == Len(t)
           x == SubSeq(t, 1, k)
           y == SubSeq(t, k + 1, n)
           z == x \o <<e>>
<1>1. n \in Nat /\ k \in Nat /\ k <= n /\ k \in Int /\ n \in Int /\ k + 1 \in Int /\ 1 \in Int
  BY InSet
<1>2. \A i \in 1..n : t[i] \in T
  BY InSet
<1>3. x \in Seq(T) /\ Len(x) = k /\ \A i \in 1..k : x[i] = t[i]
  <2>1. \A i \in 1..k : t[i] \in T
    BY <1>1, <1>2
  <2>2. /\ x \in Seq(T) /\ Len(x) = IF 1 <= k THEN k - 1 + 1 ELSE 0
        /\ \A i \in 1..(k - 1 + 1) : x[i] = t[1 + i - 1]
    BY <1>1, <2>1, SubSeqProperties
  <2> QED BY <1>1, <2>2
<1>4. y \in Seq(T) /\ Len(y) = n - k /\ \A i \in 1..(n - k) : y[i] = t[k + i]
  <2>1. \A i \in (k + 1)..n : t[i] \in T
    BY <1>1, <1>2
  <2>2. /\ y \in Seq(T) /\ Len(y) = IF k + 1 <= n THEN n - (k + 1) + 1 ELSE 0
        /\ \A i \in 1..(n - (k + 1) + 1) : y[i] = t[(k + 1) + i - 1]
    BY <1>1, <2>1, SubSeqProperties
  <2> HIDE DEF n, y
  <2> QED BY <1>1, <2>2
<1>5. <<e>> \in Seq(T) /\ Len(<<e>>) = 1 /\ <<e>>[1] = e
  OBVIOUS
<1> HIDE DEF n, x, y
<1>6. /\ z \in Seq(T) /\ Len(z) = k + 1 /\ z[k + 1] = e
      /\ \A i \in 1..k : z[i] = t[i]
  <2>1. /\ z \in Seq(T) /\ Len(z) = k + 1
        /\ \A i \in 1..(k + 1) : z[i] = IF i <= k THEN x[i] ELSE <<e>>[i - k]
    BY <1>3, <1>5, ConcatProperties
  <2> HIDE DEF z
  <2>2. \A i \in 1..k : i \in 1..(k + 1) /\ i <= k
    BY <1>1
  <2>3. k + 1 \in 1..(k + 1) /\ ~(k + 1 <= k) /\ (k + 1) - k = 1
    BY <1>1
  <2>4. z[k + 1] = <<e>>[1]
    BY <2>1, <2>3
  <2> QED BY <1>3, <1>5, <2>1, <2>2, <2>4
<1> DEFINE r == PutAfter(t, k, e)
<1>7. r = z \o y
  BY DEF PutAfter, x, y, n
<1> HIDE DEF z, r
<1>8. /\ r \in Seq(T) /\ Len(r) = n + 1
      /\ \A i \in 1..(n + 1) : r[i] = IF i <= k + 1 THEN z[i] ELSE y[i - (k + 1)]
  <2>1. /\ r \in Seq(T) /\ Len(r) = (k + 1) + (n - k)
        /\ \A i \in 1..((k + 1) + (n - k)) : r[i] = IF i <= k + 1 THEN z[i] ELSE y[i - (k + 1)]
    <3>1. z \in Seq(T) /\ y \in Seq(T) /\ Len(z) = k + 1 /\ Len(y) = n - k
      BY <1>4, <1>6
    <3>2. /\ z \o y \in Seq(T) /\ Len(z \o y) = Len(z) + Len(y)
          /\ \A i \in 1..(Len(z) + Len(y)) : (z \o y)[i] = IF i <= Len(z) THEN z[i] ELSE y[i - Len(z)]
      BY <3>1, ConcatProperties
    <3>3. /\ r \in Seq(T) /\ Len(r) = Len(z) + Len(y)
          /\ \A i \in 1..(Len(z) + Len(y)) : r[i] = IF i <= Len(z) THEN z[i] ELSE y[i - Len(z)]
      BY <1>7, <3>2
    <3> QED BY <3>1, <3>3
  <2>2. (k + 1) + (n - k) = n + 1
    BY <1>1
  <2> QED BY <2>1, <2>2
<1>9. \A i \in 1..k : r[i] = t[i]
  BY <1>1, <1>6, <1>8
<1>10. r[k + 1] = e
  BY <1>1, <1>6, <1>8
<1>11. ASSUME NEW i \in (k + 2)..(n + 1) PROVE r[i] = t[i - 1]
  <2>1. i \in 1..(n + 1) /\ ~(i <= k + 1) /\ i - (k + 1) \in 1..(n - k) /\ k + (i - (k + 1)) = i - 1
    BY <1>1
  <2>2. r[i] = y[i - (k + 1)]
    BY <1>8, <2>1
  <2>3. y[i - (k + 1)] = t[k + (i - (k + 1))]
    BY <1>4, <2>1
  <2> QED BY <2>1, <2>2, <2>3
<1> QED BY <1>8, <1>9, <1>10, <1>11 DEF Grown, n, r

\* ... or at its end.
LEMMA AppendGrows ==
  ASSUME NEW T, NEW t \in Seq(T), NEW e \in T
  PROVE  Append(t, e) \in Seq(T) /\ Grown(t, Len(t), e, Append(t, e))
<1>1. Len(t) \in Nat
  BY LenProperties
<1>2. /\ Append(t, e) \in Seq(T) /\ Len(Append(t, e)) = Len(t) + 1
      /\ \A i \in 1..Len(t) : Append(t, e)[i] = t[i]
      /\ Append(t, e)[Len(t) + 1] = e
  BY AppendProperties
<1> QED BY <1>1, <1>2 DEF Grown

LEMMA GrownSet ==
  ASSUME NEW T, NEW t \in Seq(T), NEW e \in T, NEW k \in 0..Len(t), NEW r \in Seq(T), Grown(t, k, e, r)
  PROVE  /\ ToSet(r) = ToSet(t) \cup {e}
         /\ \A i \in 1..Len(r) : \/ i <= k /\ i \in 1..Len(t) /\ r[i] = t[i]
                                 \/ i = k + 1 /\ r[i] = e
                                 \/ i > k + 1 /\ i - 1 \in 1..Len(t) /\ r[i] = t[i - 1]
<1>1. Len(t) \in Nat /\ k \in Nat /\ k <= Len(t) /\ Len(r) = Len(t) + 1
  BY InSet DEF Grown
<1>2. ToSet(t) = {t[i] : i \in 1..Len(t)} /\ ToSet(r) = {r[i] : i \in 1..Len(r)}
  BY InSet DEF ToSet
<1>3. /\ \A i \in 1..k : r[i] = t[i]
      /\ r[k + 1] = e
      /\ \A i \in (k + 2)..(Len(t) + 1) : r[i] = t[i - 1]
  BY DEF Grown
<1> DEFINE n == Len(t)
<1> HIDE DEF n
<1>4. ASSUME NEW i \in 1..(n + 1)
      PROVE  \/ i <= k /\ i \in 1..n /\ r[i] = t[i]
             \/ i = k + 1 /\ r[i] = e
             \/ i > k + 1 /\ i - 1 \in 1..n /\ r[i] = t[i - 1]
  <2>0. n \in Nat /\ k <= n
    BY <1>1 DEF n
  <2>1. CASE i <= k
    <3>1. i \in 1..k /\ i \in 1..n
      BY <1>1, <2>0, <2>1
    <3> QED BY <1>3, <2>1, <3>1
  <2>2. CASE i = k + 1
    BY <1>3, <2>2
  <2>3. CASE i > k + 1
    <3>1. i \in (k + 2)..(n + 1) /\ i - 1 \in 1..n
      BY <1>1, <2>0, <2>3
    <3>2. r[i] = t[i - 1]
      BY <1>3, <3>1 DEF n
    <3> QED BY <2>3, <3>1, <3>2
  <2> QED BY <1>1, <2>0, <2>1, <2>2, <2>3
<1>5. \A i \in 1..Len(r) : r[i] \in ToSet(t) \cup {e}
  <2> TAKE i \in 1..Len(r)
  <2>1. i \in 1..(n + 1)
    BY <1>1 DEF n
  <2>2. (\E j \in 1..n : r[i] = t[j]) \/ r[i] = e
    BY <1>4, <2>1
  <2> QED BY <1>2, <2>2 DEF n
<1>6. e \in ToSet(r)
  <2>1. k + 1 \in 1..Len(r)
    BY <1>1
  <2> QED BY <1>2, <1>3, <2>1
<1>7. ASSUME NEW j \in 1..Len(t) PROVE t[j] \in ToSet(r)
  <2>1. CASE j <= k
    <3>1. j \in 1..k /\ j \in 1..Len(r)
      BY <1>1, <2>1
    <3> QED BY <1>2, <1>3, <3>1
  <2>2. CASE j > k
    <3>1. j + 1 \in (k + 2)..(Len(t) + 1) /\ j + 1 \in 1..Len(r) /\ (j + 1) - 1 = j
      BY <1>1, <2>2
    <3>2. r[j + 1] = t[(j + 1) - 1]
      BY <1>3, <3>1
    <3> QED BY <1>2, <3>1, <3>2
  <2> QED BY <1>1, <2>1, <2>2
<1>8. ToSet(r) = ToSet(t) \cup {e}
  BY <1>2, <1>5, <1>6, <1>7
<1> QED BY <1>1, <1>4, <1>8 DEF n

\* A new transaction is not the transaction of an event of the table.
LEMMA FreshTx ==
  ASSUME NEW t, GoodTable(t), NEW e, Fresh(t, e)
  PROVE  /\ \A g \in ToSet(t) : g.tx # e.tx
         /\ \A g \in ToSet(t) : g.orig # e.tx
         /\ \E k \in 0..Len(t) : Txs(t) = 1..k /\ e.tx = k + 1
<1>1. PICK k \in 0..Len(t) : Txs(t) = 1..k
  BY DEF GoodTable
<1>2. t \in Seq(Event) /\ Len(t) \in Nat
  BY InSet DEF GoodTable
<1>3. Cardinality(1..k) = k
  <2>1. Cardinality(1..k) = IF 1 > k THEN 0 ELSE k - 1 + 1
    BY <1>2, FS_Interval
  <2> QED BY <1>2, <2>1
<1>4. e.tx = k + 1
  BY <1>1, <1>3 DEF Fresh
<1>5. \A g \in ToSet(t) : g.tx \in 1..k
  <2> TAKE g \in ToSet(t)
  <2>1. PICK i \in 1..Len(t) : t[i] = g
    BY <1>2, InSet
  <2>2. i \in DOMAIN t
    BY <1>2, InSet
  <2> QED BY <1>1, <2>1, <2>2 DEF Txs
<1>6. ASSUME NEW g \in ToSet(t) PROVE g.orig # e.tx
  <2>1. CASE g.orig = None
    BY <1>2, <1>4, <2>1 DEF None
  <2>2. CASE g.orig # None
    <3>1. PICK f \in ToSet(t) : f.tx = g.orig
      BY <2>2 DEF GoodTable
    <3> QED BY <1>2, <1>4, <1>5, <3>1
  <2> QED BY <2>1, <2>2
<1> QED BY <1>1, <1>2, <1>4, <1>5, <1>6

\* ... it is an event, as long as the table is not full.
LEMMA NewTyped ==
  ASSUME NEW t, GoodTable(t), Len(t) < Stored + Added, NEW e \in NewEvents(t)
  PROVE  e \in Event
<1>1. t \in Seq(Event) /\ Len(t) \in Nat /\ Stored \in Nat /\ Added \in Nat /\ ToSet(t) \subseteq Event
  BY InSet, ReindexAssumption DEF GoodTable
<1>2. /\ e = [n |-> e.n, ts |-> e.ts, tx |-> e.tx, orig |-> e.orig, ord |-> e.ord,
              kind |-> e.kind, a |-> e.a]
      /\ e.n = Len(t) + 1 /\ e.ord = Len(OfTx(t, e.tx))
      /\ e.kind \in {"start", "over", "other"} /\ e.a \in Auctions \cup {None}
      /\ Known(t, e) \/ (e.ts \in 1..MaxTime /\ Fresh(t, e))
  BY NewEventIs
<1>3. e.n \in Transactions
  BY <1>1, <1>2 DEF Transactions
<1>4. e.ord \in 0..(Stored + Added)
  <2> DEFINE x == {g \in ToSet(t) : g.tx = e.tx}
  <2>1. OfTx(t, e.tx) = Kept(t, x)
    BY DEF OfTx
  <2> HIDE DEF x
  <2>2. Kept(t, x) \in Seq(Event) /\ Len(Kept(t, x)) <= Len(t)
    BY <1>1, KeptIs
  <2>3. Len(Kept(t, x)) \in Nat
    BY <2>2, LenProperties
  <2> QED BY <1>1, <1>2, <2>1, <2>2, <2>3
<1>5. e.ts \in 1..MaxTime /\ e.tx \in Transactions /\ e.orig \in Transactions \cup {None}
  <2>1. CASE Known(t, e)
    <3>1. PICK g \in ToSet(t) : e.ts = g.ts /\ e.tx = g.tx /\ e.orig = g.orig
      BY <2>1 DEF Known
    <3>2. g \in Event
      BY <1>1
    <3> QED BY <3>1, <3>2 DEF Event
  <2>2. CASE e.ts \in 1..MaxTime /\ Fresh(t, e)
    <3>1. PICK k \in 0..Len(t) : e.tx = k + 1
      BY <2>2, FreshTx
    <3>2. e.tx \in Transactions
      BY <1>1, <3>1 DEF Transactions
    <3>3. e.orig = None \/ \E g \in ToSet(t) : g.tx = e.orig
      BY <2>2 DEF Fresh
    <3>4. \A g \in ToSet(t) : g.tx \in Transactions
      BY <1>1 DEF Event
    <3> QED BY <2>2, <3>2, <3>3, <3>4
  <2> QED BY <1>2, <2>1, <2>2
<1> DEFINE n == e.n
           ts == e.ts
           tx == e.tx
           orig == e.orig
           ord == e.ord
           kind == e.kind
           a == e.a
<1>6. /\ e = [n |-> n, ts |-> ts, tx |-> tx, orig |-> orig, ord |-> ord, kind |-> kind, a |-> a]
      /\ n \in Transactions /\ ts \in 1..MaxTime /\ tx \in Transactions
      /\ orig \in Transactions \cup {None} /\ ord \in 0..(Stored + Added)
      /\ kind \in {"start", "over", "other"} /\ a \in Auctions \cup {None}
  BY <1>2, <1>3, <1>4, <1>5
<1> HIDE DEF n, ts, tx, orig, ord, kind, a
<1> QED BY <1>6 DEF Event

\* The table stays what it is when an event comes to it.
LEMMA GrownIsGood ==
  ASSUME NEW t, GoodTable(t), Len(t) < Stored + Added, NEW e \in NewEvents(t),
         NEW k \in 0..Len(t), Fits(t, k, e), NEW r \in Seq(Event), Grown(t, k, e, r)
  PROVE  GoodTable(r)
<1> USE DEF None
<1>1. /\ t \in Seq(Event) /\ Len(t) \in Nat /\ Stored \in Nat /\ Added \in Nat
      /\ k \in Nat /\ k <= Len(t) /\ Len(r) = Len(t) + 1
      /\ DOMAIN t = 1..Len(t) /\ DOMAIN r = 1..Len(r) /\ e \in Event
  BY InSet, NewTyped, ReindexAssumption DEF GoodTable, Grown
<1>2. /\ ToSet(r) = ToSet(t) \cup {e}
      /\ \A i \in 1..Len(r) : \/ i <= k /\ i \in 1..Len(t) /\ r[i] = t[i]
                              \/ i = k + 1 /\ r[i] = e
                              \/ i > k + 1 /\ i - 1 \in 1..Len(t) /\ r[i] = t[i - 1]
  BY <1>1, GrownSet
<1>3. /\ e.n = Len(t) + 1 /\ (e.kind # "other" => e.a \in Auctions)
      /\ Known(t, e) \/ (e.ts \in 1..MaxTime /\ Fresh(t, e))
  BY NewEventIs
<1>4. Len(r) <= Stored + Added
  BY <1>1
<1>5. Sorted(r)
  <2> SUFFICES ASSUME NEW i \in 1..Len(r), NEW j \in 1..Len(r), i <= j PROVE r[i].ts <= r[j].ts
    BY <1>1 DEF Sorted
  <2>1. \A x, y \in 1..Len(t) : x <= y => t[x].ts <= t[y].ts
    BY <1>1 DEF GoodTable, Sorted
  <2>2. \A x \in 1..k : t[x].ts <= e.ts
    BY DEF Fits
  <2>3. \A x \in (k + 1)..Len(t) : e.ts <= t[x].ts
    BY DEF Fits
  <2>4. e.ts \in Nat
    BY <1>1, EventTyped
  <2>5. CASE i <= k
    <3>1. i \in 1..Len(t) /\ i \in 1..k /\ r[i] = t[i]
      BY <1>1, <1>2, <2>5
    <3>2. CASE j <= k
      <4>1. j \in 1..Len(t) /\ r[j] = t[j]
        BY <1>1, <1>2, <3>2
      <4> QED BY <2>1, <3>1, <4>1
    <3>3. CASE j = k + 1
      <4>1. r[j] = e
        BY <1>1, <1>2, <3>3
      <4> QED BY <2>2, <3>1, <4>1
    <3>4. CASE j > k + 1
      <4>1. j - 1 \in 1..Len(t) /\ r[j] = t[j - 1] /\ i <= j - 1
        BY <1>1, <1>2, <2>5, <3>4
      <4> QED BY <2>1, <3>1, <4>1
    <3> QED BY <1>1, <3>2, <3>3, <3>4
  <2>6. CASE i = k + 1
    <3>1. r[i] = e
      BY <1>1, <1>2, <2>6
    <3>2. CASE j = k + 1
      BY <2>4, <2>6, <3>1, <3>2
    <3>3. CASE j > k + 1
      <4>1. j - 1 \in 1..Len(t) /\ r[j] = t[j - 1] /\ j - 1 \in (k + 1)..Len(t)
        BY <1>1, <1>2, <3>3
      <4> QED BY <2>3, <3>1, <4>1
    <3> QED BY <1>1, <2>6, <3>2, <3>3
  <2>7. CASE i > k + 1
    <3>1. /\ i - 1 \in 1..Len(t) /\ r[i] = t[i - 1] /\ j - 1 \in 1..Len(t) /\ r[j] = t[j - 1]
          /\ i - 1 <= j - 1
      BY <1>1, <1>2, <2>7
    <3> QED BY <2>1, <3>1
  <2> QED BY <1>1, <2>5, <2>6, <2>7
<1>6. \A i \in 1..Len(r) : r[i].n \in 1..Len(r)
  <2>1. \A x \in 1..Len(t) : t[x].n \in 1..Len(t)
    BY <1>1 DEF GoodTable
  <2> TAKE i \in 1..Len(r)
  <2>2. (\E x \in 1..Len(t) : r[i] = t[x]) \/ r[i] = e
    BY <1>2
  <2> QED BY <1>1, <1>3, <2>1, <2>2
<1>7. ASSUME NEW i \in 1..Len(r), NEW j \in 1..Len(r), r[i].n = r[j].n PROVE i = j
  <2>1. \A x \in 1..Len(t) : t[x].n \in 1..Len(t)
    BY <1>1 DEF GoodTable
  <2>2. \A x, y \in 1..Len(t) : t[x].n = t[y].n => x = y
    BY <1>1 DEF GoodTable
  <2>3. ASSUME NEW x \in 1..Len(r) PROVE \/ x = k + 1 /\ r[x].n = Len(t) + 1
                                         \/ x # k + 1 /\ r[x].n \in 1..Len(t)
    <3>1. \/ \E y \in 1..Len(t) : x # k + 1 /\ r[x] = t[y]
          \/ x = k + 1 /\ r[x] = e
      <4>1. \/ x <= k /\ x \in 1..Len(t) /\ r[x] = t[x]
            \/ x = k + 1 /\ r[x] = e
            \/ x > k + 1 /\ x - 1 \in 1..Len(t) /\ r[x] = t[x - 1]
        BY <1>2
      <4>2. k \in Nat /\ x \in Nat
        BY <1>1
      <4>3. CASE x <= k /\ x \in 1..Len(t) /\ r[x] = t[x]
        <5>1. x # k + 1
          BY <4>2, <4>3
        <5> QED BY <4>3, <5>1
      <4>4. CASE x > k + 1 /\ x - 1 \in 1..Len(t) /\ r[x] = t[x - 1]
        <5>1. x # k + 1
          BY <4>2, <4>4
        <5> QED BY <4>4, <5>1
      <4> QED BY <4>1, <4>3, <4>4
    <3>2. CASE \E y \in 1..Len(t) : x # k + 1 /\ r[x] = t[y]
      BY <2>1, <3>2
    <3>3. CASE x = k + 1 /\ r[x] = e
      BY <1>3, <3>3
    <3> QED BY <3>1, <3>2, <3>3
  <2>4. CASE i = k + 1
    <3>1. ~(j # k + 1)
      BY <1>1, <1>7, <2>3, <2>4
    <3> QED BY <2>4, <3>1
  <2>5. CASE i # k + 1
    <3>1. j # k + 1
      BY <1>1, <1>7, <2>3, <2>5
    <3>2. /\ (i <= k /\ i \in 1..Len(t) /\ r[i] = t[i]) \/ (i > k + 1 /\ i - 1 \in 1..Len(t) /\ r[i] = t[i - 1])
          /\ (j <= k /\ j \in 1..Len(t) /\ r[j] = t[j]) \/ (j > k + 1 /\ j - 1 \in 1..Len(t) /\ r[j] = t[j - 1])
      BY <1>2, <2>5, <3>1
    <3>3. CASE i <= k /\ j <= k
      BY <1>1, <1>7, <2>2, <3>2, <3>3
    <3>4. CASE i > k + 1 /\ j > k + 1
      <4>1. i - 1 = j - 1
        BY <1>1, <1>7, <2>2, <3>2, <3>4
      <4> QED BY <4>1
    <3>5. CASE i <= k /\ j > k + 1
      <4>1. i = j - 1
        BY <1>1, <1>7, <2>2, <3>2, <3>5
      <4> QED BY <1>1, <3>5, <4>1
    <3>6. CASE i > k + 1 /\ j <= k
      <4>1. i - 1 = j
        BY <1>1, <1>7, <2>2, <3>2, <3>6
      <4> QED BY <1>1, <3>6, <4>1
    <3> QED BY <1>1, <3>2, <3>3, <3>4, <3>5, <3>6
  <2> QED BY <2>4, <2>5
<1>8. Txs(t) = {g.tx : g \in ToSet(t)} /\ Txs(r) = Txs(t) \cup {e.tx}
  <2>1. Txs(t) = {g.tx : g \in ToSet(t)} /\ Txs(r) = {g.tx : g \in ToSet(r)}
    <3>1. /\ Txs(t) = {t[i].tx : i \in 1..Len(t)} /\ Txs(r) = {r[i].tx : i \in 1..Len(r)}
          /\ ToSet(t) = {t[i] : i \in 1..Len(t)} /\ ToSet(r) = {r[i] : i \in 1..Len(r)}
      BY <1>1 DEF Txs, ToSet
    <3> QED BY <3>1
  <2> QED BY <1>2, <2>1
<1>9. \E x \in 0..Len(r) : Txs(r) = 1..x
  <2>1. CASE Known(t, e)
    <3>1. e.tx \in Txs(t)
      BY <1>8, <2>1 DEF Known
    <3>2. PICK x \in 0..Len(t) : Txs(t) = 1..x
      BY DEF GoodTable
    <3>3. x \in 0..Len(r) /\ Txs(r) = 1..x
      BY <1>1, <1>8, <3>1, <3>2
    <3> QED BY <3>3
  <2>2. CASE Fresh(t, e)
    <3>1. PICK x \in 0..Len(t) : Txs(t) = 1..x /\ e.tx = x + 1
      BY <2>2, FreshTx
    <3>2. (1..x) \cup {x + 1} = 1..(x + 1)
      BY <1>1
    <3>3. x + 1 \in 0..Len(r) /\ Txs(r) = 1..(x + 1)
      BY <1>1, <1>8, <3>1, <3>2
    <3> QED BY <3>3
  <2> QED BY <1>3, <2>1, <2>2
<1>10. ASSUME NEW f \in ToSet(r), NEW g \in ToSet(r), f.tx = g.tx
       PROVE  f.ts = g.ts /\ f.orig = g.orig
  <2>1. \A x, y \in ToSet(t) : x.tx = y.tx => x.ts = y.ts /\ x.orig = y.orig
    BY DEF GoodTable
  <2>2. \A x \in ToSet(t) : x.tx = e.tx => x.ts = e.ts /\ x.orig = e.orig
    <3>1. CASE Known(t, e)
      BY <2>1, <3>1 DEF Known
    <3>2. CASE Fresh(t, e)
      BY <3>2, FreshTx
    <3> QED BY <1>3, <3>1, <3>2
  <2> QED BY <1>2, <1>10, <2>1, <2>2
<1>11. ASSUME NEW f \in ToSet(r), f.orig # None
       PROVE  \E g \in ToSet(r) : g.tx = f.orig /\ g.orig = None
  <2>1. \A x \in ToSet(t) : x.orig # None => \E g \in ToSet(t) : g.tx = x.orig /\ g.orig = None
    BY DEF GoodTable
  <2>2. e.orig # None => \E g \in ToSet(t) : g.tx = e.orig /\ g.orig = None
    <3>1. CASE Known(t, e)
      BY <2>1, <3>1 DEF Known
    <3>2. CASE Fresh(t, e)
      BY <3>2 DEF Fresh
    <3> QED BY <1>3, <3>1, <3>2
  <2> QED BY <1>2, <1>11, <2>1, <2>2
<1>12. \A f \in ToSet(r) : f.kind # "other" => f.a \in Auctions
  BY <1>2, <1>3 DEF GoodTable
<1> QED BY <1>1, <1>4, <1>5, <1>6, <1>7, <1>9, <1>10, <1>11, <1>12 DEF GoodTable

\* The tables that come from those in X when an event is added at their end.
Longer(X) == UNION {{Append(t, e) : e \in {f \in NewEvents(t) : Fits(t, Len(t), f)}} : t \in X}

GoodOnes(k) == {t \in Seq(Event) : GoodTable(t) /\ Len(t) = k}

LEMMA LongerIs ==
  ASSUME NEW k \in Nat, k < Stored + Added, NEW X \in SUBSET GoodOnes(k)
  PROVE  Longer(X) \in SUBSET GoodOnes(k + 1)
<1> SUFFICES ASSUME NEW r \in Longer(X) PROVE r \in GoodOnes(k + 1)
  OBVIOUS
<1>1. PICK t \in X : r \in {Append(t, e) : e \in {f \in NewEvents(t) : Fits(t, Len(t), f)}}
  BY DEF Longer
<1>2. PICK e \in {f \in NewEvents(t) : Fits(t, Len(t), f)} : r = Append(t, e)
  BY <1>1
<1>3. GoodTable(t) /\ t \in Seq(Event) /\ Len(t) = k /\ e \in NewEvents(t) /\ Fits(t, k, e)
  BY DEF GoodOnes
<1>4. e \in Event
  BY <1>3, NewTyped
<1>5. r \in Seq(Event) /\ Grown(t, k, e, r) /\ Len(r) = k + 1
  BY <1>2, <1>3, <1>4, AppendGrows DEF Grown
<1>6. GoodTable(r)
  <2>1. k \in 0..Len(t)
    BY <1>3
  <2> QED BY <1>3, <1>5, <2>1, GrownIsGood
<1> QED BY <1>5, <1>6 DEF GoodOnes

LEMMA NoEvents == <<>> \in GoodOnes(0)
<1>1. <<>> \in Seq(Event) /\ Len(<<>>) = 0 /\ DOMAIN <<>> = {} /\ ToSet(<<>>) = {}
  BY DEF ToSet
<1>2. 0 <= Stored + Added /\ \E k \in 0..0 : Txs(<<>>) = 1..k
  <2>1. Txs(<<>>) = {}
    BY <1>1 DEF Txs
  <2>2. 1..0 = {} /\ 0 \in 0..0
    OBVIOUS
  <2> QED BY <2>1, <2>2, ReindexAssumption
<1>3. Sorted(<<>>)
  BY <1>1 DEF Sorted
<1>4. GoodTable(<<>>)
  BY <1>1, <1>2, <1>3 DEF GoodTable
<1> QED BY <1>1, <1>4 DEF GoodOnes

\* Every table the reindex may start with.
LEMMA TablesAreGood ==
  ASSUME NEW t \in Tables[Stored]
  PROVE  GoodTable(t)
<1> DEFINE n == Stored
           U == SUBSET {x \in Seq(Event) : GoodTable(x)}
           Short(X) == {x \in X : Len(x) < Stored + Added}
           As(u) == u = [k \in 0..n |-> IF k = 0 THEN {<<>>} ELSE Longer(u[k - 1])]
           next == [k \in 1..n |-> [X \in U |-> IF X \subseteq GoodOnes(k - 1) THEN Longer(X) ELSE {}]]
           b == {<<>>}
           c == CHOOSE u : As(u)
<1>1. n \in Nat /\ n <= Stored + Added
  BY ReindexAssumption
<1>2. Tables = c
  BY DEF Tables, Longer
<1>3. \A k : GoodOnes(k) \in U
  BY DEF GoodOnes
<1>4. \A k \in 1..n : \A X : X \subseteq GoodOnes(k - 1) => Longer(X) \subseteq GoodOnes(k) /\ Longer(X) \in U
  <2> SUFFICES ASSUME NEW k \in 1..n, NEW X \in SUBSET GoodOnes(k - 1)
               PROVE  Longer(X) \subseteq GoodOnes(k) /\ Longer(X) \in U
    OBVIOUS
  <2> DEFINE j == k - 1
  <2>1. j \in Nat /\ j < Stored + Added /\ j + 1 = k /\ X \in SUBSET GoodOnes(j)
    BY <1>1, ReindexAssumption
  <2> HIDE DEF j, U
  <2>2. Longer(X) \in SUBSET GoodOnes(j + 1)
    BY <2>1, LongerIs
  <2>3. Longer(X) \subseteq GoodOnes(k)
    BY <2>1, <2>2
  <2> QED BY <1>3, <2>3 DEF U
<1>5. b \in U /\ b \subseteq GoodOnes(0)
  BY NoEvents DEF GoodOnes
<1>6. next \in [1..n -> [U -> U]]
  <2> HIDE DEF U, n
  <2>1. {} \in U
    BY DEF U
  <2>2. ASSUME NEW k \in 1..n, NEW X \in U
        PROVE  (IF X \subseteq GoodOnes(k - 1) THEN Longer(X) ELSE {}) \in U
    BY <1>4, <2>1
  <2> QED BY <2>2
<1> HIDE DEF n, U, c
<1>7. PICK f : Follows(f, U, b, n, next)
  <2> HIDE DEF b, next
  <2> QED BY <1>1, <1>5, <1>6, Following
<1>8. f \in [0..n -> U] /\ f[0] = b /\ \A k \in 1..n : f[k] = next[k][f[k - 1]]
  <2> HIDE DEF b, next
  <2> QED BY <1>7 DEF Follows
<1>9. \A k \in 1..n : f[k] = IF f[k - 1] \subseteq GoodOnes(k - 1) THEN Longer(f[k - 1]) ELSE {}
  <2> TAKE k \in 1..n
  <2> DEFINE X == f[k - 1]
  <2>1. k - 1 \in 0..n
    BY <1>1
  <2>2. X \in U /\ f[k] = next[k][X]
    BY <1>8, <2>1
  <2> HIDE DEF X
  <2>3. next[k][X] = IF X \subseteq GoodOnes(k - 1) THEN Longer(X) ELSE {}
    BY <2>2
  <2> QED BY <2>2, <2>3 DEF X
<1> HIDE DEF next
<1>10. \A k \in 0..n : f[k] \subseteq GoodOnes(k)
  <2> DEFINE P == {k \in Nat : f[k] \subseteq GoodOnes(k)}
  <2>1. 0 \in P
    BY <1>5, <1>8
  <2>2. ASSUME NEW k \in 0..(n - 1), k \in P PROVE k + 1 \in P
    <3>1. k + 1 \in 1..n /\ (k + 1) - 1 = k /\ f[k] \subseteq GoodOnes(k) /\ k + 1 \in Nat
      BY <1>1, <2>2
    <3>2. f[k + 1] = Longer(f[k])
      BY <1>9, <3>1
    <3>3. Longer(f[k]) \subseteq GoodOnes(k + 1)
      BY <1>4, <3>1
    <3> QED BY <3>1, <3>2, <3>3
  <2>3. P \in SUBSET Nat
    OBVIOUS
  <2> HIDE DEF P
  <2>4. \A k \in 0..n : k \in P
    BY <1>1, <2>1, <2>2, <2>3, Climb
  <2> QED BY <2>4 DEF P
<1>11. As(f)
  <2> DEFINE g == [k \in 0..n |-> IF k = 0 THEN {<<>>} ELSE Longer(f[k - 1])]
  <2>1. ASSUME NEW k \in 0..n PROVE f[k] = g[k]
    <3>1. CASE k = 0
      BY <1>8, <3>1
    <3>2. CASE k # 0
      <4>1. k \in 1..n /\ k - 1 \in 0..n
        BY <1>1, <3>2
      <4>2. f[k] = Longer(f[k - 1])
        BY <1>9, <1>10, <4>1
      <4> QED BY <3>2, <4>2
    <3> QED BY <3>1, <3>2
  <2>2. f = [k \in 0..n |-> f[k]] /\ g = [k \in 0..n |-> g[k]]
    BY <1>8
  <2> HIDE DEF g
  <2>3. f = g
    BY <2>1, <2>2
  <2> QED BY <2>3 DEF g
<1>12. As(c)
  <2> HIDE DEF As
  <2> QED BY <1>11 DEF c
<1>13. \A k \in 0..n : c[k] = IF k = 0 THEN {<<>>} ELSE Longer(c[k - 1])
  <2> TAKE k \in 0..n
  <2> DEFINE g == [x \in 0..n |-> IF x = 0 THEN {<<>>} ELSE Longer(c[x - 1])]
  <2>1. c = g
    BY <1>12
  <2>2. g[k] = IF k = 0 THEN {<<>>} ELSE Longer(c[k - 1])
    OBVIOUS
  <2> HIDE DEF g
  <2> QED BY <2>1, <2>2
<1>14. c[n] \subseteq GoodOnes(n)
  <2> DEFINE P == {k \in Nat : c[k] \subseteq GoodOnes(k)}
  <2>1. 0 \in P
    BY <1>1, <1>5, <1>13
  <2>2. ASSUME NEW k \in 0..(n - 1), k \in P PROVE k + 1 \in P
    <3>1. /\ k + 1 \in 1..n /\ k + 1 \in 0..n /\ k + 1 # 0 /\ (k + 1) - 1 = k
          /\ c[k] \subseteq GoodOnes(k) /\ k + 1 \in Nat
      BY <1>1, <2>2
    <3>2. c[k + 1] = Longer(c[k])
      BY <1>13, <3>1
    <3>3. Longer(c[k]) \subseteq GoodOnes(k + 1)
      BY <1>4, <3>1
    <3> QED BY <3>1, <3>2, <3>3
  <2>3. P \in SUBSET Nat /\ n \in 0..n
    BY <1>1
  <2> HIDE DEF P
  <2>4. n \in P
    BY <1>1, <2>1, <2>2, <2>3, Climb
  <2> QED BY <2>4 DEF P
<1> QED BY <1>2, <1>14 DEF GoodOnes, n

-----------------------------------------------------------------------------
(* A read of the table.                                                    *)

\* A read of the table: the oldest events newer than t, and when there are more,
\* as many as a batch holds.
LEMMA QueryIs ==
  ASSUME GoodTable(table), NEW t \in Nat
  PROVE  LET q == Query(t)
         IN  /\ q \in Seq(Event) /\ Sorted(q) /\ Apart(q)
             /\ \A e \in ToSet(q) : e \in ToSet(table) /\ e.ts > t
             /\ \A e \in ToSet(table) : e.ts > t /\ e \notin ToSet(q) =>
                  q # <<>> /\ Len(q) = BatchSize /\ Newest(q) <= e.ts
<1> DEFINE kept == {e \in ToSet(table) : e.ts > t}
           newer == Kept(table, kept)
           m == IF Len(newer) > BatchSize THEN BatchSize ELSE Len(newer)
           q == SubSeq(newer, 1, m)
<1>1. Query(t) = q
  BY DEF Query
<1>2. table \in Seq(Event) /\ Sorted(table) /\ Apart(table)
  <2>1. \A i, j \in DOMAIN table : table[i].n = table[j].n => i = j
    BY DEF GoodTable
  <2> QED BY <2>1 DEF GoodTable, Apart
<1>3. newer \in Seq(Event) /\ Sorted(newer) /\ Apart(newer) /\ ToSet(newer) = kept
  <2> HIDE DEF kept
  <2>1. ToSet(table) \cap kept = kept
    BY DEF kept
  <2> QED BY <1>2, <2>1, KeptIs, KeptOrder, KeptSet
<1>4. BatchSize \in Nat /\ BatchSize > 0
  BY ReindexAssumption
<1> HIDE DEF newer
<1>5. Len(newer) \in Nat /\ DOMAIN newer = 1..Len(newer)
  BY <1>3, InSet
<1>6. m \in Nat /\ m <= Len(newer)
  BY <1>4, <1>5
<1>7. q \in Seq(Event) /\ Len(q) = m /\ \A i \in 1..m : q[i] = newer[i]
  <2> HIDE DEF m, kept
  <2>1. \A i \in 1..m : newer[i] \in Event
    BY <1>3, <1>5, <1>6, InSet
  <2>2. m \in Int /\ 1 \in Int
    BY <1>6
  <2>3. /\ q \in Seq(Event) /\ Len(q) = IF 1 <= m THEN m - 1 + 1 ELSE 0
        /\ \A i \in 1..(m - 1 + 1) : q[i] = newer[1 + i - 1]
    BY <1>3, <2>1, <2>2, SubSeqProperties
  <2> HIDE DEF q
  <2> QED BY <1>6, <2>3
<1> HIDE DEF q
<1>8. DOMAIN q = 1..m /\ 1..m \subseteq 1..Len(newer)
  <2> HIDE DEF m
  <2> QED BY <1>6, <1>7, InSet
<1>9. Sorted(q) /\ Apart(q)
  BY <1>3, <1>5, <1>7, <1>8 DEF Sorted, Apart
<1>10. \A e \in ToSet(q) : e \in ToSet(table) /\ e.ts > t
  <2> TAKE e \in ToSet(q)
  <2>1. PICK i \in 1..m : q[i] = e
    BY <1>7, InSet
  <2>2. e = newer[i] /\ i \in 1..Len(newer)
    BY <1>7, <1>8, <2>1
  <2>3. e \in kept
    BY <1>3, <2>2, InSet
  <2> QED BY <2>3
<1>11. ASSUME NEW e \in ToSet(table), e.ts > t, e \notin ToSet(q)
       PROVE  q # <<>> /\ Len(q) = BatchSize /\ Newest(q) <= e.ts
  <2>1. PICK i \in 1..Len(newer) : newer[i] = e
    BY <1>3, <1>11, InSet
  <2>2. i \notin 1..m
    <3> HIDE DEF m
    <3>1. \A j \in 1..m : q[j] \in ToSet(q)
      BY <1>7, InSet
    <3> QED BY <1>7, <1>11, <2>1, <3>1
  <2>3. m = BatchSize /\ m < i /\ m \in 1..Len(newer)
    <3>1. CASE Len(newer) > BatchSize
      <4>1. m = BatchSize
        BY <3>1
      <4> HIDE DEF m
      <4> QED BY <1>4, <1>5, <1>6, <2>1, <2>2, <4>1
    <3>2. CASE ~(Len(newer) > BatchSize)
      <4>1. m = Len(newer)
        BY <3>2
      <4> HIDE DEF m
      <4> QED BY <2>1, <2>2, <4>1
    <3> QED BY <3>1, <3>2
  <2>4. q # <<>>
    BY <1>4, <1>7, <2>3, InSet
  <2>5. Newest(q) = newer[m].ts
    <3> HIDE DEF m
    <3>1. m \in 1..m
      BY <1>4, <2>3
    <3> QED BY <1>7, <3>1 DEF Newest
  <2>6. newer[m].ts <= newer[i].ts
    <3> HIDE DEF m
    <3>1. m \in DOMAIN newer /\ i \in DOMAIN newer /\ m <= i
      BY <1>5, <1>6, <2>1, <2>3
    <3> QED BY <1>3, <3>1 DEF Sorted
  <2> QED BY <1>7, <2>1, <2>3, <2>4, <2>5, <2>6
<1> HIDE DEF m
<1> QED BY <1>1, <1>7, <1>9, <1>10, <1>11

\* A batch full of events of one timestamp that leaves another one out.
LEMMA FullBatch ==
  ASSUME NEW T, NEW q \in Seq(T), Apart(q), NEW C, IsFiniteSet(C), ToSet(q) \subseteq C,
         NEW e \in C, e \notin ToSet(q)
  PROVE  Cardinality(C) > Len(q)
<1>1. Len(q) \in Nat /\ DOMAIN q = 1..Len(q)
  BY InSet
<1> DEFINE n == Len(q)
           D == C \ {e}
<1>2. IsFiniteSet(1..n) /\ Cardinality(1..n) = n
  <2> HIDE DEF n
  <2>1. n \in Nat
    BY <1>1 DEF n
  <2>2. IsFiniteSet(1..n) /\ Cardinality(1..n) = IF 1 > n THEN 0 ELSE n - 1 + 1
    BY <2>1, FS_Interval
  <2> QED BY <2>1, <2>2
<1>3. IsFiniteSet(D) /\ Cardinality(D) = Cardinality(C) - 1
  BY FS_RemoveElement
<1>4. q \in Injection(1..n, D)
  <2>1. \A i \in 1..n : q[i] \in D
    BY InSet
  <2>2. q = [i \in 1..n |-> q[i]]
    BY LenProperties
  <2>3. q \in [1..n -> D]
    <3> HIDE DEF n, D
    <3> QED BY <2>1, <2>2
  <2>4. \A i, j \in 1..n : q[i] = q[j] => i = j
    BY <1>1 DEF Apart
  <2>5. DOMAIN q = 1..n
    BY <1>1
  <2> HIDE DEF n, D
  <2> QED BY <2>3, <2>4, <2>5 DEF Injection, IsInjective
<1>5. n <= Cardinality(D)
  <2> HIDE DEF n, D
  <2> QED BY <1>2, <1>3, <1>4, FS_Injection
<1>6. Cardinality(C) \in Nat
  BY FS_CardinalityType
<1> QED BY <1>1, <1>3, <1>5, <1>6

\* What is newer than t and no newer than what is read for good, once the table
\* is read, is in the batch.
LEMMA QueryComplete ==
  ASSUME GoodTable(table), before \in Nat, NEW t \in Nat, NEW e \in ToSet(table), Due(e), e.ts > t,
         Query(t) = <<>> \/ e.ts <= Sliced(Query(t)).after
  PROVE  Query(t) # <<>> /\ e \in ToSet(Sliced(Query(t)).batch)
<1> DEFINE q == Query(t)
<1>1. /\ q \in Seq(Event) /\ Sorted(q) /\ Apart(q)
      /\ \A g \in ToSet(q) : g \in ToSet(table) /\ g.ts > t
      /\ \A g \in ToSet(table) : g.ts > t /\ g \notin ToSet(q) =>
           q # <<>> /\ Len(q) = BatchSize /\ Newest(q) <= g.ts
  BY QueryIs
<1> HIDE DEF q
<1>2. q # <<>>
  <2>1. ASSUME q = <<>> PROVE FALSE
    <3>1. e \notin ToSet(q)
      BY <1>1, <2>1, InSet
    <3> QED BY <1>1, <2>1, <3>1
  <2> QED BY <2>1
<1> DEFINE s == Sliced(q)
<1>3. e.ts <= s.after
  BY <1>2 DEF q
<1>4. /\ s.after \in Nat
      /\ \A g \in ToSet(q) : g.ts <= s.after /\ (before # None => g.ts < before) => g \in ToSet(s.batch)
      /\ \/ s.after < Newest(q)
         \/ s.after <= Newest(q) /\ \A g \in ToSet(q) : g.ts = Newest(q)
  BY <1>1, <1>2, SlicedIs
<1> HIDE DEF s
<1>5. table \in Seq(Event) /\ e \in Event /\ e.ts \in Nat /\ Newest(q) \in Nat
  BY <1>1, <1>2, InSet, EventTyped, Ends DEF GoodTable
<1>6. CASE e \in ToSet(q)
  BY <1>2, <1>3, <1>4, <1>6 DEF Due, s, q
<1>7. CASE e \notin ToSet(q)
  <2>1. Len(q) = BatchSize /\ Newest(q) <= e.ts
    BY <1>1, <1>7
  <2>2. e.ts = Newest(q) /\ \A g \in ToSet(q) : g.ts = Newest(q)
    BY <1>3, <1>4, <1>5, <2>1
  <2> DEFINE C == {g \in ToSet(table) : g.ts = e.ts}
  <2>3. ToSet(q) \subseteq C /\ e \in C
    BY <1>1, <2>2
  <2>4. IsFiniteSet(C)
    <3>1. IsFiniteSet(ToSet(table))
      BY <1>5, FiniteElements
    <3> QED BY <3>1, FS_Subset
  <2>5. Cardinality(C) > BatchSize
    <3> HIDE DEF C
    <3> QED BY <1>1, <1>7, <2>1, <2>3, <2>4, FullBatch
  <2>6. Crowded(e.ts)
    BY <2>5 DEF Crowded
  <2> QED BY <2>6 DEF Due
<1> QED BY <1>6, <1>7

-----------------------------------------------------------------------------
(* The rows.                                                               *)

\* The events of a set in their order are events of the set.
LEMMA InOrderTyped ==
  ASSUME NEW V, NEW s \in Seq(V)
  PROVE  InOrderOfEvents(s) \in Seq(V)
<1> DEFINE n == Stored + Added
           Part(o) == Kept(s, {e \in ToSet(s) : e.ord = o})
           As(u) == u = [o \in 0..n |-> (IF o = 0 THEN <<>> ELSE u[o - 1]) \o Part(o)]
           next == [o \in 1..n |-> [t \in Seq(V) |-> t \o Part(o)]]
           c == CHOOSE u : As(u)
           U == Seq(V)
           b == <<>> \o Part(0)
<1>1. n \in Nat
  BY ReindexAssumption
<1>2. \A o : Part(o) \in Seq(V)
  BY KeptIs
<1>3. InOrderOfEvents(s) = c[n]
  BY DEF InOrderOfEvents
<1> HIDE DEF n, Part
<1>4. next \in [1..n -> [U -> U]] /\ b \in U
  <2>1. ASSUME NEW t \in Seq(V), NEW o PROVE t \o Part(o) \in Seq(V)
    BY <1>2, ConcatProperties
  <2>2. <<>> \in Seq(V)
    OBVIOUS
  <2> QED BY <2>1, <2>2
<1>5. PICK f \in [0..n -> U] : f[0] = b /\ \A k \in 1..n : f[k] = next[k][f[k - 1]]
  <2> HIDE DEF next, U, b, c
  <2> QED BY <1>1, <1>4, Recursion
<1>6. As(f)
  <2> DEFINE g == [o \in 0..n |-> (IF o = 0 THEN <<>> ELSE f[o - 1]) \o Part(o)]
  <2>1. ASSUME NEW o \in 0..n PROVE f[o] = g[o]
    <3>1. CASE o = 0
      BY <1>5, <3>1
    <3>2. CASE o # 0
      <4>1. o \in 1..n /\ o - 1 \in 0..n
        BY <1>1, <3>2
      <4> DEFINE t == f[o - 1]
      <4>2. t \in Seq(V) /\ f[o] = next[o][t] /\ g[o] = t \o Part(o)
        BY <1>5, <3>2, <4>1
      <4> HIDE DEF t, g
      <4>3. next[o][t] = t \o Part(o)
        BY <4>1, <4>2
      <4> QED BY <4>2, <4>3
    <3> QED BY <3>1, <3>2
  <2>2. f = [o \in 0..n |-> f[o]] /\ g = [o \in 0..n |-> g[o]]
    OBVIOUS
  <2> HIDE DEF g
  <2>3. f = g
    BY <2>1, <2>2
  <2> QED BY <2>3 DEF g
<1>7. As(c)
  <2> HIDE DEF As
  <2> QED BY <1>6
<1> DEFINE P == {k \in Nat : c[k] \in Seq(V)}
<1>8. ASSUME NEW o \in 0..n PROVE c[o] = (IF o = 0 THEN <<>> ELSE c[o - 1]) \o Part(o)
  <2> HIDE DEF c
  <2> DEFINE g == [x \in 0..n |-> (IF x = 0 THEN <<>> ELSE c[x - 1]) \o Part(x)]
  <2>1. c = g
    BY <1>7
  <2>2. g[o] = (IF o = 0 THEN <<>> ELSE c[o - 1]) \o Part(o)
    OBVIOUS
  <2> HIDE DEF g
  <2> QED BY <2>1, <2>2
<1> HIDE DEF c
<1>9. 0 \in P
  <2>1. 0 \in 0..n
    BY <1>1
  <2>2. c[0] = (IF 0 = 0 THEN <<>> ELSE c[0 - 1]) \o Part(0)
    BY <1>8, <2>1
  <2>3. c[0] = <<>> \o Part(0)
    BY <2>2
  <2> QED BY <1>4, <2>3
<1>10. ASSUME NEW k \in 0..(n - 1), k \in P PROVE k + 1 \in P
  <2>1. k + 1 \in 0..n /\ k + 1 # 0 /\ (k + 1) - 1 = k /\ c[k] \in Seq(V)
    BY <1>1, <1>10
  <2>2. c[k + 1] = c[k] \o Part(k + 1)
    BY <1>8, <2>1
  <2>3. c[k] \o Part(k + 1) \in Seq(V)
    BY <1>2, <2>1, ConcatProperties
  <2>4. c[k + 1] \in Seq(V) /\ k + 1 \in Nat
    BY <2>1, <2>2, <2>3
  <2> QED BY <2>4
<1>11. n \in P
  <2>1. P \in SUBSET Nat /\ n \in 0..n
    BY <1>1
  <2> HIDE DEF P
  <2> QED BY <1>1, <1>9, <1>10, <2>1, Climb
<1> QED BY <1>3, <1>11

\* The events that are about an auction when they start or end one.
AboutAuctions == {e \in Event : e.kind # "other" => e.a \in Auctions}

\* Handling such an event leaves rows.
LEMMA HandledTyped ==
  ASSUME NEW r \in Seq(Row), NEW e \in AboutAuctions
  PROVE  Handled(r, e) \in Seq(Row)
<1>1. Len(r) \in Nat /\ DOMAIN r = 1..Len(r) /\ \A i \in 1..Len(r) : r[i] \in Row
  BY InSet
<1>2. CASE e.kind = "start"
  <2>1. [a |-> e.a, over |-> FALSE] \in Row
    BY <1>2 DEF AboutAuctions, Row
  <2>2. Started(r, e.a) \in Seq(Row)
    BY <2>1, AppendProperties DEF Started
  <2> QED BY <1>2, <2>2 DEF Handled
<1>3. CASE e.kind = "over"
  <2> DEFINE x == CHOOSE i \in {p \in DOMAIN r : r[p].a = e.a} :
                    \A j \in {p \in DOMAIN r : r[p].a = e.a} : i <= j
             q == [r EXCEPT ![x].over = TRUE]
  <2>1. q \in Seq(Row)
    <3> HIDE DEF x
    <3>1. q = [i \in 1..Len(r) |-> IF i = x THEN [r[i] EXCEPT !.over = TRUE] ELSE r[i]]
      BY <1>1
    <3>2. \A i \in 1..Len(r) : [r[i] EXCEPT !.over = TRUE] \in Row
      BY <1>1 DEF Row
    <3>3. q \in [1..Len(r) -> Row]
      BY <1>1, <3>1, <3>2
    <3> HIDE DEF q
    <3> QED BY <1>1, <3>3
  <2>2. WentOver(r, e.a) = r \/ WentOver(r, e.a) = q
    BY DEF WentOver
  <2>3. Handled(r, e) = WentOver(r, e.a)
    BY <1>3 DEF Handled
  <2> HIDE DEF q
  <2> QED BY <2>1, <2>2, <2>3
<1>4. CASE e.kind # "start" /\ e.kind # "over"
  BY <1>4 DEF Handled
<1> QED BY <1>2, <1>3, <1>4

LEMMA HandledSetTyped ==
  ASSUME NEW r \in Seq(Row), NEW s \in Seq(AboutAuctions)
  PROVE  HandledSet(r, s) \in Seq(Row)
<1> DEFINE n == Len(s)
           As(u) == u = [k \in 0..n |-> IF k = 0 THEN r ELSE Handled(u[k - 1], s[k])]
           next == [k \in 1..n |-> [t \in Seq(Row) |-> Handled(t, s[k])]]
           c == CHOOSE u : As(u)
<1>1. n \in Nat /\ \A k \in 1..n : s[k] \in AboutAuctions
  BY InSet
<1>2. HandledSet(r, s) = c[n]
  BY DEF HandledSet
<1> HIDE DEF n
<1>3. next \in [1..n -> [Seq(Row) -> Seq(Row)]]
  <2>1. ASSUME NEW t \in Seq(Row), NEW k \in 1..n PROVE Handled(t, s[k]) \in Seq(Row)
    BY <1>1, HandledTyped
  <2> QED BY <2>1
<1>4. PICK f \in [0..n -> Seq(Row)] : f[0] = r /\ \A k \in 1..n : f[k] = next[k][f[k - 1]]
  <2> DEFINE U == Seq(Row)
  <2>1. n \in Nat /\ r \in U /\ next \in [1..n -> [U -> U]]
    BY <1>1, <1>3
  <2> HIDE DEF next, c, As, U
  <2>2. PICK f : Follows(f, U, r, n, next)
    BY <2>1, Following
  <2> QED BY <2>2 DEF Follows, U
<1>5. As(f)
  <2> DEFINE g == [k \in 0..n |-> IF k = 0 THEN r ELSE Handled(f[k - 1], s[k])]
  <2>1. ASSUME NEW k \in 0..n PROVE f[k] = g[k]
    <3>1. CASE k = 0
      BY <1>4, <3>1
    <3>2. CASE k # 0
      <4>1. k \in 1..n /\ k - 1 \in 0..n
        BY <1>1, <3>2
      <4> DEFINE t == f[k - 1]
      <4>2. t \in Seq(Row) /\ f[k] = next[k][t] /\ g[k] = Handled(t, s[k])
        BY <1>4, <3>2, <4>1
      <4> HIDE DEF t, g
      <4>3. next[k][t] = Handled(t, s[k])
        BY <4>1, <4>2
      <4> QED BY <4>2, <4>3
    <3> QED BY <3>1, <3>2
  <2>2. f = [k \in 0..n |-> f[k]] /\ g = [k \in 0..n |-> g[k]]
    OBVIOUS
  <2> HIDE DEF g
  <2>3. f = g
    BY <2>1, <2>2
  <2> QED BY <2>3 DEF g
<1>6. As(c)
  <2> HIDE DEF As
  <2> QED BY <1>5
<1> DEFINE P == {k \in Nat : c[k] \in Seq(Row)}
<1>7. ASSUME NEW k \in 0..n PROVE c[k] = IF k = 0 THEN r ELSE Handled(c[k - 1], s[k])
  <2> HIDE DEF c
  <2> DEFINE g == [x \in 0..n |-> IF x = 0 THEN r ELSE Handled(c[x - 1], s[x])]
  <2>1. c = g
    BY <1>6
  <2>2. g[k] = IF k = 0 THEN r ELSE Handled(c[k - 1], s[k])
    OBVIOUS
  <2> HIDE DEF g
  <2> QED BY <2>1, <2>2
<1> HIDE DEF c
<1>8. 0 \in P
  BY <1>1, <1>7
<1>9. ASSUME NEW k \in 0..(n - 1), k \in P PROVE k + 1 \in P
  <2>1. k + 1 \in 0..n /\ k + 1 \in 1..n /\ k + 1 # 0 /\ (k + 1) - 1 = k /\ c[k] \in Seq(Row)
    BY <1>1, <1>9
  <2>2. c[k + 1] = Handled(c[k], s[k + 1])
    BY <1>7, <2>1
  <2>3. Handled(c[k], s[k + 1]) \in Seq(Row)
    BY <1>1, <2>1, HandledTyped
  <2> QED BY <2>1, <2>2, <2>3
<1>10. n \in P
  <2>1. P \in SUBSET Nat /\ n \in 0..n
    BY <1>1
  <2> HIDE DEF P
  <2> QED BY <1>1, <1>8, <1>9, <2>1, Climb
<1> QED BY <1>2, <1>10

-----------------------------------------------------------------------------
(* The inductive invariant. Every event that is due and not newer than     *)
(* after is processed or still to be processed (Covered), where an event   *)
(* not processed lies behind older ones only (OldestFirst); so the first   *)
(* set holds the oldest of them, with all of its transaction and of its    *)
(* results that are due. A result that comes later is not at the next      *)
(* timestamp, for a set is processed only when newer events have been read *)
(* (SetsWaited), and it finds its transaction processed (ResultsLast).     *)

Typed == TypeOK /\ GoodTable(table)

\* What is still to be processed of what has been read.
Pending == IF pc \in {"first", "second", "final"} THEN todo ELSE carried

\* What is at hand was read from the table, and no later than after; what is
\* read ahead is newer.
InHand ==
    /\ \A e \in ToSet(batch) \cup ToSet(todo) \cup ToSet(carried) : e \in ToSet(table) /\ e.ts <= after
    /\ \A e \in ToSet(fetched.events) : e \in ToSet(table) /\ e.ts > after
    /\ Sorted(batch) /\ Sorted(fetched.events)
    /\ pc \in {"first", "second", "flush"} => ~fetched.read

\* What is read for good by the read ahead is in the batch it will give.
Ahead ==
    pc = "await" =>
        /\ MoreToRead
        /\ fetched.read => \A e \in ToSet(table) :
             Due(e) /\ e.ts > after /\ Passed(e.ts)
             => fetched.events # <<>> /\ e \in ToSet(Sliced(fetched.events).batch)

\* What has been read is processed, or will be; at the end, everything has been.
Covered ==
    /\ \A e \in ToSet(table) : Due(e) /\ e.ts <= after => e.n \in Processed \/ e \in ToSet(Pending)
    /\ pc \in {"final", "save", "done"} => \A e \in ToSet(table) : Due(e) => e.ts <= after
    /\ pc \in {"save", "done"} => carried = <<>>
    /\ pc = "first" => \A e \in ToSet(batch) : e.n \in Processed \/ e \in ToSet(todo)

\* An event that was not processed lies after older ones only, at least once.
OldestFirst ==
    \A e \in ToSet(Pending) : e.n \notin Processed =>
        \E p \in DOMAIN Pending : Pending[p] = e /\ \A j \in 1..p : Pending[j].ts <= e.ts

First(e, i) == /\ i \in DOMAIN sets /\ e.n \in sets[i]
               /\ \A j \in 1..(i - 1) : e.n \notin sets[j]

Together(e, f) == e.tx = f.tx \/ (f.orig = e.tx /\ NextTo(e.ts, f.ts))

\* The sets are of events read.
SetsRead == \A i \in DOMAIN sets : \A n \in sets[i] : \E e \in ToSet(table) : e.n = n /\ e.ts <= after

\* Before the end, the events of a transaction that may have results are not
\* processed until events newer than them have been read.
SetsWaited ==
    pc \in {"await", "first", "second", "flush"} =>
        \A e \in ToSet(table) : e.n \in Processed =>
            e.orig # None \/ \E g \in ToSet(table) : e.ts < g.ts /\ g.ts <= after

SetsWhole ==
    \A e, f \in ToSet(table) : Due(e) /\ Due(f) /\ Together(e, f) =>
        \A i \in DOMAIN sets : First(e, i) => f.n \in sets[i]

\* No result is processed before its transaction.
ResultsLast ==
    \A e, f \in ToSet(table) :
        Due(e) /\ Due(f) /\ f.orig = e.tx /\ e.ts < f.ts /\ f.n \in Processed => e.n \in Processed

SetsByTime ==
    \A i \in DOMAIN sets : \E f \in ToSet(table) :
        /\ f.n \in sets[i] /\ f.ts <= after
        /\ \A e \in ToSet(table) : Due(e) /\ (\A j \in 1..i : e.n \notin sets[j]) => f.ts <= e.ts

Sets == SetsRead /\ SetsWaited /\ SetsWhole /\ ResultsLast /\ SetsByTime

IInv == Typed /\ InHand /\ Ahead /\ Covered /\ OldestFirst /\ Sets

-----------------------------------------------------------------------------

\* The types the proofs cite.
LEMMA Basics ==
  ASSUME Typed
  PROVE  /\ table \in Seq(Event) /\ batch \in Seq(Event) /\ todo \in Seq(Event) /\ carried \in Seq(Event)
         /\ fetched.events \in Seq(Event) /\ fetched.read \in BOOLEAN
         /\ before \in Nat /\ after \in Nat /\ pc \in Places /\ Pending \in Seq(Event)
         /\ \A e \in ToSet(table) : e \in Event /\ e.ts \in Nat
         /\ sets \in Seq(SUBSET Transactions) /\ Len(sets) \in Nat /\ DOMAIN sets = 1..Len(sets)
<1>1. /\ table \in Seq(Event) /\ batch \in Seq(Event) /\ todo \in Seq(Event) /\ carried \in Seq(Event)
      /\ after \in Nat /\ pc \in Places /\ before \in Befores
      /\ fetched \in [read : BOOLEAN, events : Seq(Event)] /\ sets \in Seq(SUBSET Transactions)
  BY DEF Typed, TypeOK
<1>2. \A e \in ToSet(table) : e \in Event /\ e.ts \in Nat
  BY <1>1, InSet, EventTyped
<1>3. before \in Nat
  BY <1>1, ReindexAssumption
<1>4. Len(sets) \in Nat /\ DOMAIN sets = 1..Len(sets)
  BY <1>1, LenProperties
<1> QED BY <1>1, <1>2, <1>3, <1>4 DEF Pending

\* Events of the table are told apart by their ids.
LEMMA ByNumber ==
  ASSUME Typed, NEW e \in ToSet(table), NEW f \in ToSet(table), e.n = f.n
  PROVE  e = f
<1>1. table \in Seq(Event) /\ DOMAIN table = 1..Len(table)
  BY Basics, InSet
<1>2. PICK i, j \in 1..Len(table) : table[i] = e /\ table[j] = f
  BY <1>1, InSet
<1>3. i = j
  BY <1>1, <1>2 DEF Typed, GoodTable
<1> QED BY <1>2, <1>3

LEMMA InProcessed ==
  ASSUME sets \in Seq(SUBSET Transactions)
  PROVE  \A n : n \in Processed <=> \E i \in 1..Len(sets) : n \in sets[i]
<1>1. Processed = UNION {sets[i] : i \in 1..Len(sets)}
  BY InSet DEF Processed, ToSet
<1> QED BY <1>1

\* An event that was processed was so in a first set.
LEMMA SomeFirst ==
  ASSUME Typed, NEW e, e.n \in Processed
  PROVE  \E i \in DOMAIN sets : First(e, i)
<1>1. sets \in Seq(SUBSET Transactions) /\ DOMAIN sets = 1..Len(sets) /\ Len(sets) \in Nat
  BY Basics
<1> DEFINE N == {i \in 1..Len(sets) : e.n \in sets[i]}
<1>2. N # {}
  BY <1>1, InProcessed
<1>3. PICK m \in N : \A i \in N : m <= i
  <2>1. N \in SUBSET Nat
    BY <1>1
  <2> HIDE DEF N
  <2> QED BY <1>2, <2>1, Smallest
<1>4. \A j \in 1..(m - 1) : e.n \notin sets[j]
  BY <1>1, <1>3
<1> QED BY <1>1, <1>3, <1>4 DEF First

LEMMA FirstUnique ==
  ASSUME Typed, NEW e, NEW i, NEW j, First(e, i), First(e, j)
  PROVE  i = j
<1>1. i \in Nat /\ j \in Nat /\ i >= 1 /\ j >= 1
  BY Basics DEF First
<1>2. ~(i < j)
  <2>1. i < j => i \in 1..(j - 1)
    BY <1>1
  <2> QED BY <2>1 DEF First
<1>3. ~(j < i)
  <2>1. j < i => j \in 1..(i - 1)
    BY <1>1
  <2> QED BY <2>1 DEF First
<1> QED BY <1>1, <1>2, <1>3

\* What the steps that leave the table alone do not change.
LEMMA SameDue ==
  ASSUME UNCHANGED <<table, before, late>>
  PROVE  /\ \A e : Due(e)' <=> Due(e)
         /\ \A e, f : Together(e, f)' <=> Together(e, f)
<1>1. \A ts : Crowded(ts)' <=> Crowded(ts)
  <2> TAKE ts
  <2>1. {e \in ToSet(table) : e.ts = ts}' = {e \in ToSet(table) : e.ts = ts}
    OBVIOUS
  <2> QED BY <2>1 DEF Crowded
<1>2. \A e : Due(e)' <=> Due(e)
  BY <1>1 DEF Due
<1>3. \A s, t : NextTo(s, t)' <=> NextTo(s, t)
  BY DEF NextTo
<1> QED BY <1>2, <1>3 DEF Together

LEMMA SameSets ==
  ASSUME Sets, UNCHANGED <<table, before, late, after, sets>>,
         pc' \in {"await", "first", "second", "flush"} => pc \in {"await", "first", "second", "flush"}
  PROVE  Sets'
<1>1. /\ \A e : Due(e)' <=> Due(e)
      /\ \A e, f : Together(e, f)' <=> Together(e, f)
  BY SameDue
<1>2. Processed' = Processed /\ \A e, i : First(e, i)' <=> First(e, i)
  BY DEF Processed, First
<1>3. SetsRead'
  BY DEF Sets, SetsRead
<1>4. SetsWaited'
  BY <1>2 DEF Sets, SetsWaited
<1>5. SetsWhole'
  BY <1>1, <1>2 DEF Sets, SetsWhole
<1>6. ResultsLast'
  BY <1>1, <1>2 DEF Sets, ResultsLast
<1>7. SetsByTime'
  BY <1>1 DEF Sets, SetsByTime
<1> QED BY <1>3, <1>4, <1>5, <1>6, <1>7 DEF Sets

-----------------------------------------------------------------------------
(* The steps.                                                              *)

LEMMA ReadStep ==
  ASSUME IInv, Read
  PROVE  IInv'
<1>1. /\ pc = "await" /\ fetched' = [read |-> TRUE, events |-> Query(after)]
      /\ UNCHANGED <<table, before, pc, after, batch, todo, carried, rows, saved, sets, late>>
  BY DEF Read
<1>2. after \in Nat /\ before \in Nat /\ GoodTable(table) /\ Typed
  BY Basics DEF IInv, Typed
<1>0. PICK q : q = Query(after)
  OBVIOUS
<1>3. /\ q \in Seq(Event) /\ Sorted(q)
      /\ \A e \in ToSet(q) : e \in ToSet(table) /\ e.ts > after
  BY <1>0, <1>2, QueryIs
<1>4. \A e : Due(e)' <=> Due(e)
  BY <1>1, SameDue
<1>5. Processed' = Processed /\ Pending' = Pending
  BY <1>1 DEF Processed, Pending
<1>6. fetched'.read = TRUE /\ fetched'.events = q /\ fetched' \in [read : BOOLEAN, events : Seq(Event)]
  BY <1>0, <1>1, <1>3
<1>7. Typed'
  BY <1>1, <1>2, <1>6 DEF Typed, TypeOK
<1>8. InHand'
  BY <1>1, <1>3, <1>6 DEF IInv, InHand
<1>9. Ahead'
  <2>1. MoreToRead'
    BY <1>1 DEF IInv, Ahead, MoreToRead
  <2>2. ASSUME NEW e \in ToSet(table), Due(e), e.ts > after, Passed(e.ts)'
        PROVE  q # <<>> /\ e \in ToSet(Sliced(q)'.batch)
    <3>1. Sliced(q)' = Sliced(q)
      <4>1. \A w : OlderOf(w)' = OlderOf(w)
        BY <1>1 DEF OlderOf
      <4> QED BY <1>1, <4>1 DEF Sliced
    <3>2. e.ts \in Nat
      BY <1>2, Basics
    <3>3. q = <<>> \/ e.ts <= Sliced(q).after
      <4>1. \/ e.ts <= after'
            \/ fetched'.events = <<>> \/ e.ts <= Sliced(q)'.after
        BY <1>6, <2>2 DEF Passed
      <4> QED BY <1>1, <1>2, <1>6, <2>2, <3>1, <3>2, <4>1
    <3> QED BY <1>0, <1>2, <2>2, <3>1, <3>3, QueryComplete
  <2> QED BY <1>1, <1>4, <1>6, <2>1, <2>2 DEF Ahead
<1>10. Covered'
  BY <1>1, <1>4, <1>5 DEF IInv, Covered
<1>11. OldestFirst'
  BY <1>1, <1>5 DEF IInv, OldestFirst
<1>12. Sets'
  BY <1>1, SameSets DEF IInv
<1> QED BY <1>7, <1>8, <1>9, <1>10, <1>11, <1>12 DEF IInv

LEMMA NoMoreStep ==
  ASSUME IInv, NoMore
  PROVE  IInv'
<1>1. /\ pc = "await" /\ fetched.read /\ fetched.events = <<>> /\ todo' = carried /\ pc' = "final"
      /\ UNCHANGED <<table, before, fetched, after, batch, carried, rows, saved, sets, late>>
  BY DEF NoMore
<1>2. Typed /\ \A e : Due(e)' <=> Due(e)
  BY <1>1, SameDue DEF IInv
<1>3. Processed' = Processed /\ Pending' = Pending
  BY <1>1 DEF Processed, Pending
<1>4. Typed'
  BY <1>1 DEF IInv, Typed, TypeOK, Places
<1>5. InHand'
  BY <1>1 DEF IInv, InHand
<1>6. Ahead'
  BY <1>1 DEF Ahead
<1>7. Covered'
  <2>1. ASSUME NEW e \in ToSet(table), Due(e) PROVE e.ts <= after
    <3>1. Passed(e.ts)
      BY <1>1 DEF Passed
    <3>2. e.ts \in Nat /\ after \in Nat
      BY <1>2, Basics
    <3> QED BY <1>1, <2>1, <3>1, <3>2 DEF IInv, Ahead
  <2> QED BY <1>1, <1>2, <1>3, <2>1 DEF IInv, Covered
<1>8. OldestFirst'
  BY <1>1, <1>3 DEF IInv, OldestFirst
<1>9. Sets'
  BY <1>1, SameSets DEF IInv
<1> QED BY <1>4, <1>5, <1>6, <1>7, <1>8, <1>9 DEF IInv

LEMMA FlushStep ==
  ASSUME IInv, Flush
  PROVE  IInv'
<1>1. /\ pc = "flush" /\ Insertable(Over(rows))
      /\ saved' = saved \cup {r.a : r \in ToSet(Over(rows))} /\ rows' = NotOver(rows)
      /\ IF MoreToRead THEN pc' = "await" /\ todo' = todo ELSE pc' = "final" /\ todo' = carried
      /\ UNCHANGED <<table, before, fetched, after, batch, carried, sets, late>>
  BY DEF Flush
<1>2. Typed /\ \A e : Due(e)' <=> Due(e)
  BY <1>1, SameDue DEF IInv
<1>3. Processed' = Processed /\ Pending' = Pending
  BY <1>1 DEF Processed, Pending
<1>4. Typed'
  <2>1. rows \in Seq(Row)
    BY <1>2 DEF Typed, TypeOK
  <2>2. Over(rows) \in Seq(Row) /\ NotOver(rows) \in Seq(Row)
    BY <2>1, KeptIs DEF Over, NotOver
  <2>3. \A r \in ToSet(Over(rows)) : r.a \in Auctions
    <3>1. ToSet(Over(rows)) \subseteq Row
      BY <2>2, InSet
    <3> QED BY <3>1 DEF Row
  <2>4. saved' \subseteq Auctions
    BY <1>1, <1>2, <2>3 DEF Typed, TypeOK
  <2> QED BY <1>1, <1>2, <2>2, <2>4 DEF Typed, TypeOK, Places
<1>5. InHand'
  BY <1>1 DEF IInv, InHand
<1>6. Ahead'
  <2>1. MoreToRead' = MoreToRead
    BY <1>1 DEF MoreToRead
  <2>2. ~fetched.read
    BY <1>1 DEF IInv, InHand
  <2> QED BY <1>1, <2>1, <2>2 DEF Ahead
<1>7. Covered'
  <2>1. ASSUME NEW e \in ToSet(table), Due(e), ~MoreToRead PROVE e.ts <= after
    <3>1. e.ts \in Nat /\ after \in Nat /\ before \in Nat
      BY <1>2, Basics
    <3> QED BY <2>1, <3>1 DEF Due, MoreToRead
  <2> QED BY <1>1, <1>2, <1>3, <2>1 DEF IInv, Covered
<1>8. OldestFirst'
  BY <1>1, <1>3 DEF IInv, OldestFirst
<1>9. Sets'
  BY <1>1, SameSets DEF IInv
<1> QED BY <1>4, <1>5, <1>6, <1>7, <1>8, <1>9 DEF IInv

LEMMA SaveStep ==
  ASSUME IInv, Save
  PROVE  IInv'
<1>1. /\ pc = "save" /\ saved' = saved \cup {r.a : r \in ToSet(rows)} /\ pc' = "done"
      /\ UNCHANGED <<table, before, fetched, after, batch, todo, carried, rows, sets, late>>
  BY DEF Save
<1>2. Typed /\ \A e : Due(e)' <=> Due(e)
  BY <1>1, SameDue DEF IInv
<1>3. Processed' = Processed /\ Pending' = Pending
  BY <1>1 DEF Processed, Pending
<1>4. Typed'
  <2>1. rows \in Seq(Row)
    BY <1>2 DEF Typed, TypeOK
  <2>2. \A r \in ToSet(rows) : r.a \in Auctions
    <3>1. ToSet(rows) \subseteq Row
      BY <2>1, InSet
    <3> QED BY <3>1 DEF Row
  <2> QED BY <1>1, <1>2, <2>2 DEF Typed, TypeOK, Places
<1>5. InHand'
  BY <1>1 DEF IInv, InHand
<1>6. Ahead'
  BY <1>1 DEF Ahead
<1>7. Covered'
  BY <1>1, <1>2, <1>3 DEF IInv, Covered
<1>8. OldestFirst'
  BY <1>1, <1>3 DEF IInv, OldestFirst
<1>9. Sets'
  BY <1>1, SameSets DEF IInv
<1> QED BY <1>4, <1>5, <1>6, <1>7, <1>8, <1>9 DEF IInv

LEMMA SaveFailsStep ==
  ASSUME IInv, SaveFails
  PROVE  IInv'
<1>1. /\ pc \in {"flush", "save"} /\ pc' = "failed"
      /\ UNCHANGED <<table, before, fetched, after, batch, todo, carried, rows, saved, sets, late>>
  BY DEF SaveFails
<1>2. Typed /\ \A e : Due(e)' <=> Due(e)
  BY <1>1, SameDue DEF IInv
<1>3. Processed' = Processed /\ Pending' = Pending
  BY <1>1 DEF Processed, Pending
<1>4. Typed'
  BY <1>1, <1>2 DEF Typed, TypeOK, Places
<1>5. InHand'
  BY <1>1 DEF IInv, InHand
<1>6. Ahead'
  BY <1>1 DEF Ahead
<1>7. Covered'
  BY <1>1, <1>2, <1>3 DEF IInv, Covered
<1>8. OldestFirst'
  BY <1>1, <1>3 DEF IInv, OldestFirst
<1>9. Sets'
  BY <1>1, SameSets DEF IInv
<1> QED BY <1>4, <1>5, <1>6, <1>7, <1>8, <1>9 DEF IInv

LEMMA PassEndsStep ==
  ASSUME IInv, PassEnds
  PROVE  IInv'
<1>1. /\ pc \in {"first", "second", "final"} /\ (todo = <<>> \/ pc # "final")
      /\ carried' = todo
      /\ \/ pc = "first"  /\ pc' = "second" /\ todo' = todo \o batch
         \/ pc = "second" /\ pc' = "flush"  /\ todo' = <<>>
         \/ pc = "final"  /\ pc' = "save"   /\ todo' = <<>>
      /\ UNCHANGED <<table, before, fetched, after, batch, rows, saved, sets, late>>
  BY DEF PassEnds, MustWait, Joined
<1>2. Typed /\ \A e : Due(e)' <=> Due(e)
  BY <1>1, SameDue DEF IInv
<1>3. Processed' = Processed /\ Pending = todo
  BY <1>1 DEF Processed, Pending
<1>4. /\ todo \in Seq(Event) /\ batch \in Seq(Event)
      /\ todo \o batch \in Seq(Event) /\ ToSet(todo \o batch) = ToSet(todo) \cup ToSet(batch)
  BY <1>2, Basics, JoinSet
<1>5. Pending' = IF pc = "first" THEN todo \o batch ELSE todo
  BY <1>1 DEF Pending
<1>6. ToSet(<<>>) = {} /\ <<>> \in Seq(Event)
  BY DEF ToSet
<1>7. Typed'
  BY <1>1, <1>2, <1>4, <1>6 DEF Typed, TypeOK, Places
<1>8. InHand'
  <2>1. ToSet(todo)' \subseteq ToSet(todo) \cup ToSet(batch) /\ ToSet(carried)' = ToSet(todo)
    BY <1>1, <1>4, <1>6
  <2> QED BY <1>1, <2>1 DEF IInv, InHand
<1>9. Ahead'
  BY <1>1 DEF Ahead
<1>10. Covered'
  BY <1>1, <1>2, <1>3, <1>4, <1>5 DEF IInv, Covered
<1>11. OldestFirst'
  <2>1. CASE pc = "first"
    <3> SUFFICES ASSUME NEW e \in ToSet(todo \o batch), e.n \notin Processed
                 PROVE  \E p \in DOMAIN (todo \o batch) :
                          (todo \o batch)[p] = e /\ \A j \in 1..p : (todo \o batch)[j].ts <= e.ts
      BY <1>3, <1>5, <2>1 DEF OldestFirst
    <3>1. e \in ToSet(todo)
      BY <1>4, <2>1 DEF IInv, Covered
    <3>2. PICK p \in DOMAIN todo : todo[p] = e /\ \A j \in 1..p : todo[j].ts <= e.ts
      BY <1>3, <3>1 DEF IInv, OldestFirst
    <3> DEFINE c == todo \o batch
    <3>3. /\ Len(todo) \in Nat /\ Len(batch) \in Nat /\ DOMAIN todo = 1..Len(todo)
          /\ DOMAIN c = 1..Len(c)
      BY <1>4, InSet
    <3>4. Len(c) = Len(todo) + Len(batch) /\ \A i \in 1..Len(todo) : c[i] = todo[i]
      <4>1. \A i \in 1..(Len(todo) + Len(batch)) : c[i] = IF i <= Len(todo) THEN todo[i] ELSE batch[i - Len(todo)]
        BY <1>4, ConcatProperties
      <4>2. Len(c) = Len(todo) + Len(batch)
        BY <1>4, ConcatProperties
      <4> HIDE DEF c
      <4> QED BY <3>3, <4>1, <4>2
    <3> HIDE DEF c
    <3>5. p \in DOMAIN c /\ 1..p \subseteq 1..Len(todo)
      BY <3>2, <3>3, <3>4
    <3>6. c[p] = e /\ \A j \in 1..p : c[j].ts <= e.ts
      BY <3>2, <3>3, <3>4, <3>5
    <3>7. \E x \in DOMAIN c : c[x] = e /\ \A j \in 1..x : c[j].ts <= e.ts
      BY <3>5, <3>6
    <3> QED BY <3>7 DEF c
  <2>2. CASE pc # "first"
    BY <1>3, <1>5, <2>2 DEF IInv, OldestFirst
  <2> QED BY <2>1, <2>2
<1>12. Sets'
  BY <1>1, SameSets DEF IInv
<1> QED BY <1>7, <1>8, <1>9, <1>10, <1>11, <1>12 DEF IInv

LEMMA TakeStep ==
  ASSUME IInv, Take
  PROVE  IInv'
<1>0. PICK b : b = fetched.events
  OBVIOUS
<1>1. PICK s : s = Sliced(b)
  OBVIOUS
<1>2. /\ pc = "await" /\ fetched.read /\ b # <<>>
      /\ batch' = s.batch /\ after' = s.after /\ todo' = carried \o s.batch
      /\ fetched' = [read |-> FALSE, events |-> <<>>] /\ pc' = "first"
      /\ UNCHANGED <<table, before, carried, rows, saved, sets, late>>
  BY <1>0, <1>1 DEF Take, Joined, Unread
<1>3. Typed /\ (\A e : Due(e)' <=> Due(e)) /\ (\A e, f : Together(e, f)' <=> Together(e, f))
  BY <1>2, SameDue DEF IInv
<1>4. Processed' = Processed /\ Pending = carried /\ Pending' = carried \o s.batch
  BY <1>2 DEF Processed, Pending
<1>5. /\ b \in Seq(Event) /\ Sorted(b) /\ carried \in Seq(Event)
      /\ \A e \in ToSet(b) : e \in ToSet(table) /\ e.ts > after
      /\ \A e \in ToSet(carried) : e \in ToSet(table) /\ e.ts <= after
  BY <1>0, <1>3, Basics DEF IInv, InHand
<1>6. after \in Nat /\ before \in Nat
  BY <1>3, Basics
<1>7. /\ s.batch \in Seq(Event) /\ Sorted(s.batch) /\ ToSet(s.batch) \subseteq ToSet(b)
      /\ s.after \in Nat
      /\ \A e \in ToSet(s.batch) : e.ts <= s.after
      /\ \/ before # None /\ s.after = before
         \/ \E e \in ToSet(b) : s.after = e.ts
  BY <1>1, <1>2, <1>5, <1>6, SlicedIs
<1>8. after < s.after
  <2>1. MoreToRead
    BY <1>2 DEF IInv, Ahead
  <2> QED BY <1>5, <1>6, <1>7, <2>1 DEF MoreToRead
<1>9. /\ carried \o s.batch \in Seq(Event)
      /\ ToSet(carried \o s.batch) = ToSet(carried) \cup ToSet(s.batch)
  BY <1>5, <1>7, JoinSet
<1>10. ToSet(<<>>) = {} /\ <<>> \in Seq(Event) /\ DOMAIN <<>> = {}
  BY DEF ToSet
<1>11. \A e \in ToSet(table) : e.ts \in Nat
  BY <1>3, Basics
<1>12. Typed'
  BY <1>2, <1>3, <1>7, <1>9, <1>10 DEF Typed, TypeOK, Places
<1>13. InHand'
  <2>1. \A e \in ToSet(carried) \cup ToSet(s.batch) : e \in ToSet(table) /\ e.ts <= s.after
    BY <1>5, <1>6, <1>7, <1>8, <1>11
  <2>2. Sorted(<<>>)
    BY <1>10 DEF Sorted
  <2> QED BY <1>2, <1>7, <1>9, <1>10, <2>1, <2>2 DEF InHand
<1>14. Ahead'
  BY <1>2 DEF Ahead
<1>15. Covered'
  <2>1. ASSUME NEW e \in ToSet(table), Due(e), e.ts <= s.after
        PROVE  e.n \in Processed \/ e \in ToSet(carried) \cup ToSet(s.batch)
    <3>1. CASE e.ts <= after
      BY <1>4, <2>1, <3>1 DEF IInv, Covered
    <3>2. CASE e.ts > after
      <4>1. Passed(e.ts)
        BY <1>0, <1>1, <1>2, <2>1 DEF Passed
      <4> QED BY <1>0, <1>1, <1>2, <2>1, <3>2, <4>1 DEF IInv, Ahead
    <3> QED BY <1>6, <1>11, <3>1, <3>2
  <2> QED BY <1>2, <1>3, <1>4, <1>9, <2>1 DEF Covered
<1>16. OldestFirst'
  <2>1. PICK c : c = carried \o s.batch
    OBVIOUS
  <2>2. /\ Len(carried) \in Nat /\ Len(s.batch) \in Nat /\ DOMAIN carried = 1..Len(carried)
        /\ DOMAIN s.batch = 1..Len(s.batch) /\ DOMAIN c = 1..Len(c)
    BY <1>5, <1>7, <1>9, <2>1, InSet
  <2>3. /\ Len(c) = Len(carried) + Len(s.batch)
        /\ \A i \in 1..Len(c) : c[i] = IF i <= Len(carried) THEN carried[i] ELSE s.batch[i - Len(carried)]
    BY <1>5, <1>7, <2>1, ConcatProperties
  <2> SUFFICES ASSUME NEW e \in ToSet(c), e.n \notin Processed
               PROVE  \E p \in DOMAIN c : c[p] = e /\ \A j \in 1..p : c[j].ts <= e.ts
    BY <1>4, <2>1 DEF OldestFirst
  <2>4. CASE e \in ToSet(carried)
    <3>1. PICK p \in DOMAIN carried : carried[p] = e /\ \A j \in 1..p : carried[j].ts <= e.ts
      BY <1>4, <2>4 DEF IInv, OldestFirst
    <3>2. p \in DOMAIN c /\ \A j \in 1..p : j \in 1..Len(c) /\ j <= Len(carried)
      BY <2>2, <2>3, <3>1
    <3>3. c[p] = e /\ \A j \in 1..p : c[j] = carried[j]
      BY <2>2, <2>3, <3>1, <3>2
    <3> QED BY <3>1, <3>2, <3>3
  <2>5. CASE e \in ToSet(s.batch)
    <3>1. PICK x \in 1..Len(s.batch) : s.batch[x] = e
      BY <1>7, <2>5, InSet
    <3>2. PICK p : p = Len(carried) + x
      OBVIOUS
    <3>3. /\ p \in 1..Len(c) /\ p \in Nat /\ ~(p <= Len(carried)) /\ p - Len(carried) = x
          /\ \A j \in 1..p : j \in 1..Len(c)
      BY <2>2, <2>3, <3>2
    <3>4. c[p] = e
      BY <2>3, <3>1, <3>3
    <3>5. ASSUME NEW j \in 1..p PROVE c[j].ts <= e.ts
      <4>1. CASE j <= Len(carried)
        <5>1. c[j] = carried[j] /\ j \in 1..Len(carried)
          BY <2>2, <2>3, <3>3, <4>1
        <5>2. c[j] \in ToSet(carried)
          BY <1>5, <5>1, InSet
        <5>3. c[j].ts <= after /\ c[j].ts \in Nat /\ e.ts \in Nat /\ after < e.ts
          BY <1>5, <1>7, <1>11, <2>5, <5>2
        <5> QED BY <1>6, <5>3
      <4>2. CASE ~(j <= Len(carried))
        <5>1. j - Len(carried) \in 1..Len(s.batch) /\ j - Len(carried) <= x
          BY <2>2, <2>3, <3>2, <3>3, <4>2
        <5>2. c[j] = s.batch[j - Len(carried)]
          BY <2>3, <3>3, <4>2
        <5> QED BY <1>7, <2>2, <3>1, <5>1, <5>2 DEF Sorted
      <4> QED BY <4>1, <4>2
    <3> QED BY <2>2, <3>3, <3>4, <3>5
  <2> QED BY <1>9, <2>1, <2>4, <2>5
<1>17. Sets'
  <2>1. \A e, i : First(e, i)' <=> First(e, i)
    BY <1>2 DEF First
  <2>2. \A e \in ToSet(table) : e.ts <= after => e.ts <= s.after
    BY <1>6, <1>7, <1>8, <1>11
  <2>3. SetsRead'
    BY <1>2, <2>2 DEF IInv, Sets, SetsRead
  <2>4. SetsWaited'
    BY <1>2, <1>4, <2>2 DEF IInv, Sets, SetsWaited
  <2>5. SetsWhole'
    BY <1>2, <1>3, <2>1 DEF IInv, Sets, SetsWhole
  <2>6. ResultsLast'
    BY <1>2, <1>3, <1>4 DEF IInv, Sets, ResultsLast
  <2>7. SetsByTime'
    BY <1>2, <1>3, <2>2 DEF IInv, Sets, SetsByTime
  <2> QED BY <2>3, <2>4, <2>5, <2>6, <2>7 DEF Sets
<1> QED BY <1>12, <1>13, <1>14, <1>15, <1>16, <1>17 DEF IInv

\* The history gets the set of a step, if it has an event never processed.
LEMMA NotedIs ==
  ASSUME sets \in Seq(SUBSET Transactions), NEW s \in SUBSET Transactions, sets' = Noted(s)
  PROVE  /\ sets' \in Seq(SUBSET Transactions)
         /\ Processed' = Processed \cup s
         /\ \A i \in 1..Len(sets) : i \in 1..Len(sets') /\ sets'[i] = sets[i]
         /\ \A i \in 1..Len(sets') : \/ i \in 1..Len(sets)
                                     \/ i = Len(sets) + 1 /\ sets'[i] = s
<1>1. Len(sets) \in Nat /\ ToSet(sets) = {sets[i] : i \in 1..Len(sets)}
  BY InSet DEF ToSet
<1>2. CASE s \subseteq UNION ToSet(sets)
  <2>1. sets' = sets
    BY <1>2 DEF Noted
  <2>2. Processed' = UNION ToSet(sets)
    BY <2>1 DEF Processed
  <2>3. Processed = UNION ToSet(sets)
    BY DEF Processed
  <2> QED BY <1>2, <2>1, <2>2, <2>3
<1>3. CASE ~(s \subseteq UNION ToSet(sets))
  <2>1. PICK r : r = Append(sets, s)
    OBVIOUS
  <2>2. sets' = r
    BY <1>3, <2>1 DEF Noted
  <2>3. /\ r \in Seq(SUBSET Transactions) /\ Len(r) = Len(sets) + 1
        /\ \A i \in 1..Len(sets) : r[i] = sets[i]
        /\ r[Len(sets) + 1] = s
    BY <2>1, AppendProperties
  <2>4. \A i \in 1..Len(r) : i \in 1..Len(sets) \/ i = Len(sets) + 1
    BY <1>1, <2>3
  <2>5. \A i \in 1..Len(sets) : i \in 1..Len(r)
    BY <1>1, <2>3
  <2>6. ToSet(r) = ToSet(sets) \cup {s}
    <3>1. ToSet(r) = {r[i] : i \in 1..Len(r)}
      BY <2>3, InSet DEF ToSet
    <3>2. Len(sets) + 1 \in 1..Len(r)
      BY <1>1, <2>3
    <3> QED BY <1>1, <2>3, <2>4, <2>5, <3>1, <3>2
  <2>7. UNION ToSet(r) = (UNION ToSet(sets)) \cup s
    BY <2>6
  <2>8. Processed' = UNION ToSet(r) /\ Processed = UNION ToSet(sets)
    BY <2>2 DEF Processed
  <2>9. \A i \in 1..Len(r) : i \in 1..Len(sets) \/ (i = Len(sets) + 1 /\ r[i] = s)
    BY <2>3, <2>4
  <2> QED BY <2>2, <2>3, <2>5, <2>7, <2>8, <2>9
<1> QED BY <1>2, <1>3

\* The set of the first transaction, and what is left.
LEMMA FirstSetIs ==
  ASSUME todo \in Seq(Event)
  PROVE  /\ FirstSet \in Seq(Event) /\ Rest \in Seq(Event)
         /\ \A e : e \in ToSet(FirstSet) <=> e \in ToSet(todo) /\ SameSet(e, todo[1].tx)
         /\ \A e : e \in ToSet(Rest) <=> e \in ToSet(todo) /\ ~SameSet(e, todo[1].tx)
<1>1. PICK x : x = todo[1].tx
  OBVIOUS
<1> DEFINE A == {e \in ToSet(todo) : SameSet(e, x)}
           B == {e \in ToSet(todo) : ~SameSet(e, x)}
<1>2. FirstSet = Kept(todo, A) /\ Rest = Kept(todo, B)
  BY <1>1 DEF FirstSet, Rest
<1>3. /\ \A e : e \in A <=> e \in ToSet(todo) /\ SameSet(e, x)
      /\ \A e : e \in B <=> e \in ToSet(todo) /\ ~SameSet(e, x)
  OBVIOUS
<1> HIDE DEF A, B
<1>4. /\ Kept(todo, A) \in Seq(Event) /\ ToSet(Kept(todo, A)) = ToSet(todo) \cap A
      /\ Kept(todo, B) \in Seq(Event) /\ ToSet(Kept(todo, B)) = ToSet(todo) \cap B
  BY KeptIs, KeptSet
<1> QED BY <1>1, <1>2, <1>3, <1>4

\* The rows after a set of events of the table.
LEMMA RowsTyped ==
  ASSUME IInv, pc \in {"first", "second", "final"}
  PROVE  HandledSet(rows, InOrderOfEvents(FirstSet)) \in Seq(Row)
<1>1. Typed /\ todo \in Seq(Event) /\ rows \in Seq(Row)
  BY Basics DEF IInv, Typed, TypeOK
<1>2. FirstSet \in Seq(Event) /\ \A e \in ToSet(FirstSet) : e \in ToSet(table)
  BY <1>1, FirstSetIs DEF IInv, InHand
<1>3. \A e \in ToSet(table) : e \in AboutAuctions
  BY <1>1, Basics DEF Typed, GoodTable, AboutAuctions
<1>4. FirstSet \in Seq(AboutAuctions)
  <2>1. \A i \in 1..Len(FirstSet) : FirstSet[i] \in AboutAuctions
    BY <1>2, <1>3, InSet
  <2>2. FirstSet \in [1..Len(FirstSet) -> AboutAuctions] /\ Len(FirstSet) \in Nat
    BY <1>2, <2>1, LenProperties
  <2> QED BY <2>2
<1>5. InOrderOfEvents(FirstSet) \in Seq(AboutAuctions)
  BY <1>4, InOrderTyped
<1> QED BY <1>1, <1>5, HandledSetTyped

\* What processing a set leaves to be processed is in the same order.
LEMMA RestOldestFirst ==
  ASSUME IInv, pc \in {"first", "second", "final"},
         NEW e \in ToSet(Rest), e.n \notin Processed
  PROVE  \E p \in DOMAIN Rest : Rest[p] = e /\ \A j \in 1..p : Rest[j].ts <= e.ts
<1>1. Typed /\ todo \in Seq(Event) /\ Pending = todo
  BY Basics DEF IInv, Pending
<1>2. Rest \in Seq(Event) /\ e \in ToSet(todo)
  BY <1>1, FirstSetIs
<1> DEFINE kept == {g \in ToSet(todo) : ~SameSet(g, todo[1].tx)}
<1>3. Rest = Kept(todo, kept) /\ e \in kept
  <2>1. Rest = Kept(todo, kept)
    BY DEF Rest
  <2>2. ~SameSet(e, todo[1].tx)
    BY <1>1, FirstSetIs
  <2> QED BY <1>2, <2>1, <2>2
<1> HIDE DEF kept
<1>4. PICK m \in [1..Len(Rest) -> 1..Len(todo)] :
        /\ LiesAs(m, Rest, todo, kept)
        /\ \A j \in 1..Len(todo) : todo[j] \in kept => \E i \in 1..Len(Rest) : m[i] = j
  BY <1>1, <1>3, KeptIs
<1>5. /\ Len(Rest) \in Nat /\ Len(todo) \in Nat /\ DOMAIN Rest = 1..Len(Rest)
      /\ DOMAIN todo = 1..Len(todo)
  BY <1>1, <1>2, InSet
<1>6. PICK p \in DOMAIN todo : todo[p] = e /\ \A j \in 1..p : todo[j].ts <= e.ts
  BY <1>1, <1>2 DEF IInv, OldestFirst
<1>7. PICK i \in 1..Len(Rest) : m[i] = p
  BY <1>3, <1>4, <1>5, <1>6
<1>8. Rest[i] = e
  BY <1>4, <1>6, <1>7 DEF LiesAs
<1>9. ASSUME NEW j \in 1..i PROVE Rest[j].ts <= e.ts
  <2>1. j \in 1..Len(Rest) /\ (j < i \/ j = i)
    BY <1>5
  <2>2. m[j] \in 1..Len(todo) /\ (m[j] < p \/ m[j] = p)
    BY <1>4, <1>7, <2>1 DEF LiesAs
  <2>3. m[j] \in 1..p
    BY <1>5, <1>6, <2>2
  <2>4. Rest[j] = todo[m[j]]
    BY <1>4, <2>1 DEF LiesAs
  <2> QED BY <1>6, <2>3, <2>4
<1> QED BY <1>5, <1>7, <1>8, <1>9

LEMMA ProcessSetStep ==
  ASSUME IInv, ProcessSet
  PROVE  IInv'
<1>0. PICK s : s = {e.n : e \in ToSet(FirstSet)}
  OBVIOUS
<1>1. /\ pc \in {"first", "second", "final"} /\ todo # <<>> /\ (pc = "final" \/ IsAnother)
      /\ sets' = Noted(s) /\ rows' = HandledSet(rows, InOrderOfEvents(FirstSet)) /\ todo' = Rest
      /\ UNCHANGED <<table, before, pc, fetched, after, batch, carried, saved, late>>
  BY <1>0 DEF ProcessSet, MustWait
<1>2. Typed /\ (\A e : Due(e)' <=> Due(e)) /\ (\A e, f : Together(e, f)' <=> Together(e, f))
  BY <1>1, SameDue DEF IInv
<1>3. Pending = todo /\ Pending' = Rest /\ todo \in Seq(Event)
  BY <1>1, <1>2, Basics DEF Pending
<1>4. PICK x : x = todo[1].tx
  OBVIOUS
<1>5. /\ Rest \in Seq(Event) /\ FirstSet \in Seq(Event)
      /\ \A e : e \in ToSet(FirstSet) <=> e \in ToSet(todo) /\ SameSet(e, x)
      /\ \A e : e \in ToSet(Rest) <=> e \in ToSet(todo) /\ ~SameSet(e, x)
  BY <1>3, <1>4, FirstSetIs
<1>6. \A e \in ToSet(todo) : e \in ToSet(table) /\ e.ts <= after
  BY DEF IInv, InHand
<1>7. /\ \A e \in ToSet(table) : e \in Event /\ e.ts \in Nat
      /\ after \in Nat /\ sets \in Seq(SUBSET Transactions) /\ Len(sets) \in Nat
      /\ DOMAIN sets = 1..Len(sets)
  BY <1>2, Basics
<1>8. todo[1] \in ToSet(todo) /\ todo[1] \in ToSet(FirstSet)
  <2>1. 1 \in 1..Len(todo)
    BY <1>1, <1>3, InSet
  <2>2. todo[1] \in ToSet(todo)
    BY <1>3, <2>1, InSet
  <2> QED BY <1>4, <1>5, <2>2 DEF SameSet
<1>9. s \in SUBSET Transactions
  BY <1>0, <1>5, <1>6, <1>7 DEF Event
<1>10. /\ sets' \in Seq(SUBSET Transactions) /\ Processed' = Processed \cup s
       /\ \A i \in 1..Len(sets) : i \in 1..Len(sets') /\ sets'[i] = sets[i]
       /\ \A i \in 1..Len(sets') : i \in 1..Len(sets) \/ (i = Len(sets) + 1 /\ sets'[i] = s)
  BY <1>1, <1>7, <1>9, NotedIs
<1>11. DOMAIN sets' = 1..Len(sets') /\ Len(sets') \in Nat
  BY <1>10, InSet
<1>12. \A e \in ToSet(table) : e.n \in s <=> e \in ToSet(FirstSet)
  <2> TAKE e \in ToSet(table)
  <2>1. ASSUME e.n \in s PROVE e \in ToSet(FirstSet)
    <3>1. PICK f \in ToSet(FirstSet) : f.n = e.n
      BY <1>0, <2>1
    <3>2. f \in ToSet(table)
      BY <1>5, <1>6
    <3> QED BY <1>2, <3>1, <3>2, ByNumber
  <2> QED BY <1>0, <2>1
\* What is read, due and not processed is in todo, and no older than its first.
<1>13. ASSUME NEW e \in ToSet(table), Due(e), e.ts <= after, e.n \notin Processed
       PROVE  e \in ToSet(todo) /\ todo[1].ts <= e.ts
  <2>1. e \in ToSet(todo)
    BY <1>3, <1>13 DEF IInv, Covered
  <2>2. PICK p \in DOMAIN todo : \A j \in 1..p : todo[j].ts <= e.ts
    BY <1>3, <1>13, <2>1 DEF IInv, OldestFirst
  <2>3. 1 \in 1..p
    BY <1>3, InSet
  <2> QED BY <2>1, <2>2, <2>3
\* The events of the first transaction lie at one timestamp.
<1>14. \A e \in ToSet(table) : e.tx = x => e.ts = todo[1].ts
  BY <1>2, <1>4, <1>6, <1>8 DEF Typed, GoodTable
<1>15. x # None
  BY <1>4, <1>6, <1>7, <1>8 DEF Event, Transactions, None
<1>16. Typed'
  <2>1. rows' \in Seq(Row)
    BY <1>1, RowsTyped
  <2> QED BY <1>1, <1>2, <1>5, <1>10, <2>1 DEF Typed, TypeOK
<1>17. InHand'
  BY <1>1, <1>5 DEF IInv, InHand
<1>18. Ahead'
  BY <1>1 DEF Ahead
<1>19. Covered'
  <2>1. ASSUME NEW e \in ToSet(table), e.n \in Processed \/ e \in ToSet(todo)
        PROVE  e.n \in Processed' \/ e \in ToSet(Rest)
    BY <1>5, <1>10, <1>12, <2>1
  <2>2. \A e \in ToSet(batch) : e \in ToSet(table)
    BY DEF IInv, InHand
  <2>3. \A e \in ToSet(table) : Due(e) /\ e.ts <= after => e.n \in Processed' \/ e \in ToSet(Rest)
    BY <1>3, <2>1 DEF IInv, Covered
  <2>4. pc = "first" => \A e \in ToSet(batch) : e.n \in Processed' \/ e \in ToSet(Rest)
    BY <2>1, <2>2 DEF IInv, Covered
  <2> QED BY <1>1, <1>2, <1>3, <2>3, <2>4 DEF IInv, Covered
<1>20. OldestFirst'
  <2>1. \A e \in ToSet(Rest) : e.n \notin Processed' =>
          \E p \in DOMAIN Rest : Rest[p] = e /\ \A j \in 1..p : Rest[j].ts <= e.ts
    BY <1>1, <1>10, RestOldestFirst
  <2> QED BY <1>3, <2>1 DEF OldestFirst
<1>21. SetsRead'
  <2> SUFFICES ASSUME NEW i \in 1..Len(sets'), NEW n \in sets'[i]
               PROVE  \E e \in ToSet(table) : e.n = n /\ e.ts <= after
    BY <1>1, <1>11 DEF SetsRead
  <2>1. CASE i \in 1..Len(sets)
    BY <1>7, <1>10, <2>1 DEF IInv, Sets, SetsRead
  <2>2. CASE i = Len(sets) + 1 /\ sets'[i] = s
    BY <1>0, <1>5, <1>6, <2>2
  <2> QED BY <1>10, <2>1, <2>2
<1>22. SetsWaited'
  <2> SUFFICES ASSUME pc # "final", NEW e \in ToSet(table), e.n \in Processed', e.orig = None
               PROVE  \E g \in ToSet(table) : e.ts < g.ts /\ g.ts <= after
    BY <1>1 DEF SetsWaited
  <2>1. CASE e.n \in Processed
    BY <1>1, <2>1 DEF IInv, Sets, SetsWaited
  <2>2. CASE e.n \notin Processed
    <3>1. SameSet(e, x)
      BY <1>5, <1>10, <1>12, <2>2
    <3>2. e.ts = todo[1].ts
      BY <1>14, <1>15, <3>1 DEF SameSet
    <3>3. PICK i \in DOMAIN todo : todo[i].ts > todo[1].ts
      BY <1>1 DEF IsAnother
    <3>4. todo[i] \in ToSet(todo)
      BY <1>3, InSet
    <3> QED BY <1>6, <1>7, <1>8, <3>2, <3>3, <3>4
  <2> QED BY <2>1, <2>2
<1>23. SetsWhole'
  <2> SUFFICES ASSUME NEW e \in ToSet(table), NEW f \in ToSet(table), Due(e), Due(f), Together(e, f),
                      NEW i \in 1..Len(sets'), First(e, i)'
               PROVE  f.n \in sets'[i]
    BY <1>1, <1>2, <1>11 DEF SetsWhole
  <2>1. CASE i \in 1..Len(sets)
    <3>1. \A j \in 1..(i - 1) : j \in 1..Len(sets)
      BY <1>7, <2>1
    <3>2. First(e, i)
      BY <1>7, <1>10, <2>1, <3>1 DEF First
    <3> QED BY <1>7, <1>10, <2>1, <3>2 DEF IInv, Sets, SetsWhole
  <2>2. CASE i = Len(sets) + 1 /\ sets'[i] = s
    <3>1. e \in ToSet(FirstSet)
      BY <1>12, <2>2 DEF First
    <3>2. e.n \notin Processed
      <4>1. \A j \in 1..Len(sets) : j \in 1..(i - 1)
        BY <1>7, <2>2
      <4>2. \A j \in 1..Len(sets) : e.n \notin sets[j]
        BY <1>10, <4>1 DEF First
      <4> QED BY <1>7, <4>2, InProcessed
    <3>3. SameSet(e, x) /\ e.ts <= after
      BY <1>5, <1>6, <3>1
    <3>4. CASE e.tx = f.tx
      <4>1. e.ts = f.ts /\ SameSet(f, x)
        BY <1>2, <3>3, <3>4 DEF Typed, GoodTable, SameSet
      <4>2. f.n \notin Processed
        <5>1. ASSUME f.n \in Processed PROVE FALSE
          <6>1. PICK j \in DOMAIN sets : First(f, j)
            BY <1>2, <5>1, SomeFirst
          <6>2. Together(f, e)
            BY <3>4 DEF Together
          <6>3. e.n \in sets[j]
            BY <6>1, <6>2 DEF IInv, Sets, SetsWhole
          <6> QED BY <1>7, <3>2, <6>3, InProcessed
        <5> QED BY <5>1
      <4>3. f \in ToSet(todo)
        BY <1>13, <3>3, <4>1, <4>2
      <4> QED BY <1>5, <1>12, <2>2, <4>1, <4>3
    <3>5. CASE f.orig = e.tx /\ NextTo(e.ts, f.ts)
      <4>1. e.tx # None
        BY <1>7 DEF Event, Transactions, None
      <4>2. e.orig = None
        BY <1>2, <3>5, <4>1 DEF Typed, GoodTable
      <4>3. e.tx = x
        BY <1>15, <3>3, <4>2 DEF SameSet
      <4>4. SameSet(f, x) /\ e.ts = todo[1].ts /\ e.ts < f.ts
        BY <1>14, <3>5, <4>3 DEF SameSet, NextTo
      <4>5. f.ts <= after
        <5>1. CASE pc = "final"
          BY <5>1 DEF IInv, Covered
        <5>2. CASE pc # "final"
          <6>1. PICK k \in DOMAIN todo : todo[k].ts > todo[1].ts
            BY <1>1, <5>2 DEF IsAnother
          <6>2. PICK g : g = todo[k]
            OBVIOUS
          <6>3. g \in ToSet(todo)
            BY <1>3, <6>2, InSet
          <6>4. g \in ToSet(table) /\ g.ts <= after /\ e.ts < g.ts
            BY <1>6, <1>7, <1>8, <4>4, <6>1, <6>2, <6>3
          <6>5. ~(g.ts < f.ts)
            BY <3>5, <6>4 DEF NextTo
          <6> QED BY <1>7, <6>4, <6>5
        <5> QED BY <5>1, <5>2
      <4>6. f.n \notin Processed
        BY <3>2, <3>5, <4>4 DEF IInv, Sets, ResultsLast
      <4>7. f \in ToSet(todo)
        BY <1>13, <4>5, <4>6
      <4> QED BY <1>5, <1>12, <2>2, <4>4, <4>7
    <3> QED BY <3>4, <3>5 DEF Together
  <2> QED BY <1>10, <2>1, <2>2
<1>24. ResultsLast'
  <2> SUFFICES ASSUME NEW e \in ToSet(table), NEW f \in ToSet(table), Due(e), Due(f),
                      f.orig = e.tx, e.ts < f.ts, f.n \in Processed'
               PROVE  e.n \in Processed'
    BY <1>1, <1>2 DEF ResultsLast
  <2>1. CASE f.n \in Processed
    BY <1>10, <2>1 DEF IInv, Sets, ResultsLast
  <2>2. CASE f.n \notin Processed /\ e.n \notin Processed
    <3>1. f \in ToSet(FirstSet)
      BY <1>10, <1>12, <2>2
    <3>2. SameSet(f, x) /\ f.ts <= after
      BY <1>5, <1>6, <3>1
    <3>3. e.ts <= after
      BY <1>7, <3>2
    <3>4. e \in ToSet(todo) /\ todo[1].ts <= e.ts
      BY <1>13, <2>2, <3>3
    <3>5. f.tx # x
      BY <1>6, <1>7, <1>8, <1>14, <3>4
    <3>6. e.tx = x
      BY <3>2, <3>5 DEF SameSet
    <3>7. e \in ToSet(FirstSet)
      BY <1>5, <3>4, <3>6 DEF SameSet
    <3> QED BY <1>10, <1>12, <3>7
  <2>3. CASE e.n \in Processed
    BY <1>10, <2>3
  <2> QED BY <2>1, <2>2, <2>3
<1>25. SetsByTime'
  <2> SUFFICES ASSUME NEW i \in 1..Len(sets')
               PROVE  \E f \in ToSet(table) :
                        /\ f.n \in sets'[i] /\ f.ts <= after
                        /\ \A e \in ToSet(table) : Due(e) /\ (\A j \in 1..i : e.n \notin sets'[j]) => f.ts <= e.ts
    BY <1>1, <1>2, <1>11 DEF SetsByTime
  <2>1. CASE i \in 1..Len(sets)
    <3>1. PICK f \in ToSet(table) :
            /\ f.n \in sets[i] /\ f.ts <= after
            /\ \A e \in ToSet(table) : Due(e) /\ (\A j \in 1..i : e.n \notin sets[j]) => f.ts <= e.ts
      BY <1>7, <2>1 DEF IInv, Sets, SetsByTime
    <3>2. \A j \in 1..i : j \in 1..Len(sets) /\ sets'[j] = sets[j]
      BY <1>7, <1>10, <2>1
    <3>3. f.n \in sets'[i]
      BY <1>10, <2>1, <3>1
    <3> QED BY <3>1, <3>2, <3>3
  <2>2. CASE i = Len(sets) + 1 /\ sets'[i] = s
    <3>1. todo[1] \in ToSet(table) /\ todo[1].n \in sets'[i] /\ todo[1].ts <= after
      BY <1>6, <1>8, <1>12, <2>2
    <3>2. ASSUME NEW e \in ToSet(table), Due(e), \A j \in 1..i : e.n \notin sets'[j]
          PROVE  todo[1].ts <= e.ts
      <4>1. \A j \in 1..Len(sets) : j \in 1..i
        BY <1>7, <2>2
      <4>2. \A j \in 1..Len(sets) : e.n \notin sets[j]
        BY <1>10, <3>2, <4>1
      <4>3. e.n \notin Processed
        BY <1>7, <4>2, InProcessed
      <4>4. CASE e.ts <= after
        BY <1>13, <3>2, <4>3, <4>4
      <4>5. CASE ~(e.ts <= after)
        BY <1>7, <3>1, <4>5
      <4> QED BY <4>4, <4>5
    <3> QED BY <3>1, <3>2
  <2> QED BY <1>10, <2>1, <2>2
<1> QED BY <1>16, <1>17, <1>18, <1>19, <1>20, <1>21, <1>22, <1>23, <1>24, <1>25 DEF IInv, Sets

\* A timestamp that had more events than a batch holds still does.
LEMMA StaysCrowded ==
  ASSUME NEW ts, table \in Seq(Event), table' \in Seq(Event), ToSet(table) \subseteq ToSet(table)', Crowded(ts)
  PROVE  Crowded(ts)'
<1> DEFINE C == {e \in ToSet(table) : e.ts = ts}
           D == {e \in ToSet(table') : e.ts = ts}
<1>1. C \subseteq D
  OBVIOUS
<1>2. IsFiniteSet(D)
  <2>1. IsFiniteSet(ToSet(table'))
    BY FiniteElements
  <2> QED BY <2>1, FS_Subset
<1>3. Cardinality(C) > BatchSize
  BY DEF Crowded
<1>4. BatchSize \in Nat
  BY ReindexAssumption
<1> DEFINE c == Cardinality(C)
           d == Cardinality(D)
<1>5. c \in Nat /\ d \in Nat /\ c <= d
  <2> HIDE DEF C, D
  <2>1. IsFiniteSet(C) /\ c <= d
    BY <1>1, <1>2, FS_Subset
  <2> QED BY <1>2, <2>1, FS_CardinalityType
<1>6. d > BatchSize
  <2> HIDE DEF C, D
  <2>1. c > BatchSize
    BY <1>3
  <2> HIDE DEF c, d
  <2> QED BY <1>4, <1>5, <2>1
<1> QED BY <1>6 DEF Crowded

LEMMA IndexStep ==
  ASSUME IInv, Index
  PROVE  IInv'
<1>1. PICK e \in NewEvents(table), k \in 0..Len(table) :
        /\ Fits(table, k, e) /\ table' = PutAfter(table, k, e)
        /\ late' = IF Passed(e.ts) THEN late \cup {e.n} ELSE late
  BY DEF Index
<1>2. /\ pc = "await" /\ Len(table) < Stored + Added
      /\ UNCHANGED <<before, pc, fetched, after, batch, todo, carried, rows, saved, sets>>
  BY DEF Index, TheReindex
<1>3. Typed /\ GoodTable(table) /\ table \in Seq(Event)
  BY Basics DEF IInv, Typed
<1>4. e \in Event /\ e.n = Len(table) + 1
  BY <1>2, <1>3, NewTyped, NewEventIs
<1>5. table' \in Seq(Event) /\ Grown(table, k, e, table')
  BY <1>1, <1>3, <1>4, PutGrows
<1>6. GoodTable(table')
  BY <1>1, <1>2, <1>3, <1>5, GrownIsGood
<1>7. ToSet(table') = ToSet(table) \cup {e}
  BY <1>3, <1>4, <1>5, GrownSet
<1>8. /\ after \in Nat /\ e.ts \in Nat /\ Len(table) \in Nat
      /\ sets \in Seq(SUBSET Transactions) /\ DOMAIN sets = 1..Len(sets)
      /\ \A g \in ToSet(table) : g \in Event /\ g.ts \in Nat
  BY <1>3, <1>4, Basics, InSet, EventTyped
<1>9. \A g \in ToSet(table) : g.n # e.n
  <2> TAKE g \in ToSet(table)
  <2>1. PICK i \in 1..Len(table) : table[i] = g
    BY <1>3, InSet
  <2>2. g.n \in 1..Len(table)
    BY <1>3, <2>1, InSet DEF GoodTable
  <2> QED BY <1>4, <1>8, <2>2
<1>10. \A i \in DOMAIN sets : e.n \notin sets[i]
  BY <1>9 DEF IInv, Sets, SetsRead
<1>11. e.n \notin Processed
  BY <1>8, <1>10, InProcessed
<1>12. Processed' = Processed /\ Pending' = Pending /\ \A g, i : First(g, i)' <=> First(g, i)
  BY <1>2 DEF Processed, Pending, First
<1>13. \A b : Sliced(b)' = Sliced(b)
  <2>1. \A b : OlderOf(b)' = OlderOf(b)
    BY <1>2 DEF OlderOf
  <2> QED BY <1>2, <2>1 DEF Sliced
<1>14. PICK b : b = fetched.events
  OBVIOUS
<1>15. fetched'.events = b /\ fetched'.read = fetched.read
  BY <1>2, <1>14
<1>16. \A g \in ToSet(table) : Due(g)' => Due(g)
  <2> SUFFICES ASSUME NEW g \in ToSet(table), Due(g)' PROVE Due(g)
    OBVIOUS
  <2>1. ~Crowded(g.ts)
    <3>1. ASSUME Crowded(g.ts) PROVE FALSE
      <4>1. PICK ts : ts = g.ts
        OBVIOUS
      <4>2. Crowded(ts)'
        BY <1>3, <1>5, <1>7, <3>1, <4>1, StaysCrowded
      <4>3. ~Crowded(ts)'
        BY <4>1 DEF Due
      <4> QED BY <4>2, <4>3
    <3> QED BY <3>1
  <2>2. before' = before /\ late \subseteq late'
    BY <1>1, <1>2
  <2> QED BY <2>1, <2>2 DEF Due
<1>17. ASSUME Due(e)' PROVE ~Passed(e.ts)
  <2>1. e.n \notin late'
    BY <1>17 DEF Due
  <2> QED BY <1>1, <2>1
<1>18. ASSUME Due(e)' PROVE e.ts > after
  BY <1>8, <1>17, <1>18 DEF Passed
<1>19. \A g, f : Together(g, f)' => Together(g, f)
  <2>1. \A s, t : NextTo(s, t)' => NextTo(s, t)
    BY <1>7 DEF NextTo
  <2> QED BY <2>1 DEF Together
\* The events processed were read.
<1>20. \A g \in ToSet(table') : \A i \in DOMAIN sets : g.n \in sets[i] => g \in ToSet(table) /\ g.ts <= after
  <2> SUFFICES ASSUME NEW g \in ToSet(table'), NEW i \in DOMAIN sets, g.n \in sets[i]
               PROVE  g \in ToSet(table) /\ g.ts <= after
    OBVIOUS
  <2>1. g \in ToSet(table)
    BY <1>7, <1>10
  <2>2. PICK h \in ToSet(table) : h.n = g.n /\ h.ts <= after
    BY DEF IInv, Sets, SetsRead
  <2> QED BY <1>3, <2>1, <2>2, ByNumber
<1>21. \A g \in ToSet(table') : g.n \in Processed => g \in ToSet(table) /\ g.ts <= after
  BY <1>8, <1>20, InProcessed
<1>22. Typed'
  <2>1. e.n \in Transactions
    BY <1>4 DEF Event
  <2>2. late' \subseteq Transactions
    BY <1>1, <1>3, <2>1 DEF Typed, TypeOK
  <2> QED BY <1>2, <1>3, <1>5, <1>6, <2>2 DEF Typed, TypeOK
<1>23. InHand'
  BY <1>2, <1>7 DEF IInv, InHand
<1>24. Ahead'
  <2>1. MoreToRead'
    BY <1>2 DEF IInv, Ahead, MoreToRead
  <2>2. ASSUME fetched.read, NEW g \in ToSet(table'), Due(g)', g.ts > after, Passed(g.ts)'
        PROVE  b # <<>> /\ g \in ToSet(Sliced(b).batch)
    <3>1. Passed(g.ts)
      <4>1. PICK t : t = g.ts
        OBVIOUS
      <4>2. \/ t <= after' \/ fetched'.events = <<>> \/ t <= Sliced(b)'.after
        BY <1>15, <2>2, <4>1 DEF Passed
      <4> QED BY <1>2, <1>13, <1>14, <2>2, <4>1, <4>2 DEF Passed
    <3>2. g \in ToSet(table) /\ Due(g)
      BY <1>7, <1>16, <1>17, <2>2, <3>1
    <3> QED BY <1>2, <1>14, <2>2, <3>1, <3>2 DEF IInv, Ahead
  <2> QED BY <1>2, <1>13, <1>15, <2>1, <2>2 DEF Ahead
<1>25. Covered'
  <2>1. \A g \in ToSet(table') : Due(g)' /\ g.ts <= after => g.n \in Processed \/ g \in ToSet(Pending)
    BY <1>7, <1>8, <1>16, <1>18 DEF IInv, Covered
  <2> QED BY <1>2, <1>12, <2>1 DEF Covered
<1>26. OldestFirst'
  BY <1>12 DEF IInv, OldestFirst
<1>27. SetsRead'
  BY <1>2, <1>7 DEF IInv, Sets, SetsRead
<1>28. SetsWaited'
  BY <1>2, <1>7, <1>12, <1>21 DEF IInv, Sets, SetsWaited
<1>29. SetsWhole'
  <2> SUFFICES ASSUME NEW g \in ToSet(table'), NEW f \in ToSet(table'), Due(g)', Due(f)', Together(g, f)',
                      NEW i \in DOMAIN sets, First(g, i)
               PROVE  f.n \in sets[i]
    BY <1>2, <1>12 DEF SetsWhole
  <2>1. g \in ToSet(table) /\ g.ts <= after /\ g.n \in sets[i] /\ g.n \in Processed
    BY <1>8, <1>20, InProcessed DEF First
  <2>2. CASE f \in ToSet(table)
    BY <1>16, <1>19, <2>1, <2>2 DEF IInv, Sets, SetsWhole
  <2>3. CASE f = e
    <3>1. f.ts > after
      BY <1>18, <2>3
    <3>2. CASE g.tx = f.tx
      <4>1. g.ts = f.ts
        BY <1>6, <3>2 DEF GoodTable
      <4> QED BY <1>8, <2>1, <3>1, <4>1
    <3>3. CASE f.orig = g.tx /\ NextTo(g.ts, f.ts)'
      <4>1. g.tx # None
        BY <1>8, <2>1 DEF Event, Transactions, None
      <4>2. g.orig = None
        BY <1>6, <3>3, <4>1 DEF GoodTable
      <4>3. PICK h \in ToSet(table) : g.ts < h.ts /\ h.ts <= after
        BY <1>2, <2>1, <4>2 DEF IInv, Sets, SetsWaited
      <4>4. h \in ToSet(table') /\ h.ts < f.ts
        BY <1>4, <1>7, <1>8, <2>3, <3>1, <4>3
      <4>5. PICK s : s = g.ts
        OBVIOUS
      <4>6. PICK t : t = f.ts
        OBVIOUS
      <4>7. NextTo(s, t)'
        BY <3>3, <4>5, <4>6
      <4>8. ~\E x \in ToSet(table') : s < x.ts /\ x.ts < t
        BY <4>7 DEF NextTo
      <4> QED BY <4>3, <4>4, <4>5, <4>6, <4>8
    <3> QED BY <3>2, <3>3 DEF Together
  <2> QED BY <1>7, <2>2, <2>3
<1>30. ResultsLast'
  <2> SUFFICES ASSUME NEW g \in ToSet(table'), NEW f \in ToSet(table'), Due(g)', Due(f)',
                      f.orig = g.tx, g.ts < f.ts, f.n \in Processed
               PROVE  g.n \in Processed
    BY <1>12 DEF ResultsLast
  <2>1. f \in ToSet(table) /\ f.ts <= after
    BY <1>21
  <2>2. g \in ToSet(table)
    BY <1>7, <1>8, <1>18, <2>1
  <2> QED BY <1>16, <2>1, <2>2 DEF IInv, Sets, ResultsLast
<1>31. SetsByTime'
  <2> SUFFICES ASSUME NEW i \in DOMAIN sets
               PROVE  \E f \in ToSet(table') :
                        /\ f.n \in sets[i] /\ f.ts <= after
                        /\ \A g \in ToSet(table') : Due(g)' /\ (\A j \in 1..i : g.n \notin sets[j]) => f.ts <= g.ts
    BY <1>2 DEF SetsByTime
  <2>1. PICK f \in ToSet(table) :
          /\ f.n \in sets[i] /\ f.ts <= after
          /\ \A g \in ToSet(table) : Due(g) /\ (\A j \in 1..i : g.n \notin sets[j]) => f.ts <= g.ts
    BY DEF IInv, Sets, SetsByTime
  <2>2. ASSUME NEW g \in ToSet(table'), Due(g)', \A j \in 1..i : g.n \notin sets[j] PROVE f.ts <= g.ts
    <3>1. CASE g \in ToSet(table)
      BY <1>16, <2>1, <2>2, <3>1
    <3>2. CASE g = e
      <4>1. g.ts > after
        BY <1>18, <2>2, <3>2
      <4> QED BY <1>8, <2>1, <3>2, <4>1
    <3> QED BY <1>7, <3>1, <3>2
  <2> QED BY <1>7, <2>1, <2>2
<1> QED BY <1>22, <1>23, <1>24, <1>25, <1>26, <1>27, <1>28, <1>29, <1>30, <1>31 DEF IInv, Sets

LEMMA InitHolds == Init => IInv
<1> SUFFICES ASSUME Init PROVE IInv
  OBVIOUS
<1>1. GoodTable(table)
  BY TablesAreGood DEF Init
<1>2. /\ before \in Befores /\ pc = "await" /\ fetched = [read |-> FALSE, events |-> <<>>] /\ after = 0
      /\ batch = <<>> /\ todo = <<>> /\ carried = <<>> /\ rows = <<>> /\ saved = {} /\ sets = <<>> /\ late = {}
  BY DEF Init, Unread, None
<1>3. /\ ToSet(<<>>) = {} /\ <<>> \in Seq(Event) /\ <<>> \in Seq(Row)
      /\ <<>> \in Seq(SUBSET Transactions) /\ DOMAIN <<>> = {}
  BY DEF ToSet
<1>4. Typed
  BY <1>1, <1>2, <1>3 DEF Typed, TypeOK, Places, GoodTable
<1>5. \A e \in ToSet(table) : e.ts \in Nat /\ e.ts > 0
  BY <1>4, Basics, EventTyped
<1>6. InHand
  BY <1>2, <1>3 DEF InHand, Sorted
<1>7. Ahead
  <2>1. before \in Nat
    BY <1>4, Basics
  <2> QED BY <1>2, <2>1 DEF Ahead, MoreToRead, None
<1>8. Covered
  BY <1>2, <1>5 DEF Covered
<1>9. OldestFirst
  BY <1>2, <1>3 DEF OldestFirst, Pending
<1>10. Processed = {}
  BY <1>2, <1>3 DEF Processed
<1>11. Sets
  BY <1>2, <1>3, <1>10 DEF Sets, SetsRead, SetsWaited, SetsWhole, ResultsLast, SetsByTime
<1> QED BY <1>4, <1>6, <1>7, <1>8, <1>9, <1>11 DEF IInv

LEMMA StutterHolds ==
  ASSUME IInv, UNCHANGED vars
  PROVE  IInv'
<1>1. UNCHANGED <<table, before, pc, fetched, after, batch, todo, carried, rows, saved, sets, late>>
  BY DEF vars
<1>2. \A e : Due(e)' <=> Due(e)
  BY <1>1, SameDue
<1>3. Processed' = Processed /\ Pending' = Pending
  BY <1>1 DEF Processed, Pending
<1>4. Typed'
  BY <1>1 DEF IInv, Typed, TypeOK
<1>5. InHand'
  BY <1>1 DEF IInv, InHand
<1>6. PICK b : b = fetched.events
  OBVIOUS
<1>7. Sliced(b)' = Sliced(b) /\ fetched'.events = b
  <2>1. \A w : OlderOf(w)' = OlderOf(w)
    BY <1>1 DEF OlderOf
  <2> QED BY <1>1, <1>6, <2>1 DEF Sliced
<1>8. Ahead'
  BY <1>1, <1>2, <1>6, <1>7 DEF IInv, Ahead, MoreToRead, Passed
<1>9. Covered'
  BY <1>1, <1>2, <1>3 DEF IInv, Covered
<1>10. OldestFirst'
  BY <1>3 DEF IInv, OldestFirst
<1>11. Sets'
  BY <1>1, SameSets DEF IInv
<1> QED BY <1>4, <1>5, <1>8, <1>9, <1>10, <1>11 DEF IInv

LEMMA StepHolds == IInv /\ [Next]_vars => IInv'
<1> SUFFICES ASSUME IInv, [Next]_vars PROVE IInv'
  OBVIOUS
<1>1. CASE Index
  BY <1>1, IndexStep
<1>2. CASE Read
  BY <1>2, ReadStep
<1>3. CASE Take
  BY <1>3, TakeStep
<1>4. CASE NoMore
  BY <1>4, NoMoreStep
<1>5. CASE ProcessSet
  BY <1>5, ProcessSetStep
<1>6. CASE PassEnds
  BY <1>6, PassEndsStep
<1>7. CASE Flush
  BY <1>7, FlushStep
<1>8. CASE Save
  BY <1>8, SaveStep
<1>9. CASE SaveFails
  BY <1>9, SaveFailsStep
<1>10. CASE UNCHANGED vars
  BY <1>10, StutterHolds
<1> QED BY <1>1, <1>2, <1>3, <1>4, <1>5, <1>6, <1>7, <1>8, <1>9, <1>10 DEF Next, Step

LEMMA ReindexInvariant == Spec => []IInv
<1>1. Init => IInv
  BY InitHolds
<1>2. IInv /\ [Next]_vars => IInv'
  BY StepHolds
<1> QED BY <1>1, <1>2, PTL DEF Spec

\* The reindex is type correct: what it holds are events of the table, whatever
\* the table, the batches and the events added meanwhile; the rows it builds are
\* of auctions.
THEOREM ReindexTyped == Spec => []TypeOK
<1>1. IInv => TypeOK
  BY DEF IInv, Typed
<1> QED BY <1>1, ReindexInvariant, PTL

\* When the reindex has ended, every event asked for that was in the table when
\* its timestamp was read, and whose timestamp has no more events than a batch
\* holds, has been processed (processMarketplaceEventsInBatches,
\* getSlicedBatchAndNewestTimestampIfPartialEventsSet).
THEOREM NoEventSkipped == Spec => []NothingSkipped
<1>1. IInv => NothingSkipped
  <2> SUFFICES ASSUME IInv, pc \in {"save", "done"}, NEW e \in ToSet(table), Due(e)
               PROVE  e.n \in Processed
    BY DEF NothingSkipped
  <2>1. carried = <<>> /\ Pending = carried
    BY DEF IInv, Covered, Pending
  <2>2. ToSet(<<>>) = {}
    BY DEF ToSet
  <2> QED BY <2>1, <2>2 DEF IInv, Covered
<1> QED BY <1>1, ReindexInvariant, PTL

\* FirstTime names the first set.
LEMMA FirstTimeIs ==
  ASSUME Typed, NEW e, e.n \in Processed
  PROVE  First(e, FirstTime(e.n))
<1>1. PICK i \in DOMAIN sets : First(e, i)
  BY SomeFirst
<1> DEFINE Is(j) == e.n \in sets[j] /\ \A l \in 1..(j - 1) : e.n \notin sets[l]
<1>2. FirstTime(e.n) = CHOOSE j \in DOMAIN sets : Is(j)
  BY DEF FirstTime
<1>3. i \in DOMAIN sets /\ Is(i)
  BY <1>1 DEF First
<1>4. (CHOOSE j \in DOMAIN sets : Is(j)) \in DOMAIN sets /\ Is(CHOOSE j \in DOMAIN sets : Is(j))
  <2> HIDE DEF Is
  <2> QED BY <1>3
<1> QED BY <1>2, <1>4 DEF First

\* An event is first processed with all the events of its transaction and with
\* the results of it at the next timestamp, however the batches cut the table
\* (processEventsBatchAndReturnUnprocessedEvents, isAnotherEventsSetInBatch).
THEOREM SetsKeptTogether == Spec => []KeptTogether
<1>1. IInv => KeptTogether
  <2> SUFFICES ASSUME IInv, NEW e \in ToSet(table), NEW f \in ToSet(table), e.n \in Processed,
                      Due(e), Due(f), e.tx = f.tx \/ (f.orig = e.tx /\ NextTo(e.ts, f.ts))
               PROVE  f.n \in sets[FirstTime(e.n)]
    BY DEF KeptTogether
  <2>1. First(e, FirstTime(e.n))
    BY FirstTimeIs DEF IInv
  <2>2. Together(e, f) /\ FirstTime(e.n) \in DOMAIN sets
    BY <2>1 DEF Together, First
  <2> QED BY <2>1, <2>2 DEF IInv, Sets, SetsWhole
<1> QED BY <1>1, ReindexInvariant, PTL

\* No event is first processed after a set all of whose events are newer
\* (processEventsBatchAndReturnUnprocessedEvents takes the first event left).
THEOREM SetsInOrder == Spec => []InOrder
<1>1. IInv => InOrder
  <2> SUFFICES ASSUME IInv, NEW e \in ToSet(table), e.n \in Processed, Due(e),
                      NEW i \in 1..(FirstTime(e.n) - 1)
               PROVE  \E f \in ToSet(table) : f.n \in sets[i] /\ f.ts <= e.ts
    BY DEF InOrder
  <2>1. First(e, FirstTime(e.n))
    BY FirstTimeIs DEF IInv
  <2>2. DOMAIN sets = 1..Len(sets) /\ Len(sets) \in Nat
    BY Basics DEF IInv
  <2>3. i \in DOMAIN sets /\ \A j \in 1..i : e.n \notin sets[j]
    BY <2>1, <2>2 DEF First
  <2> QED BY <2>3 DEF IInv, Sets, SetsByTime
<1> QED BY <1>1, ReindexInvariant, PTL

==============================================================================
