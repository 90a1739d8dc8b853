------------------------- MODULE RouteRegistryProofs -------------------------
(***************************************************************************)
(* Theorems about RouteRegistry, for any routes a file can declare and     *)
(* lists of any length: which route answers a request.                     *)
(***************************************************************************)
EXTENDS RouteRegistry, SequenceTheorems, WellFoundedInduction, TLAPS

-----------------------------------------------------------------------------
(* Recursion over natural numbers.                                         *)

\* A set of natural numbers that has an element has a least one.
LEMMA Least ==
  ASSUME NEW S \in SUBSET Nat, S # {}
  PROVE  \E n \in S : \A m \in S : n <= m
<1>1. PICK n \in S : \A m \in S : <<m, n>> \notin OpToRel(<, Nat)
  BY NatLessThanWellFounded, WFMin, Zenon
<1>2. ASSUME NEW m \in S PROVE n <= m
  <2>1. <<m, n>> \in Nat \X Nat
    OBVIOUS
  <2>2. ~(m < n)
    BY <1>1, <2>1, Zenon DEF OpToRel
  <2> QED BY <2>2
<1> QED BY <1>2

\* What holds of 0 and of the successor of whatever it holds of, holds up to n.
LEMMA Upward ==
  ASSUME NEW n \in Nat, NEW good, 0 \in good,
         \A i \in 1 .. n : i - 1 \in good => i \in good
  PROVE  \A i \in 0 .. n : i \in good
<1> DEFINE bad == {i \in 0 .. n : i \notin good}
<1>1. SUFFICES ASSUME bad # {} PROVE FALSE
  OBVIOUS
<1>2. PICK i \in bad : \A j \in bad : i <= j
  <2>1. bad \in SUBSET Nat
    OBVIOUS
  <2> HIDE DEF bad
  <2> QED BY <1>1, <2>1, Least
<1>3. i \in 1 .. n /\ i - 1 \in 0 .. n /\ ~(i <= i - 1)
  OBVIOUS
<1>4. i - 1 \in good
  BY <1>2, <1>3
<1> QED BY <1>2, <1>3, <1>4

\* f is defined on 0 .. n by recursion: each value from the one before, by G.
Computed(f, n, base, G, T) ==
  /\ f = [i \in 0 .. n |-> f[i]]
  /\ f[0] = base
  /\ \A i \in 0 .. n : f[i] \in T
  /\ \A i \in 1 .. n : f[i] = G[f[i - 1]][i]

\* Such a function exists.
LEMMA Recursion ==
  ASSUME NEW n \in Nat, NEW T, NEW base \in T, NEW G,
         \A t \in T : \A i \in 1 .. n : G[t][i] \in T
  PROVE  \E f : Computed(f, n, base, G, T)
<1> DEFINE good == {m \in Nat : \E f : Computed(f, m, base, G, T)}
<1>1. 0 \in good
  <2> DEFINE f == [i \in 0 .. 0 |-> base]
  <2>1. Computed(f, 0, base, G, T)
    BY DEF Computed
  <2> QED BY <2>1
<1>2. ASSUME NEW m \in 1 .. n, m - 1 \in good PROVE m \in good
  <2>1. PICK f : Computed(f, m - 1, base, G, T)
    BY <1>2
  <2> DEFINE g == [i \in 0 .. m |-> IF i = m THEN G[f[m - 1]][m] ELSE f[i]]
  <2>2. \A i \in 0 .. m - 1 : g[i] = f[i] /\ g[i] \in T
    BY <2>1 DEF Computed
  <2>3. g[m] = G[f[m - 1]][m] /\ f[m - 1] \in T
    BY <2>1 DEF Computed
  <2>4. g[m] \in T
    BY <2>3
  <2>5. g = [i \in 0 .. m |-> g[i]]
    OBVIOUS
  <2>7. g[0] = base
    BY <2>1, <2>2 DEF Computed
  <2>6. \A i \in 1 .. m : g[i] = G[g[i - 1]][i]
    <3> SUFFICES ASSUME NEW i \in 1 .. m PROVE g[i] = G[g[i - 1]][i]
      OBVIOUS
    <3> HIDE DEF g
    <3>1. i - 1 \in 0 .. m - 1 /\ g[i - 1] = f[i - 1]
      BY <2>2
    <3>2. CASE i = m
      BY <2>3, <3>1, <3>2
    <3>3. CASE i # m
      <4>1. i \in 1 .. m - 1 /\ i \in 0 .. m - 1
        BY <3>3
      <4> QED BY <2>1, <2>2, <3>1, <4>1 DEF Computed
    <3> QED BY <3>2, <3>3
  <2>8. Computed(g, m, base, G, T)
    <3> HIDE DEF g
    <3>1. \A i \in 0 .. m : g[i] \in T
      <4>1. \A i \in 0 .. m : i \in 0 .. m - 1 \/ i = m
        OBVIOUS
      <4> QED BY <2>2, <2>4, <4>1
    <3> QED BY <3>1, <2>5, <2>6, <2>7 DEF Computed
  <2>9. m \in Nat
    OBVIOUS
  <2> HIDE DEF g
  <2> QED BY <2>8, <2>9
<1>3. n \in good
  <2> HIDE DEF good
  <2>1. \A i \in 0 .. n : i \in good
    BY <1>1, <1>2, Upward
  <2> QED BY <2>1
<1> QED BY <1>3
-----------------------------------------------------------------------------
(* The first of a sequence.                                                *)

\* s[i] is the first element of s in M.
IsFirst(s, i, M) ==
  /\ i \in DOMAIN s /\ s[i] \in M
  /\ \A j \in 1 .. i - 1 : s[j] \notin M

\* A sequence with an element in M has a first one.
LEMMA SomeFirst ==
  ASSUME NEW S, NEW s \in Seq(S), NEW M, NEW k \in DOMAIN s, s[k] \in M
  PROVE  \E i \in DOMAIN s : IsFirst(s, i, M)
<1> DEFINE I == {i \in DOMAIN s : s[i] \in M}
<1>1. I \in SUBSET Nat /\ I # {}
  OBVIOUS
<1>2. PICK i \in I : \A j \in I : i <= j
  <2> HIDE DEF I
  <2> QED BY <1>1, Least
<1>3. ASSUME NEW j \in 1 .. i - 1 PROVE s[j] \notin M
  <2>1. j \in DOMAIN s /\ ~(i <= j)
    OBVIOUS
  <2> QED BY <1>2, <2>1
<1> QED BY <1>2, <1>3 DEF IsFirst

\* Those goes through the sequence element by element.
Keeping(f, s, wanted) ==
  /\ f[0] = <<>>
  /\ \A i \in 1 .. Len(s) :
       f[i] = IF s[i] \in wanted THEN Append(f[i - 1], s[i]) ELSE f[i - 1]
  /\ Those(s, wanted) = f[Len(s)]

LEMMA ThoseKeeps ==
  ASSUME NEW S, NEW s \in Seq(S), NEW wanted
  PROVE  \E f : Keeping(f, s, wanted)
<1> DEFINE n == Len(s)
           T == Seq(S)
           G == [t \in T |-> [i \in 1 .. n |->
                   IF s[i] \in wanted THEN Append(t, s[i]) ELSE t]]
           Law(f) == f = [i \in 0 .. n |->
                            IF i = 0 THEN <<>>
                            ELSE IF s[i] \in wanted THEN Append(f[i - 1], s[i])
                            ELSE f[i - 1]]
<1>1. n \in Nat /\ <<>> \in T /\ \A i \in 1 .. n : s[i] \in S
  OBVIOUS
<1>2. \A t \in T : \A i \in 1 .. n :
        /\ G[t][i] = IF s[i] \in wanted THEN Append(t, s[i]) ELSE t
        /\ G[t][i] \in T
  BY <1>1
<1>3. \E f : Law(f)
  <2>1. PICK f : Computed(f, n, <<>>, G, T)
    <3>1. \A t \in T : \A i \in 1 .. n : G[t][i] \in T
      BY <1>2
    <3>2. n \in Nat /\ <<>> \in T
      BY <1>1
    <3> HIDE DEF G, n, T
    <3> QED BY <3>1, <3>2, Recursion
  <2>2. ASSUME NEW i \in 0 .. n
        PROVE  f[i] = IF i = 0 THEN <<>>
                      ELSE IF s[i] \in wanted THEN Append(f[i - 1], s[i]) ELSE f[i - 1]
    <3>1. CASE i = 0
      BY <2>1, <3>1 DEF Computed
    <3>2. CASE i # 0
      <4>1. i \in 1 .. n /\ f[i - 1] \in T
        BY <1>1, <2>1, <3>2 DEF Computed
      <4> HIDE DEF G, T
      <4> QED BY <1>2, <2>1, <3>2, <4>1 DEF Computed
    <3> QED BY <3>1, <3>2
  <2> QED BY <2>1, <2>2 DEF Computed
<1> DEFINE those == CHOOSE f : Law(f)
<1>4. Law(those)
  BY <1>3, Zenon
<1>5. Those(s, wanted) = those[n]
  BY Zenon DEF Those
<1> HIDE DEF those
<1>6. ASSUME NEW i \in 0 .. n
      PROVE  those[i] = IF i = 0 THEN <<>>
                        ELSE IF s[i] \in wanted THEN Append(those[i - 1], s[i])
                        ELSE those[i - 1]
  BY <1>4
<1>7. those[0] = <<>>
  <2>1. 0 \in 0 .. n
    BY <1>1
  <2> HIDE DEF n
  <2> QED BY <1>6, <2>1
<1>8. \A i \in 1 .. n : those[i] = IF s[i] \in wanted THEN Append(those[i - 1], s[i])
                                   ELSE those[i - 1]
  <2>1. \A i \in 1 .. n : i \in 0 .. n /\ i # 0
    BY <1>1
  <2> HIDE DEF n
  <2> QED BY <1>6, <2>1
<1> QED BY <1>5, <1>7, <1>8 DEF Keeping

\* After n steps t holds elements of s that are wanted, and the first of s
\* wanted that is in M is the first of t that is.
Filtered(t, s, n, wanted, S, M) ==
  /\ t \in Seq(S)
  /\ \A k \in DOMAIN t : t[k] \in wanted /\ \E i \in 1 .. n : t[k] = s[i]
  /\ \A i \in 1 .. n : IsFirst(s, i, wanted \cap M) =>
       \E k \in DOMAIN t : IsFirst(t, k, M) /\ t[k] = s[i]

LEMMA ThoseFilters ==
  ASSUME NEW S, NEW s \in Seq(S), NEW wanted, NEW M
  PROVE  Filtered(Those(s, wanted), s, Len(s), wanted, S, M)
<1>1. PICK f : Keeping(f, s, wanted)
  BY ThoseKeeps
<1> DEFINE good == {n \in 0 .. Len(s) : Filtered(f[n], s, n, wanted, S, M)}
<1>2. 0 \in good
  <2>1. f[0] = <<>> /\ 0 \in 0 .. Len(s)
    BY <1>1 DEF Keeping
  <2>2. Filtered(<<>>, s, 0, wanted, S, M)
    BY DEF Filtered
  <2> QED BY <2>1, <2>2
<1>3. ASSUME NEW n \in 1 .. Len(s), n - 1 \in good PROVE n \in good
  <2> DEFINE t == f[n - 1]
  <2>1. Filtered(t, s, n - 1, wanted, S, M) /\ n \in 0 .. Len(s)
    BY <1>3
  <2>2. f[n] = IF s[n] \in wanted THEN Append(t, s[n]) ELSE t
    BY <1>1 DEF Keeping
  <2> HIDE DEF t, good
  <2>3. /\ t \in Seq(S) /\ s[n] \in S /\ n - 1 \in Nat
        /\ \A i \in 1 .. n - 1 : i \in 1 .. n
        /\ \A i \in 1 .. n : i \in 1 .. n - 1 \/ i = n
    BY <2>1 DEF Filtered
  <2>4. CASE s[n] \notin wanted
    <3>1. \A k \in DOMAIN t : t[k] \in wanted /\ \E i \in 1 .. n : t[k] = s[i]
      BY <2>1, <2>3 DEF Filtered
    <3>2. ASSUME NEW i \in 1 .. n, IsFirst(s, i, wanted \cap M)
          PROVE  \E k \in DOMAIN t : IsFirst(t, k, M) /\ t[k] = s[i]
      <4>1. i # n
        BY <2>4, <3>2 DEF IsFirst
      <4>2. i \in 1 .. n - 1
        BY <2>3, <4>1
      <4> QED BY <2>1, <3>2, <4>2 DEF Filtered
    <3>3. Filtered(t, s, n, wanted, S, M)
      BY <2>3, <3>1, <3>2 DEF Filtered
    <3> QED BY <2>1, <2>2, <2>4, <3>3 DEF good
  <2>5. CASE s[n] \in wanted
    <3> DEFINE u == Append(t, s[n])
    <3>1. /\ u \in Seq(S) /\ DOMAIN t = 1 .. Len(t) /\ Len(t) \in Nat
          /\ DOMAIN u = 1 .. Len(t) + 1 /\ u[Len(t) + 1] = s[n]
          /\ \A k \in DOMAIN t : u[k] = t[k] /\ k \in DOMAIN u
      BY <2>3
    <3> HIDE DEF u
    <3>2. ASSUME NEW k \in DOMAIN u
          PROVE  u[k] \in wanted /\ \E i \in 1 .. n : u[k] = s[i]
      <4>1. CASE k \in DOMAIN t
        BY <2>1, <2>3, <3>1, <4>1 DEF Filtered
      <4>2. CASE k = Len(t) + 1
        BY <2>5, <3>1, <4>2
      <4> QED BY <3>1, <4>1, <4>2
    <3>3. ASSUME NEW i \in 1 .. n, IsFirst(s, i, wanted \cap M)
          PROVE  \E k \in DOMAIN u : IsFirst(u, k, M) /\ u[k] = s[i]
      <4>1. CASE i \in 1 .. n - 1
        <5>1. PICK k \in DOMAIN t : IsFirst(t, k, M) /\ t[k] = s[i]
          BY <2>1, <3>3, <4>1 DEF Filtered
        <5>2. \A l \in 1 .. k - 1 : l \in DOMAIN t
          BY <3>1
        <5>3. IsFirst(u, k, M)
          BY <3>1, <5>1, <5>2 DEF IsFirst
        <5> QED BY <3>1, <5>1, <5>3
      <4>2. CASE i = n
        <5>1. ASSUME NEW l \in DOMAIN t PROVE t[l] \notin M
          <6>1. PICK j \in 1 .. n - 1 : t[l] = s[j]
            BY <2>1 DEF Filtered
          <6>2. s[j] \notin wanted \cap M
            BY <3>3, <4>2 DEF IsFirst
          <6>3. t[l] \in wanted
            BY <2>1 DEF Filtered
          <6> QED BY <6>1, <6>2, <6>3
        <5>2. \A l \in 1 .. Len(t) + 1 - 1 : l \in DOMAIN t
          BY <3>1
        <5>3. s[n] \in M
          BY <3>3, <4>2 DEF IsFirst
        <5>4. Len(t) + 1 \in DOMAIN u
          BY <3>1
        <5>5. IsFirst(u, Len(t) + 1, M)
          BY <3>1, <5>1, <5>2, <5>3, <5>4 DEF IsFirst
        <5> QED BY <3>1, <4>2, <5>4, <5>5
      <4> QED BY <2>3, <4>1, <4>2
    <3>4. Filtered(u, s, n, wanted, S, M)
      BY <3>1, <3>2, <3>3 DEF Filtered
    <3>5. f[n] = u
      BY <2>2, <2>5 DEF u
    <3> QED BY <2>1, <3>4, <3>5 DEF good
  <2> QED BY <2>4, <2>5
<1>4. Len(s) \in good
  <2> HIDE DEF good
  <2>1. Len(s) \in Nat
    OBVIOUS
  <2>2. \A i \in 0 .. Len(s) : i \in good
    BY <1>2, <1>3, <2>1, Upward
  <2> QED BY <2>1, <2>2
<1> QED BY <1>1, <1>4 DEF Keeping

-----------------------------------------------------------------------------
(* The bucket of a pattern.                                                *)

\* Route i is the one the list decides on: the first of the pattern that names
\* the method, or else the first of it for any method.
Decides(list, p, method, i) ==
  /\ i \in DOMAIN list /\ list[i].path = p
  /\ \/ /\ list[i].method = method
        /\ \A j \in 1 .. i - 1 : ~(list[j].path = p /\ list[j].method = method)
     \/ /\ list[i].method = AnyMethod
        /\ \A j \in DOMAIN list : ~(list[j].path = p /\ list[j].method = method)
        /\ \A j \in 1 .. i - 1 : ~(list[j].path = p /\ list[j].method = AnyMethod)

\* FirstFor is the first for the method, and 0 if there is none.
LEMMA FirstForIsFirst ==
  ASSUME NEW S, NEW bucket \in Seq(S), NEW method,
         NEW M, \A e \in S : e \in M <=> MethodMatches(e, method)
  PROVE  /\ (\A k \in DOMAIN bucket : bucket[k] \notin M) => FirstFor(bucket, method) = 0
         /\ \A k \in DOMAIN bucket : IsFirst(bucket, k, M) => FirstFor(bucket, method) = k
<1> DEFINE I == {i \in 1 .. Len(bucket) : MethodMatches(bucket[i], method)}
<1>1. FirstFor(bucket, method) = IF I # {} THEN Min(I) ELSE 0
  BY Zenon DEF FirstFor, SelectInSeq
<1>2. /\ DOMAIN bucket = 1 .. Len(bucket) /\ Len(bucket) \in Nat
      /\ \A k \in DOMAIN bucket : bucket[k] \in S
  OBVIOUS
<1>3. \A k : k \in I <=> k \in DOMAIN bucket /\ bucket[k] \in M
  BY <1>2
<1> HIDE DEF I
<1>4. ASSUME \A k \in DOMAIN bucket : bucket[k] \notin M
      PROVE  FirstFor(bucket, method) = 0
  BY <1>1, <1>3, <1>4
<1>5. ASSUME NEW k \in DOMAIN bucket, IsFirst(bucket, k, M)
      PROVE  FirstFor(bucket, method) = k
  <2>1. k \in I
    BY <1>3, <1>5 DEF IsFirst
  <2>2. ASSUME NEW l \in I PROVE k <= l
    <3>1. l \in DOMAIN bucket /\ bucket[l] \in M
      BY <1>3
    <3>2. l \notin 1 .. k - 1
      BY <1>5, <3>1 DEF IsFirst
    <3> QED BY <1>2, <3>1, <3>2
  <2>3. \A l \in I : l \in Nat
    BY <1>2, <1>3
  <2>4. \A x \in I : (\A l \in I : x <= l) => x = k
    BY <1>2, <2>1, <2>2, <2>3
  <2>5. Min(I) = k
    BY <2>1, <2>2, <2>4, Zenon DEF Min
  <2> QED BY <1>1, <2>1, <2>5
<1> QED BY <1>4, <1>5

\* What a bucket is made of.
LEMMA BucketParts ==
  ASSUME NEW S, NEW list \in Seq(S), NEW p
  PROVE  \E group, named, any \in Seq(S) :
           /\ Bucket(list, p) = named \o any
           /\ \A M : Filtered(group, list, Len(list), {r \in ToSet(list) : r.path = p}, S, M)
           /\ \A M : Filtered(named, group, Len(group),
                              {r \in ToSet(group) : r.method # AnyMethod}, S, M)
           /\ \A M : Filtered(any, group, Len(group),
                              {r \in ToSet(group) : r.method = AnyMethod}, S, M)
<1> DEFINE group == Those(list, {r \in ToSet(list) : r.path = p})
<1>1. /\ group \in Seq(S)
      /\ \A M : Filtered(group, list, Len(list), {r \in ToSet(list) : r.path = p}, S, M)
  <2>1. \A M : Filtered(group, list, Len(list), {r \in ToSet(list) : r.path = p}, S, M)
    BY ThoseFilters
  <2> QED BY <2>1 DEF Filtered
<1>2. Bucket(list, p) = SpecificFirst(group)
  BY DEF Bucket
<1> HIDE DEF group
<1> DEFINE specific == {r \in ToSet(group) : r.method # AnyMethod}
           general == {r \in ToSet(group) : r.method = AnyMethod}
           named == Those(group, specific)
           any == Those(group, general)
<1>3. ToSet(group) \ general = specific
  OBVIOUS
<1>4. SpecificFirst(group) = named \o any
  <2> HIDE DEF specific
  <2> QED BY <1>3 DEF SpecificFirst
<1>5. /\ \A M : Filtered(named, group, Len(group), specific, S, M)
      /\ \A M : Filtered(any, group, Len(group), general, S, M)
  <2> HIDE DEF specific, general
  <2> QED BY <1>1, ThoseFilters
<1>6. named \in Seq(S) /\ any \in Seq(S)
  <2> HIDE DEF named, any, specific, general
  <2> QED BY <1>5 DEF Filtered
<1> HIDE DEF named, any
<1> QED BY <1>1, <1>2, <1>4, <1>5, <1>6

\* It is a sequence of routes of the list.
LEMMA BucketType ==
  ASSUME NEW S, NEW list \in Seq(S), NEW p
  PROVE  Bucket(list, p) \in Seq(S)
<1> DEFINE Parts(group, named, any) ==
             /\ Bucket(list, p) = named \o any
             /\ \A M : Filtered(group, list, Len(list), {r \in ToSet(list) : r.path = p}, S, M)
             /\ \A M : Filtered(named, group, Len(group),
                                {r \in ToSet(group) : r.method # AnyMethod}, S, M)
             /\ \A M : Filtered(any, group, Len(group),
                                {r \in ToSet(group) : r.method = AnyMethod}, S, M)
<1>1. PICK group, named, any \in Seq(S) : Parts(group, named, any)
  BY BucketParts
<1> QED BY <1>1

\* The first of the one kind is the first of the bucket, and the first of the
\* other if there is none of the one.
LEMMA FirstOfBoth ==
  ASSUME NEW S, NEW a \in Seq(S), NEW b \in Seq(S), NEW M, NEW k
  PROVE  /\ IsFirst(a, k, M) => /\ k \in DOMAIN (a \o b) /\ IsFirst(a \o b, k, M)
                                /\ (a \o b)[k] = a[k]
         /\ IsFirst(b, k, M) /\ (\A l \in DOMAIN a : a[l] \notin M) =>
              /\ Len(a) + k \in DOMAIN (a \o b) /\ IsFirst(a \o b, Len(a) + k, M)
              /\ (a \o b)[Len(a) + k] = b[k]
<1> DEFINE c == a \o b
<1>1. /\ DOMAIN a = 1 .. Len(a) /\ DOMAIN b = 1 .. Len(b)
      /\ Len(a) \in Nat /\ Len(b) \in Nat
      /\ DOMAIN c = 1 .. Len(a) + Len(b)
      /\ \A l \in DOMAIN a : c[l] = a[l]
      /\ \A l \in DOMAIN b : c[Len(a) + l] = b[l]
  OBVIOUS
<1> HIDE DEF c
<1>2. ASSUME IsFirst(a, k, M)
      PROVE  k \in DOMAIN c /\ IsFirst(c, k, M) /\ c[k] = a[k]
  <2>1. k \in DOMAIN a /\ k \in DOMAIN c /\ c[k] = a[k] /\ a[k] \in M
    BY <1>1, <1>2 DEF IsFirst
  <2>2. ASSUME NEW l \in 1 .. k - 1 PROVE c[l] \notin M
    <3>1. l \in DOMAIN a
      BY <1>1, <2>1
    <3> QED BY <1>1, <1>2, <3>1 DEF IsFirst
  <2> QED BY <2>1, <2>2 DEF IsFirst
<1>3. ASSUME IsFirst(b, k, M), \A l \in DOMAIN a : a[l] \notin M
      PROVE  Len(a) + k \in DOMAIN c /\ IsFirst(c, Len(a) + k, M) /\ c[Len(a) + k] = b[k]
  <2>1. /\ k \in DOMAIN b /\ Len(a) + k \in DOMAIN c /\ c[Len(a) + k] = b[k]
        /\ b[k] \in M
    BY <1>1, <1>3 DEF IsFirst
  <2>2. ASSUME NEW l \in 1 .. Len(a) + k - 1 PROVE c[l] \notin M
    <3>1. CASE l \in DOMAIN a
      BY <1>1, <1>3, <3>1
    <3>2. CASE l \notin DOMAIN a
      <4>1. l - Len(a) \in 1 .. k - 1 /\ l - Len(a) \in DOMAIN b
            /\ Len(a) + (l - Len(a)) = l
        BY <1>1, <2>1, <3>2
      <4>2. c[l] = b[l - Len(a)]
        BY <1>1, <4>1
      <4> QED BY <1>3, <4>1, <4>2 DEF IsFirst
    <3> QED BY <3>1, <3>2
  <2> QED BY <2>1, <2>2 DEF IsFirst
<1> QED BY <1>2, <1>3 DEF c

\* The bucket's first entry for a method is the route that decides.
LEMMA BucketDecides ==
  ASSUME NEW S, NEW list \in Seq(S), NEW p, NEW method, method # AnyMethod,
         NEW i, Decides(list, p, method, i)
  PROVE  /\ FirstFor(Bucket(list, p), method) \in DOMAIN Bucket(list, p)
         /\ Bucket(list, p)[FirstFor(Bucket(list, p), method)] = list[i]
<1> DEFINE W == {r \in ToSet(list) : r.path = p}
           ofMethod == {r \in S : r.method = method}
           ofAny == {r \in S : r.method = AnyMethod}
           M == {r \in S : MethodMatches(r, method)}
<1>1. PICK group, named, any \in Seq(S) :
        /\ Bucket(list, p) = named \o any
        /\ \A X : Filtered(group, list, Len(list), W, S, X)
        /\ \A X : Filtered(named, group, Len(group),
                           {r \in ToSet(group) : r.method # AnyMethod}, S, X)
        /\ \A X : Filtered(any, group, Len(group),
                           {r \in ToSet(group) : r.method = AnyMethod}, S, X)
  BY BucketParts
<1> DEFINE A == {r \in ToSet(group) : r.method # AnyMethod}
           B == {r \in ToSet(group) : r.method = AnyMethod}
<1>2. /\ \A l \in DOMAIN list : list[l] \in S /\ (list[l] \in W <=> list[l].path = p)
      /\ DOMAIN list = 1 .. Len(list) /\ Len(list) \in Nat
      /\ \A l \in 1 .. i - 1 : l \in DOMAIN list
  BY DEF Decides, ToSet
<1>3. /\ DOMAIN group = 1 .. Len(group)
      /\ \A l \in DOMAIN group : group[l] \in ToSet(group) /\ group[l] \in S
  BY DEF ToSet
<1>4. /\ \A l \in DOMAIN named : named[l] \in S /\ named[l].method # AnyMethod
      /\ \A l \in DOMAIN any : any[l] \in S /\ any[l].method = AnyMethod
  <2>1. Filtered(named, group, Len(group), A, S, M) /\ Filtered(any, group, Len(group), B, S, M)
    BY <1>1
  <2> HIDE DEF M
  <2> QED BY <2>1 DEF Filtered
<1>5. ASSUME NEW n, IsFirst(Bucket(list, p), n, M), Bucket(list, p)[n] = list[i]
      PROVE  /\ FirstFor(Bucket(list, p), method) \in DOMAIN Bucket(list, p)
             /\ Bucket(list, p)[FirstFor(Bucket(list, p), method)] = list[i]
  <2>1. Bucket(list, p) \in Seq(S)
    BY <1>1
  <2>2. n \in DOMAIN Bucket(list, p)
    BY <1>5 DEF IsFirst
  <2>3. FirstFor(Bucket(list, p), method) = n
    BY <1>5, <2>1, <2>2, FirstForIsFirst
  <2> QED BY <1>5, <2>2, <2>3
<1>6. CASE /\ list[i].method = method
           /\ \A j \in 1 .. i - 1 : ~(list[j].path = p /\ list[j].method = method)
  <2>1. IsFirst(list, i, W \cap ofMethod) /\ i \in 1 .. Len(list)
    BY <1>2, <1>6 DEF IsFirst, Decides
  <2>2. PICK k \in DOMAIN group : IsFirst(group, k, ofMethod) /\ group[k] = list[i]
    <3> HIDE DEF W, ofMethod
    <3> QED BY <1>1, <2>1 DEF Filtered
  <2>3. IsFirst(group, k, A \cap ofMethod)
    BY <1>3, <1>6, <2>2 DEF IsFirst
  <2>4. PICK m \in DOMAIN named : IsFirst(named, m, ofMethod) /\ named[m] = group[k]
    <3>1. Filtered(named, group, Len(group), A, S, ofMethod)
      BY <1>1
    <3> HIDE DEF A, ofMethod
    <3> QED BY <1>3, <2>3, <3>1 DEF Filtered
  <2>5. IsFirst(named, m, M)
    <3>1. \A l \in DOMAIN named : named[l] \in M <=> named[l] \in ofMethod
      BY <1>4 DEF MethodMatches
    <3>2. \A l \in 1 .. m - 1 : l \in DOMAIN named
      OBVIOUS
    <3> HIDE DEF M, ofMethod
    <3> QED BY <2>4, <3>1, <3>2 DEF IsFirst
  <2>6. IsFirst(named \o any, m, M) /\ (named \o any)[m] = list[i]
    <3> HIDE DEF M
    <3> QED BY <2>2, <2>4, <2>5, FirstOfBoth
  <2> HIDE DEF M
  <2> QED BY <1>1, <1>5, <2>6
<1>7. CASE /\ list[i].method = AnyMethod
           /\ \A j \in DOMAIN list : ~(list[j].path = p /\ list[j].method = method)
           /\ \A j \in 1 .. i - 1 : ~(list[j].path = p /\ list[j].method = AnyMethod)
  <2>1. IsFirst(list, i, W \cap ofAny) /\ i \in 1 .. Len(list)
    BY <1>2, <1>7 DEF IsFirst, Decides
  <2>2. PICK k \in DOMAIN group : IsFirst(group, k, ofAny) /\ group[k] = list[i]
    <3> HIDE DEF W, ofAny
    <3> QED BY <1>1, <2>1 DEF Filtered
  <2>3. IsFirst(group, k, B \cap ofAny)
    BY <1>3, <1>7, <2>2 DEF IsFirst
  <2>4. PICK m \in DOMAIN any : IsFirst(any, m, ofAny) /\ any[m] = group[k]
    <3>1. Filtered(any, group, Len(group), B, S, ofAny)
      BY <1>1
    <3> HIDE DEF B, ofAny
    <3> QED BY <1>3, <2>3, <3>1 DEF Filtered
  <2>5. ASSUME NEW l \in DOMAIN group PROVE group[l].method # method
    <3>1. PICK j \in 1 .. Len(list) : group[l] = list[j]
      BY <1>1 DEF Filtered
    <3>2. list[j].path = p
      BY <1>1, <3>1 DEF Filtered
    <3> QED BY <1>2, <1>7, <3>1, <3>2
  <2>6. ASSUME NEW l \in DOMAIN named PROVE named[l] \notin M
    <3>1. \E j \in 1 .. Len(group) : named[l] = group[j]
      BY <1>1 DEF Filtered
    <3> QED BY <1>3, <1>4, <2>5, <3>1 DEF MethodMatches
  <2>7. IsFirst(any, m, M)
    <3>1. ASSUME NEW l \in DOMAIN any PROVE any[l] \in M /\ any[l] \in ofAny
      BY <1>4 DEF MethodMatches
    <3>2. \A l \in 1 .. m - 1 : l \in DOMAIN any
      OBVIOUS
    <3> HIDE DEF M, ofAny
    <3> QED BY <2>4, <3>1, <3>2 DEF IsFirst
  <2>8. IsFirst(named \o any, Len(named) + m, M) /\ (named \o any)[Len(named) + m] = list[i]
    <3> HIDE DEF M
    <3> QED BY <2>2, <2>4, <2>6, <2>7, FirstOfBoth
  <2> HIDE DEF M
  <2> QED BY <1>1, <1>5, <2>8
<1> QED BY <1>6, <1>7 DEF Decides

\* A bucket without an entry for the method is one of no route for it.
LEMMA BucketSilent ==
  ASSUME NEW S, NEW list \in Seq(S), NEW p, NEW method,
         \A j \in DOMAIN list : ~(list[j].path = p /\ MethodMatches(list[j], method))
  PROVE  FirstFor(Bucket(list, p), method) = 0
<1> DEFINE W == {r \in ToSet(list) : r.path = p}
           M == {r \in S : MethodMatches(r, method)}
<1>1. PICK group, named, any \in Seq(S) :
        /\ Bucket(list, p) = named \o any
        /\ \A X : Filtered(group, list, Len(list), W, S, X)
        /\ \A X : Filtered(named, group, Len(group),
                           {r \in ToSet(group) : r.method # AnyMethod}, S, X)
        /\ \A X : Filtered(any, group, Len(group),
                           {r \in ToSet(group) : r.method = AnyMethod}, S, X)
  BY BucketParts
<1>2. ASSUME NEW l \in DOMAIN group PROVE group[l] \notin M
  <2>1. PICK j \in 1 .. Len(list) : group[l] = list[j]
    BY <1>1 DEF Filtered
  <2>2. group[l].path = p
    BY <1>1 DEF Filtered
  <2> QED BY <2>1, <2>2
<1>3. DOMAIN group = 1 .. Len(group)
  OBVIOUS
<1>4. /\ \A l \in DOMAIN named : named[l] \notin M
      /\ \A l \in DOMAIN any : any[l] \notin M
  <2> DEFINE A == {r \in ToSet(group) : r.method # AnyMethod}
             B == {r \in ToSet(group) : r.method = AnyMethod}
  <2>1. Filtered(named, group, Len(group), A, S, M) /\ Filtered(any, group, Len(group), B, S, M)
    BY <1>1
  <2> HIDE DEF A, B, M
  <2> QED BY <1>2, <1>3, <2>1 DEF Filtered
<1> HIDE DEF M
<1>5. ASSUME NEW k \in DOMAIN (named \o any) PROVE (named \o any)[k] \notin M
  <2>1. CASE k \in DOMAIN named
    BY <1>4, <2>1
  <2>2. CASE k \notin DOMAIN named
    <3>1. k - Len(named) \in DOMAIN any /\ (named \o any)[k] = any[k - Len(named)]
      BY <2>2
    <3> QED BY <1>4, <3>1
  <2> QED BY <2>1, <2>2
<1>6. Bucket(list, p) \in Seq(S)
  BY <1>1
<1> QED BY <1>1, <1>5, <1>6, FirstForIsFirst DEF M

-----------------------------------------------------------------------------
(* The pattern of a request.                                               *)

\* Patterns are sequences.
LEMMA PatternType ==
  ASSUME NEW list \in Seq(Route), NEW p \in Patterns(list)
  PROVE  DOMAIN p = 1 .. Len(p) /\ Len(p) \in Nat
<1>1. PICK i \in DOMAIN list : p = list[i].path
  BY DEF Patterns
<1>2. list[i] \in Route
  OBVIOUS
<1>3. p \in Seq(ToSet(p))
  BY <1>1, <1>2, RegistryAssumption
<1> HIDE DEF ToSet
<1> QED BY <1>3

\* Of two patterns, at most one is preferred to the other.
LEMMA PreferenceIsStrict ==
  ASSUME NEW p, DOMAIN p \subseteq Nat \ {0}, NEW q, DOMAIN q \subseteq Nat \ {0},
         MoreSpecific(p, q), MoreSpecific(q, p)
  PROVE  FALSE
<1>1. PICK i \in DOMAIN p : /\ p[i] \notin Param /\ q[i] \in Param
                            /\ \A j \in 1 .. i - 1 : p[j] \in Param <=> q[j] \in Param
  BY DEF MoreSpecific
<1>2. PICK k \in DOMAIN q : /\ q[k] \notin Param /\ p[k] \in Param
                            /\ \A j \in 1 .. k - 1 : q[j] \in Param <=> p[j] \in Param
  BY DEF MoreSpecific
<1>3. i \in Nat \ {0} /\ k \in Nat \ {0} /\ i # k
  BY <1>1, <1>2
<1>4. i \in 1 .. k - 1 \/ k \in 1 .. i - 1
  BY <1>3
<1> QED BY <1>1, <1>2, <1>4

\* Preference can be followed from one pattern to the next.
LEMMA PreferenceIsTransitive ==
  ASSUME NEW n \in Nat, NEW p, NEW q, NEW r,
         DOMAIN p = 1 .. n, DOMAIN q = 1 .. n, DOMAIN r = 1 .. n,
         MoreSpecific(p, q), MoreSpecific(q, r)
  PROVE  MoreSpecific(p, r)
<1>1. PICK i \in 1 .. n : /\ p[i] \notin Param /\ q[i] \in Param
                          /\ \A j \in 1 .. i - 1 : p[j] \in Param <=> q[j] \in Param
  BY DEF MoreSpecific
<1>2. PICK k \in 1 .. n : /\ q[k] \notin Param /\ r[k] \in Param
                          /\ \A j \in 1 .. k - 1 : q[j] \in Param <=> r[j] \in Param
  BY DEF MoreSpecific
<1>3. CASE i < k
  <2>1. r[i] \in Param
    BY <1>1, <1>2, <1>3
  <2>2. \A j \in 1 .. i - 1 : p[j] \in Param <=> r[j] \in Param
    BY <1>1, <1>2, <1>3
  <2> QED BY <1>1, <2>1, <2>2 DEF MoreSpecific
<1>4. CASE k < i
  <2>1. p[k] \notin Param
    BY <1>1, <1>2, <1>4
  <2>2. \A j \in 1 .. k - 1 : p[j] \in Param <=> r[j] \in Param
    BY <1>1, <1>2, <1>4
  <2> QED BY <1>2, <2>1, <2>2 DEF MoreSpecific
<1>5. i # k
  BY <1>1, <1>2
<1> QED BY <1>3, <1>4, <1>5

\* Of two patterns a path matches, one is preferred, unless they conflict.
LEMMA PreferenceIsTotal ==
  ASSUME NEW n \in Nat, NEW p, NEW q, DOMAIN p = 1 .. n, DOMAIN q = 1 .. n,
         Len(p) = n, Len(q) = n, p # q, ~Conflict(p, q),
         NEW path, PatternMatches(p, path), PatternMatches(q, path)
  PROVE  MoreSpecific(p, q) \/ MoreSpecific(q, p)
<1> DEFINE D == {i \in 1 .. n : ~(p[i] \in Param <=> q[i] \in Param)}
<1>1. D # {}
  <2>1. PICK i \in 1 .. n : ~(p[i] = q[i] \/ {p[i], q[i]} \subseteq Param)
    BY DEF Conflict
  <2>2. (p[i] \in Param \/ p[i] = path[i]) /\ (q[i] \in Param \/ q[i] = path[i])
    BY DEF PatternMatches
  <2> QED BY <2>1, <2>2
<1>2. PICK i \in D : \A j \in D : i <= j
  <2>1. D \in SUBSET Nat
    OBVIOUS
  <2> HIDE DEF D
  <2> QED BY <1>1, <2>1, Least
<1>3. ASSUME NEW j \in 1 .. i - 1 PROVE p[j] \in Param <=> q[j] \in Param
  <2>1. j \in 1 .. n /\ ~(i <= j)
    OBVIOUS
  <2> QED BY <1>2, <2>1
<1> QED BY <1>2, <1>3 DEF MoreSpecific

\* The router is not at a loss: in a table that can be built, a path that some
\* pattern matches has one pattern that is preferred to all others (the rule
\* of matchit that RouteRegistry::build and ::lookup rely on).
THEOREM OnePatternWins ==
  ASSUME NEW list \in Seq(Route), Buildable(list),
         NEW path, NEW some \in Patterns(list), PatternMatches(some, path)
  PROVE  \E p \in Patterns(list) : RouterAt(list, path) = {p}
<1> DEFINE matching == {p \in Patterns(list) : PatternMatches(p, path)}
           Wins(p, m) == /\ p \in matching
                         /\ \A j \in 1 .. m : list[j].path \in matching \ {p} =>
                              MoreSpecific(p, list[j].path)
           good == {m \in 0 .. Len(list) :
                      (\E j \in 1 .. m : list[j].path \in matching) => \E p : Wins(p, m)}
<1>1. /\ Len(list) \in Nat
      /\ \A p \in Patterns(list) : \E j \in 1 .. Len(list) : list[j].path = p
      /\ \A j \in 1 .. Len(list) : list[j].path \in Patterns(list)
  BY DEF Patterns
<1>2. \A p \in matching :
        /\ p \in Patterns(list) /\ PatternMatches(p, path) /\ Len(path) \in Nat
        /\ DOMAIN p = 1 .. Len(path) /\ Len(p) = Len(path)
  BY PatternType DEF PatternMatches
<1>3. 0 \in good
  BY <1>1
<1>4. ASSUME NEW m \in 1 .. Len(list), m - 1 \in good PROVE m \in good
  <2> DEFINE q == list[m].path
  <2>1. /\ m \in 0 .. Len(list)
        /\ \A j \in 1 .. m : j \in 1 .. m - 1 \/ j = m
    OBVIOUS
  <2>2. CASE q \notin matching
    <3>1. \A p : Wins(p, m - 1) => Wins(p, m)
      BY <2>1, <2>2
    <3>2. (\E j \in 1 .. m : list[j].path \in matching) =>
            \E j \in 1 .. m - 1 : list[j].path \in matching
      BY <2>1, <2>2
    <3> HIDE DEF Wins, matching
    <3> QED BY <1>4, <2>1, <3>1, <3>2
  <2>3. CASE q \in matching /\ ~\E j \in 1 .. m - 1 : list[j].path \in matching
    <3>1. Wins(q, m)
      BY <2>1, <2>3
    <3> HIDE DEF Wins, matching, q
    <3> QED BY <2>1, <3>1
  <2>4. CASE q \in matching /\ \E j \in 1 .. m - 1 : list[j].path \in matching
    <3>1. PICK p : Wins(p, m - 1)
      <4> HIDE DEF Wins, matching
      <4> QED BY <1>4, <2>4
    <3>2. CASE p = q
      <4>1. Wins(p, m)
        BY <2>1, <3>1, <3>2
      <4> HIDE DEF Wins, matching
      <4> QED BY <2>1, <4>1
    <3>3. CASE p # q
      <4>1. /\ p \in matching /\ DOMAIN p = 1 .. Len(path) /\ Len(p) = Len(path)
            /\ DOMAIN q = 1 .. Len(path) /\ Len(q) = Len(path) /\ Len(path) \in Nat
            /\ PatternMatches(p, path) /\ PatternMatches(q, path)
        BY <1>2, <2>4, <3>1
      <4>2. ~Conflict(p, q)
        BY <2>4, <4>1 DEF Buildable
      <4> HIDE DEF q
      <4>3. CASE MoreSpecific(p, q)
        <5>1. Wins(p, m)
          BY <2>1, <3>1, <4>3 DEF q
        <5> HIDE DEF Wins, matching
        <5> QED BY <2>1, <5>1
      <4>4. CASE MoreSpecific(q, p)
        <5>1. ASSUME NEW j \in 1 .. m - 1, list[j].path \in matching \ {q}
              PROVE  MoreSpecific(q, list[j].path)
          <6>1. CASE list[j].path = p
            BY <4>4, <6>1
          <6>2. CASE list[j].path # p
            <7>1. MoreSpecific(p, list[j].path)
              BY <3>1, <5>1, <6>2
            <7>2. DOMAIN list[j].path = 1 .. Len(path)
              BY <1>2, <5>1
            <7> QED BY <4>1, <4>4, <7>1, <7>2, PreferenceIsTransitive
          <6> QED BY <6>1, <6>2
        <5>2. Wins(q, m)
          BY <2>1, <2>4, <5>1 DEF q
        <5> HIDE DEF Wins, matching
        <5> QED BY <2>1, <5>2
      <4> QED BY <3>3, <4>1, <4>2, <4>3, <4>4, PreferenceIsTotal
    <3> QED BY <3>2, <3>3
  <2> QED BY <2>2, <2>3, <2>4
<1>5. Len(list) \in good
  <2> HIDE DEF good
  <2>1. \A m \in 0 .. Len(list) : m \in good
    BY <1>1, <1>3, <1>4, Upward
  <2> QED BY <1>1, <2>1
<1>6. PICK p : Wins(p, Len(list))
  BY <1>1, <1>5
<1>7. ASSUME NEW q \in matching \ {p} PROVE MoreSpecific(p, q)
  <2>1. PICK j \in 1 .. Len(list) : list[j].path = q
    BY <1>1
  <2> QED BY <1>6, <2>1
<1>8. p \in RouterAt(list, path)
  BY <1>6, <1>7 DEF RouterAt
<1>9. ASSUME NEW q \in RouterAt(list, path) PROVE q = p
  <2>1. q \in matching /\ p \in matching
    BY <1>8 DEF RouterAt
  <2>2. q # p => MoreSpecific(q, p) /\ MoreSpecific(p, q)
    BY <1>7, <1>8, <2>1 DEF RouterAt
  <2>3. DOMAIN p \subseteq Nat \ {0} /\ DOMAIN q \subseteq Nat \ {0}
    <3>1. DOMAIN p = 1 .. Len(path) /\ DOMAIN q = 1 .. Len(path) /\ Len(path) \in Nat
      BY <1>2, <2>1
    <3> QED BY <3>1
  <2> HIDE DEF matching
  <2> QED BY <2>2, <2>3, PreferenceIsStrict
<1> QED BY <1>8, <1>9 DEF RouterAt

-----------------------------------------------------------------------------
(* Lookups.                                                                *)

\* The deciding route of RouteRegistry is the one of the winning pattern.
LEMMA DecidingIs ==
  ASSUME routes \in Seq(Route), NEW method \in Method, NEW path, NEW p,
         RouterAt(routes, path) = {p}
  PROVE  \A i : i \in Deciding(method, path) <=> Decides(routes, p, method, i)
<1> DEFINE accepts == {i \in DOMAIN routes :
                         /\ routes[i].path \in RouterAt(routes, path)
                         /\ MethodMatches(routes[i], method)}
           named == {i \in accepts : routes[i].method = method}
<1>1. \A i : i \in Deciding(method, path) <=>
               i \in accepts /\ \A j \in accepts :
                 \/ i \in named /\ j \notin named
                 \/ (i \in named <=> j \in named) /\ i <= j
  BY DEF Deciding
<1>2. \A i : i \in accepts <=> /\ i \in DOMAIN routes /\ routes[i].path = p
                               /\ routes[i].method \in {method, AnyMethod}
  BY DEF MethodMatches
<1>3. \A i : i \in named <=> /\ i \in DOMAIN routes /\ routes[i].path = p
                             /\ routes[i].method = method
  BY <1>2
<1>4. /\ method # AnyMethod
      /\ DOMAIN routes = 1 .. Len(routes) /\ Len(routes) \in Nat
  BY RegistryAssumption
<1> HIDE DEF accepts, named
<1>5. ASSUME NEW i, i \in Deciding(method, path) PROVE Decides(routes, p, method, i)
  <2>1. i \in accepts /\ i \in 1 .. Len(routes)
    BY <1>1, <1>2, <1>4, <1>5
  <2>2. \A j \in 1 .. i - 1 : j \in DOMAIN routes /\ ~(i <= j)
    BY <1>4, <2>1
  <2>3. CASE i \in named
    <3>1. ASSUME NEW j \in 1 .. i - 1, j \in named PROVE FALSE
      <4>1. j \in accepts
        BY <1>2, <1>3, <3>1
      <4> QED BY <1>1, <1>5, <2>2, <2>3, <3>1, <4>1
    <3> QED BY <1>2, <1>3, <1>4, <2>1, <2>2, <2>3, <3>1 DEF Decides
  <2>4. CASE i \notin named
    <3>1. routes[i].method = AnyMethod
      BY <1>2, <1>3, <2>1, <2>4
    <3>2. \A j \in DOMAIN routes : j \notin named
      BY <1>1, <1>2, <1>3, <1>5, <2>4
    <3>3. \A j \in 1 .. i - 1 : j \notin accepts
      BY <1>1, <1>5, <2>2, <2>4
    <3> QED BY <1>2, <1>3, <1>4, <2>1, <2>2, <3>1, <3>2, <3>3 DEF Decides
  <2> QED BY <2>3, <2>4
<1>6. ASSUME NEW i, Decides(routes, p, method, i) PROVE i \in Deciding(method, path)
  <2>1. i \in accepts /\ i \in 1 .. Len(routes)
    BY <1>2, <1>4, <1>6 DEF Decides
  <2>2. ASSUME NEW j \in accepts
        PROVE  \/ i \in named /\ j \notin named
               \/ (i \in named <=> j \in named) /\ i <= j
    <3>1. j \in 1 .. Len(routes) /\ routes[j].path = p
          /\ routes[j].method \in {method, AnyMethod} /\ (i <= j \/ j \in 1 .. i - 1)
      BY <1>2, <1>4, <2>1
    <3>2. CASE /\ routes[i].method = method
               /\ \A k \in 1 .. i - 1 : ~(routes[k].path = p /\ routes[k].method = method)
      BY <1>3, <1>4, <1>6, <3>1, <3>2 DEF Decides
    <3>3. CASE /\ routes[i].method = AnyMethod
               /\ \A k \in DOMAIN routes : ~(routes[k].path = p /\ routes[k].method = method)
               /\ \A k \in 1 .. i - 1 : ~(routes[k].path = p /\ routes[k].method = AnyMethod)
      BY <1>3, <1>4, <3>1, <3>3
    <3> QED BY <1>6, <3>2, <3>3 DEF Decides
  <2> QED BY <1>1, <2>1, <2>2
<1> QED BY <1>5, <1>6

\* What a lookup does with the first entry of the bucket.
LEMMA LookupIs ==
  ASSUME NEW list, NEW method, NEW path, NEW p, RouterAt(list, path) = {p},
         NEW f, f = FirstFor(Bucket(list, p), method)
  PROVE  /\ f = 0 \/ Bucket(list, p)[f].responses = <<>> =>
              Lookup(list, method, path) = NoEntry
         /\ f # 0 /\ Bucket(list, p)[f].responses # <<>> =>
              /\ Lookup(list, method, path) # NoEntry
              /\ EntryAt(list, Lookup(list, method, path)) = Bucket(list, p)[f]
<1> DEFINE first(q) == FirstFor(Bucket(list, q), method)
           hits == {q \in RouterAt(list, path) :
                      first(q) # 0 /\ Bucket(list, q)[first(q)].responses # <<>>}
           hit == CHOOSE q \in hits : TRUE
<1>1. Lookup(list, method, path)
        = IF hits = {} THEN NoEntry ELSE [path |-> hit, index |-> first(hit)]
  BY DEF Lookup
<1>2. \A q : q \in hits <=> /\ q = p /\ first(q) # 0
                            /\ Bucket(list, q)[first(q)].responses # <<>>
  OBVIOUS
<1>3. hits # {} => hit \in hits
  OBVIOUS
<1>4. ASSUME f = 0 \/ Bucket(list, p)[f].responses = <<>>
      PROVE  Lookup(list, method, path) = NoEntry
  <2>1. hits = {}
    BY <1>2, <1>4
  <2> HIDE DEF hits, hit
  <2> QED BY <1>1, <2>1
<1>5. ASSUME f # 0, Bucket(list, p)[f].responses # <<>>
      PROVE  /\ Lookup(list, method, path) # NoEntry
             /\ EntryAt(list, Lookup(list, method, path)) = Bucket(list, p)[f]
  <2>1. p \in hits
    BY <1>2, <1>5
  <2>2. hit = p
    <3> HIDE DEF hit
    <3> QED BY <1>2, <1>3, <2>1
  <2> HIDE DEF hits, hit
  <2>3. Lookup(list, method, path) = [path |-> p, index |-> f]
    BY <1>1, <2>1, <2>2
  <2> HIDE DEF first
  <2> QED BY <1>5, <2>3 DEF NoEntry, EntryAt
<1> QED BY <1>4, <1>5

\* No pattern, no entry.
LEMMA LookupNothing ==
  ASSUME NEW list, NEW method, NEW path, RouterAt(list, path) = {}
  PROVE  Lookup(list, method, path) = NoEntry
<1> DEFINE first(q) == FirstFor(Bucket(list, q), method)
           hits == {q \in RouterAt(list, path) :
                      first(q) # 0 /\ Bucket(list, q)[first(q)].responses # <<>>}
           hit == CHOOSE q \in hits : TRUE
<1>1. Lookup(list, method, path)
        = IF hits = {} THEN NoEntry ELSE [path |-> hit, index |-> first(hit)]
  BY DEF Lookup
<1>2. hits = {}
  OBVIOUS
<1> HIDE DEF hits, hit
<1> QED BY <1>1, <1>2

\* The router wins by a pattern that is the only one, or by none.
LEMMA RouterAnswers ==
  ASSUME NEW list \in Seq(Route), Buildable(list), NEW path
  PROVE  RouterAt(list, path) = {} \/ \E p : RouterAt(list, path) = {p}
<1>1. CASE \E some \in Patterns(list) : PatternMatches(some, path)
  BY <1>1, OnePatternWins
<1>2. CASE ~\E some \in Patterns(list) : PatternMatches(some, path)
  BY <1>2 DEF RouterAt
<1> QED BY <1>1, <1>2

\* If a route accepts the request, one decides.
LEMMA SomeDecides ==
  ASSUME NEW list \in Seq(Route), NEW p, NEW method,
         NEW k \in DOMAIN list, list[k].path = p, MethodMatches(list[k], method)
  PROVE  \E i \in DOMAIN list : Decides(list, p, method, i)
<1> DEFINE ofMethod == {r \in Route : r.path = p /\ r.method = method}
           ofAny == {r \in Route : r.path = p /\ r.method = AnyMethod}
<1>1. /\ \A j \in DOMAIN list : list[j] \in Route
      /\ DOMAIN list = 1 .. Len(list) /\ Len(list) \in Nat
  OBVIOUS
<1>2. /\ \A j \in DOMAIN list :
           list[j] \in ofMethod <=> list[j].path = p /\ list[j].method = method
      /\ \A j \in DOMAIN list :
           list[j] \in ofAny <=> list[j].path = p /\ list[j].method = AnyMethod
  BY <1>1
<1> HIDE DEF ofMethod, ofAny
<1>3. CASE \E j \in DOMAIN list : list[j] \in ofMethod
  <2>1. PICK i \in DOMAIN list : IsFirst(list, i, ofMethod)
    BY <1>3, SomeFirst
  <2>2. \A j \in 1 .. i - 1 : j \in DOMAIN list
    BY <1>1
  <2> QED BY <1>2, <2>1, <2>2 DEF IsFirst, Decides
<1>4. CASE ~\E j \in DOMAIN list : list[j] \in ofMethod
  <2>1. list[k] \in ofAny
    BY <1>2, <1>4 DEF MethodMatches
  <2>2. PICK i \in DOMAIN list : IsFirst(list, i, ofAny)
    BY <2>1, SomeFirst
  <2>3. \A j \in 1 .. i - 1 : j \in DOMAIN list
    BY <1>1
  <2> QED BY <1>2, <1>4, <2>2, <2>3 DEF IsFirst, Decides
<1> QED BY <1>3, <1>4

\* A lookup finds the deciding route, or nothing if it has no responses or
\* there is none.
LEMMA DecidingRouteFound ==
  ASSUME routes \in Seq(Route), Buildable(routes)
  PROVE  FindsTheDecidingRoute
<1> SUFFICES ASSUME NEW method \in Method, NEW path \in Path
             PROVE  IF Lookup(routes, method, path) = NoEntry
                    THEN \A i \in Deciding(method, path) : routes[i].responses = <<>>
                    ELSE \E i \in Deciding(method, path) :
                           EntryAt(routes, Lookup(routes, method, path)) = routes[i]
  BY DEF FindsTheDecidingRoute
<1>1. CASE RouterAt(routes, path) = {}
  <2>1. Deciding(method, path) = {}
    BY <1>1 DEF Deciding
  <2> QED BY <1>1, <2>1, LookupNothing
<1>2. ASSUME NEW p, RouterAt(routes, path) = {p}
      PROVE  IF Lookup(routes, method, path) = NoEntry
             THEN \A i \in Deciding(method, path) : routes[i].responses = <<>>
             ELSE \E i \in Deciding(method, path) :
                    EntryAt(routes, Lookup(routes, method, path)) = routes[i]
  <2> DEFINE f == FirstFor(Bucket(routes, p), method)
  <2>1. \A i : i \in Deciding(method, path) <=> Decides(routes, p, method, i)
    BY <1>2, DecidingIs
  <2>2. method # AnyMethod
    BY RegistryAssumption
  <2>3. CASE \E k \in DOMAIN routes :
               routes[k].path = p /\ MethodMatches(routes[k], method)
    <3>1. PICK i : Decides(routes, p, method, i)
      BY <2>3, SomeDecides
    <3>2. \A j : Decides(routes, p, method, j) =>
                   f \in DOMAIN Bucket(routes, p) /\ Bucket(routes, p)[f] = routes[j]
      BY <2>2, BucketDecides
    <3>3. f # 0
      <4>1. Bucket(routes, p) \in Seq(Route)
        BY BucketType
      <4> HIDE DEF f
      <4> QED BY <3>1, <3>2, <4>1
    <3> HIDE DEF f
    <3>4. /\ Bucket(routes, p)[f].responses = <<>> =>
               Lookup(routes, method, path) = NoEntry
          /\ Bucket(routes, p)[f].responses # <<>> =>
               /\ Lookup(routes, method, path) # NoEntry
               /\ EntryAt(routes, Lookup(routes, method, path)) = Bucket(routes, p)[f]
      BY <1>2, <3>3, LookupIs DEF f
    <3> QED BY <2>1, <3>1, <3>2, <3>4
  <2>4. CASE ~\E k \in DOMAIN routes :
                routes[k].path = p /\ MethodMatches(routes[k], method)
    <3>1. f = 0
      BY <2>4, BucketSilent
    <3>2. Lookup(routes, method, path) = NoEntry
      BY <1>2, <3>1, LookupIs
    <3>3. \A i : ~Decides(routes, p, method, i)
      BY <2>4 DEF Decides, MethodMatches
    <3> QED BY <2>1, <3>2, <3>3
  <2> QED BY <2>3, <2>4
<1> QED BY <1>1, <1>2, RouterAnswers

-----------------------------------------------------------------------------
(* Overrides.                                                              *)

\* An override takes the place of the first route for its method and path, or
\* the last place.
LEMMA OverridePlace ==
  ASSUME NEW list \in Seq(Route), NEW r \in Route
  PROVE  /\ Override(list, r) \in Seq(Route)
         /\ \E n \in DOMAIN Override(list, r) :
              /\ Override(list, r)[n] = r
              /\ \A j \in 1 .. n - 1 :
                   /\ j \in DOMAIN list
                   /\ ~(list[j].path = r.path /\ list[j].method = r.method)
              /\ \A j \in DOMAIN Override(list, r) \ {n} :
                   j \in DOMAIN list /\ Override(list, r)[j] = list[j]
<1> DEFINE I == {j \in 1 .. Len(list) : list[j].path = r.path /\ list[j].method = r.method}
           i == SelectInSeq(list, LAMBDA x : x.path = r.path /\ x.method = r.method)
           new == Override(list, r)
<1>1. new = IF i = 0 THEN Append(list, r) ELSE ReplaceAt(list, i, r)
  BY DEF Override
<1>2. i = IF I # {} THEN Min(I) ELSE 0
  BY Zenon DEF SelectInSeq
<1>3. /\ DOMAIN list = 1 .. Len(list) /\ Len(list) \in Nat
      /\ \A j \in DOMAIN list : list[j] \in Route
      /\ I \in SUBSET Nat
      /\ \A j : j \in I <=> /\ j \in DOMAIN list
                            /\ list[j].path = r.path /\ list[j].method = r.method
  OBVIOUS
<1> HIDE DEF i, I, new
<1>4. CASE I = {}
  <2>1. new = Append(list, r)
    <3>1. i = 0
      BY <1>2, <1>4
    <3> QED BY <1>1, <3>1
  <2>2. /\ new \in Seq(Route) /\ DOMAIN new = 1 .. Len(list) + 1
        /\ new[Len(list) + 1] = r /\ Len(list) + 1 \in DOMAIN new
        /\ \A j \in DOMAIN list : new[j] = list[j]
    BY <1>3, <2>1
  <2>3. \A j \in 1 .. Len(list) + 1 - 1 : j \in DOMAIN list /\ j \notin I
    BY <1>3, <1>4
  <2>4. \A j \in DOMAIN new \ {Len(list) + 1} : j \in DOMAIN list
    BY <1>3, <2>2
  <2> QED BY <1>3, <2>2, <2>3, <2>4 DEF new
<1>5. CASE I # {}
  <2>1. i \in I /\ \A j \in I : i <= j
    <3>1. \E x \in I : \A y \in I : x <= y
      BY <1>3, <1>5, Least
    <3>2. Min(I) \in I /\ \A y \in I : Min(I) <= y
      BY <3>1 DEF Min
    <3> QED BY <1>2, <1>5, <3>2
  <2>2. i # 0 /\ i \in DOMAIN list
    BY <1>3, <2>1
  <2>3. new = [list EXCEPT ![i] = r]
    BY <1>1, <2>2 DEF ReplaceAt
  <2>4. /\ DOMAIN new = 1 .. Len(list) /\ new = [j \in 1 .. Len(list) |-> new[j]]
        /\ new[i] = r /\ i \in DOMAIN new
        /\ \A j \in DOMAIN list \ {i} : new[j] = list[j]
    BY <1>3, <2>2, <2>3
  <2>5. \A j \in 1 .. Len(list) : new[j] \in Route
    BY <1>3, <2>4
  <2>6. new \in Seq(Route)
    BY <1>3, <2>4, <2>5
  <2>7. \A j \in 1 .. i - 1 : j \in DOMAIN list /\ j \notin I
    BY <1>3, <2>1
  <2> QED BY <1>3, <2>4, <2>6, <2>7 DEF new
<1> QED BY <1>4, <1>5

\* The list holds routes a file can declare.
RegistryInv == routes \in Seq(Route)

LEMMA RegistryInvHolds == RegistrySpec => []RegistryInv
<1>1. RegistryInit => RegistryInv
  BY DEF RegistryInit, RegistryInv
<1>2. RegistryInv /\ [RegistryNext]_registry_vars => RegistryInv'
  <2> SUFFICES ASSUME routes \in Seq(Route), [RegistryNext]_registry_vars
               PROVE  routes' \in Seq(Route)
    BY DEF RegistryInv
  <2>1. ASSUME NEW r \in Route, Ingest(r) PROVE routes' \in Seq(Route)
    BY <2>1 DEF Ingest
  <2>2. ASSUME NEW r \in Route, Sidecar(r) PROVE routes' \in Seq(Route)
    <3>1. Override(routes, r) \in Seq(Route)
      BY OverridePlace
    <3> QED BY <2>2, <3>1 DEF Sidecar
  <2> QED BY <2>1, <2>2 DEF RegistryNext, registry_vars
<1> QED BY <1>1, <1>2, PTL DEF RegistrySpec

\* After an override, the first entry for its requests is the override.
LEMMA OverrideDecides ==
  ASSUME RegistryInv, NEW r \in Route, Sidecar(r), r.responses # <<>>,
         NEW method \in Method, NEW path,
         RouterAt(routes', path) = {r.path},
         \/ r.method = method
         \/ r.method = AnyMethod
            /\ \A i \in DOMAIN routes : routes[i].path = r.path => routes[i].method # method
  PROVE  /\ Lookup(routes', method, path) # NoEntry
         /\ EntryAt(routes', Lookup(routes', method, path)) = r
<1>1. routes' = Override(routes, r) /\ routes \in Seq(Route)
  BY DEF Sidecar, RegistryInv
<1>2. routes' \in Seq(Route)
  BY <1>1, OverridePlace
<1> DEFINE Place(new) ==
      \E n \in DOMAIN new :
        /\ new[n] = r
        /\ \A j \in 1 .. n - 1 :
             j \in DOMAIN routes /\ ~(routes[j].path = r.path /\ routes[j].method = r.method)
        /\ \A j \in DOMAIN new \ {n} : j \in DOMAIN routes /\ new[j] = routes[j]
<1>3. Place(Override(routes, r))
  BY <1>1, OverridePlace
<1>4. PICK n \in DOMAIN routes' :
        /\ routes'[n] = r
        /\ \A j \in 1 .. n - 1 :
             j \in DOMAIN routes /\ ~(routes[j].path = r.path /\ routes[j].method = r.method)
        /\ \A j \in DOMAIN routes' \ {n} : j \in DOMAIN routes /\ routes'[j] = routes[j]
  <2>1. Place(routes')
    <3> HIDE DEF Place
    <3> QED BY <1>1, <1>3
  <2> QED BY <2>1
<1>5. method # AnyMethod
  BY RegistryAssumption
<1>6. \A j \in 1 .. n - 1 : j \in DOMAIN routes' \ {n}
  BY <1>2
<1>7. Decides(routes', r.path, method, n)
  <2>1. \A j \in 1 .. n - 1 : ~(routes'[j].path = r.path /\ routes'[j].method = r.method)
    BY <1>4, <1>6
  <2>2. CASE r.method = method
    BY <1>4, <2>1, <2>2 DEF Decides
  <2>3. CASE r.method = AnyMethod
             /\ \A i \in DOMAIN routes : routes[i].path = r.path => routes[i].method # method
    <3>1. \A j \in DOMAIN routes' : ~(routes'[j].path = r.path /\ routes'[j].method = method)
      BY <1>4, <1>5, <2>3
    <3> QED BY <1>4, <2>1, <2>3, <3>1 DEF Decides
  <2> QED BY <2>2, <2>3
<1> DEFINE f == FirstFor(Bucket(routes', r.path), method)
<1>8. f \in DOMAIN Bucket(routes', r.path) /\ Bucket(routes', r.path)[f] = r
  BY <1>2, <1>4, <1>5, <1>7, BucketDecides
<1>9. f # 0
  <2>1. Bucket(routes', r.path) \in Seq(Route)
    BY <1>2, BucketType
  <2> HIDE DEF f
  <2> QED BY <1>8, <2>1
<1> HIDE DEF f
<1> QED BY <1>8, <1>9, LookupIs DEF f

-----------------------------------------------------------------------------
(* Theorems.                                                               *)

\* RouteRegistry::build and ::lookup find, for every request, the route the
\* order of the file decides on within the most specific pattern, whatever a
\* file declares.  (The documentation would search the other patterns too.)
THEOREM DecidingRouteIsFound == RegistrySpec => []FindsTheDecidingRoute
<1>1. RegistryInv => FindsTheDecidingRoute
  <2>1. CASE Buildable(routes)
    BY <2>1, DecidingRouteFound DEF RegistryInv
  <2>2. CASE ~Buildable(routes)
    BY <2>2 DEF FindsTheDecidingRoute
  <2> QED BY <2>1, <2>2
<1> QED BY <1>1, RegistryInvHolds, PTL

\* apply_sidecar gives every request for the method and path of an override to
\* the override, whatever the file declared and earlier overrides did.
THEOREM OverridesTakeEffect == RegistrySpec => OverrideTakesEffect
<1>1. RegistryInv =>
        \A r \in Route :
          Sidecar(r) /\ Buildable(routes') /\ r.responses # <<>> =>
            \A method \in Method, path \in Path :
              /\ RouterAt(routes', path) = {r.path}
              /\ \/ r.method = method
                 \/ r.method = AnyMethod
                    /\ \A i \in DOMAIN routes :
                         routes[i].path = r.path => routes[i].method # method
              => LET entry == Lookup(routes', method, path)
                 IN entry # NoEntry /\ EntryAt(routes', entry) = r
  BY OverrideDecides
<1> QED BY <1>1, RegistryInvHolds, PTL DEF OverrideTakesEffect
=============================================================================
