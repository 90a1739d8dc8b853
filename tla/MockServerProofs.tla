--------------------------- MODULE MockServerProofs --------------------------
(***************************************************************************)
(* Theorems about MockServer, for any number of connections, requests,     *)
(* reloads and clears, all files and every size of the history.            *)
(***************************************************************************)
EXTENDS MockServer, SequenceTheorems, WellFoundedInduction, TLAPS

-----------------------------------------------------------------------------
(* Recursion over natural numbers.                                         *)

\* A set of natural numbers that has an element has a least one.
LEMMA Least ==
  ASSUME NEW S \in SUBSET Nat, S # {}
  PROVE  \E n \in S : \A m \in S : n <= m
<1>1. PICK n \in S : \A m \in S : <<m, n>> \notin OpToRel(<, Nat)
  BY NatLessThanWellFounded, WFMin, Zenon
<1>2. ASSUME NEW m \in S PROVE n <= m
  <2>1. <<m, n>> \in Nat \X Nat
    OBVIOUS
  <2>2. ~(m < n)
    BY <1>1, <2>1, Zenon DEF OpToRel
  <2> QED BY <2>2
<1> QED BY <1>2

\* What holds of 0 and of the successor of whatever it holds of, holds up to n.
LEMMA Upward ==
  ASSUME NEW n \in Nat, NEW good, 0 \in good,
         \A i \in 1 .. n : i - 1 \in good => i \in good
  PROVE  \A i \in 0 .. n : i \in good
<1> DEFINE bad == {i \in 0 .. n : i \notin good}
<1>1. SUFFICES ASSUME bad # {} PROVE FALSE
  OBVIOUS
<1>2. PICK i \in bad : \A j \in bad : i <= j
  <2>1. bad \in SUBSET Nat
    OBVIOUS
  <2> HIDE DEF bad
  <2> QED BY <1>1, <2>1, Least
<1>3. i \in 1 .. n /\ i - 1 \in 0 .. n /\ ~(i <= i - 1)
  OBVIOUS
<1>4. i - 1 \in good
  BY <1>2, <1>3
<1> QED BY <1>2, <1>3, <1>4

\* f is defined on 0 .. n by recursion: each value from the one before, by G.
Computed(f, n, base, G, T) ==
  /\ f = [i \in 0 .. n |-> f[i]]
  /\ f[0] = base
  /\ \A i \in 0 .. n : f[i] \in T
  /\ \A i \in 1 .. n : f[i] = G[f[i - 1]][i]

\* Such a function exists.
LEMMA Recursion ==
  ASSUME NEW n \in Nat, NEW T, NEW base \in T, NEW G,
         \A t \in T : \A i \in 1 .. n : G[t][i] \in T
  PROVE  \E f : Computed(f, n, base, G, T)
<1> DEFINE good == {m \in Nat : \E f : Computed(f, m, base, G, T)}
<1>1. 0 \in good
  <2> DEFINE f == [i \in 0 .. 0 |-> base]
  <2>1. Computed(f, 0, base, G, T)
    BY DEF Computed
  <2> QED BY <2>1
<1>2. ASSUME NEW m \in 1 .. n, m - 1 \in good PROVE m \in good
  <2>1. PICK f : Computed(f, m - 1, base, G, T)
    BY <1>2
  <2> DEFINE g == [i \in 0 .. m |-> IF i = m THEN G[f[m - 1]][m] ELSE f[i]]
  <2>2. \A i \in 0 .. m - 1 : g[i] = f[i] /\ g[i] \in T
    BY <2>1 DEF Computed
  <2>3. g[m] = G[f[m - 1]][m] /\ f[m - 1] \in T
    BY <2>1 DEF Computed
  <2>4. g[m] \in T
    BY <2>3
  <2>5. g = [i \in 0 .. m |-> g[i]]
    OBVIOUS
  <2>7. g[0] = base
    BY <2>1, <2>2 DEF Computed
  <2>6. \A i \in 1 .. m : g[i] = G[g[i - 1]][i]
    <3> SUFFICES ASSUME NEW i \in 1 .. m PROVE g[i] = G[g[i - 1]][i]
      OBVIOUS
    <3> HIDE DEF g
    <3>1. i - 1 \in 0 .. m - 1 /\ g[i - 1] = f[i - 1]
      BY <2>2
    <3>2. CASE i = m
      BY <2>3, <3>1, <3>2
    <3>3. CASE i # m
      <4>1. i \in 1 .. m - 1 /\ i \in 0 .. m - 1
        BY <3>3
      <4> QED BY <2>1, <2>2, <3>1, <4>1 DEF Computed
    <3> QED BY <3>2, <3>3
  <2>8. Computed(g, m, base, G, T)
    <3> HIDE DEF g
    <3>1. \A i \in 0 .. m : g[i] \in T
      <4>1. \A i \in 0 .. m : i \in 0 .. m - 1 \/ i = m
        OBVIOUS
      <4> QED BY <2>2, <2>4, <4>1
    <3> QED BY <3>1, <2>5, <2>6, <2>7 DEF Computed
  <2>9. m \in Nat
    OBVIOUS
  <2> HIDE DEF g
  <2> QED BY <2>8, <2>9
<1>3. n \in good
  <2> HIDE DEF good
  <2>1. \A i \in 0 .. n : i \in good
    BY <1>1, <1>2, Upward
  <2> QED BY <2>1
<1> QED BY <1>3

-----------------------------------------------------------------------------
(* Lists of routes.                                                        *)

\* The entries Those keeps are entries of the sequence.
LEMMA ThoseType ==
  ASSUME NEW S, NEW s \in Seq(S), NEW wanted
  PROVE  Those(s, wanted) \in Seq(S)
<1> DEFINE n == Len(s)
           T == Seq(S)
           G == [t \in T |-> [i \in 1 .. n |->
                   IF s[i] \in wanted THEN Append(t, s[i]) ELSE t]]
           Law(f) == f = [i \in 0 .. n |->
                            IF i = 0 THEN <<>>
                            ELSE IF s[i] \in wanted THEN Append(f[i - 1], s[i])
                            ELSE f[i - 1]]
<1>1. n \in Nat /\ <<>> \in T /\ \A i \in 1 .. n : s[i] \in S
  OBVIOUS
<1>2. \A t \in T : \A i \in 1 .. n :
        /\ G[t][i] = IF s[i] \in wanted THEN Append(t, s[i]) ELSE t
        /\ G[t][i] \in T
  BY <1>1
<1>3. \E f : Law(f)
  <2>1. PICK f : Computed(f, n, <<>>, G, T)
    <3>1. \A t \in T : \A i \in 1 .. n : G[t][i] \in T
      BY <1>2
    <3>2. n \in Nat /\ <<>> \in T
      BY <1>1
    <3> HIDE DEF G, n, T
    <3> QED BY <3>1, <3>2, Recursion
  <2>2. ASSUME NEW i \in 0 .. n
        PROVE  f[i] = IF i = 0 THEN <<>>
                      ELSE IF s[i] \in wanted THEN Append(f[i - 1], s[i]) ELSE f[i - 1]
    <3>1. CASE i = 0
      BY <2>1, <3>1 DEF Computed
    <3>2. CASE i # 0
      <4>1. i \in 1 .. n /\ f[i - 1] \in T
        BY <1>1, <2>1, <3>2 DEF Computed
      <4> HIDE DEF G, T
      <4> QED BY <1>2, <2>1, <3>2, <4>1 DEF Computed
    <3> QED BY <3>1, <3>2
  <2> QED BY <2>1, <2>2 DEF Computed
<1> DEFINE those == CHOOSE f : Law(f)
<1>4. Law(those)
  BY <1>3, Zenon
<1>5. Those(s, wanted) = those[n]
  BY Zenon DEF Those
<1> HIDE DEF those
<1>6. ASSUME NEW i \in 0 .. n
      PROVE  those[i] = IF i = 0 THEN <<>>
                        ELSE IF s[i] \in wanted THEN Append(those[i - 1], s[i])
                        ELSE those[i - 1]
  BY <1>4
<1> DEFINE good == {i \in 0 .. n : those[i] \in T}
<1>7. 0 \in good
  <2>1. 0 \in 0 .. n
    BY <1>1
  <2> HIDE DEF n, T
  <2> QED BY <1>1, <1>6, <2>1
<1>8. ASSUME NEW i \in 1 .. n, i - 1 \in good PROVE i \in good
  <2>1. i \in 0 .. n /\ i # 0 /\ those[i - 1] \in T /\ s[i] \in S
    BY <1>1, <1>8
  <2>2. those[i] \in T
    <3>1. Append(those[i - 1], s[i]) \in T
      BY <2>1
    <3> HIDE DEF n, T
    <3> QED BY <1>6, <2>1, <3>1
  <2> QED BY <2>1, <2>2
<1>9. n \in good
  <2> HIDE DEF good, n
  <2>1. \A i \in 0 .. n : i \in good
    BY <1>1, <1>7, <1>8, Upward
  <2> QED BY <1>1, <2>1
<1> QED BY <1>5, <1>9

\* A bucket holds routes of the list.
LEMMA BucketType ==
  ASSUME NEW S, NEW routes \in Seq(S), NEW p
  PROVE  Bucket(routes, p) \in Seq(S)
<1> DEFINE group == Those(routes, {r \in ToSet(routes) : r.path = p})
<1>1. group \in Seq(S)
  BY ThoseType
<1> HIDE DEF group
<1>2. SpecificFirst(group) \in Seq(S)
  <2> DEFINE any == {e \in ToSet(group) : e.method = AnyMethod}
             a == Those(group, ToSet(group) \ any)
             b == Those(group, any)
  <2>1. a \in Seq(S) /\ b \in Seq(S)
    BY <1>1, ThoseType
  <2>2. SpecificFirst(group) = a \o b
    BY DEF SpecificFirst
  <2> HIDE DEF a, b
  <2> QED BY <2>1, <2>2
<1> QED BY <1>2 DEF Bucket, group

\* One override gives a list of routes again.
LEMMA OverrideType ==
  ASSUME NEW S, NEW routes \in Seq(S), NEW r \in S
  PROVE  Override(routes, r) \in Seq(S)
<1> DEFINE i == SelectInSeq(routes, LAMBDA x : x.path = r.path /\ x.method = r.method)
<1>1. Override(routes, r) = IF i = 0 THEN Append(routes, r) ELSE ReplaceAt(routes, i, r)
  BY DEF Override
<1> HIDE DEF i
<1>2. ReplaceAt(routes, i, r) \in Seq(S)
  <2>1. ReplaceAt(routes, i, r) = [routes EXCEPT ![i] = r]
    BY DEF ReplaceAt
  <2>2. /\ DOMAIN [routes EXCEPT ![i] = r] = 1 .. Len(routes) /\ Len(routes) \in Nat
        /\ \A j \in 1 .. Len(routes) : [routes EXCEPT ![i] = r][j] \in S
    OBVIOUS
  <2>3. [routes EXCEPT ![i] = r]
          = [j \in 1 .. Len(routes) |-> [routes EXCEPT ![i] = r][j]]
    BY <2>2
  <2> DEFINE new == [routes EXCEPT ![i] = r]
  <2>4. new \in Seq(S)
    <3>1. /\ new = [j \in 1 .. Len(routes) |-> new[j]] /\ Len(routes) \in Nat
          /\ \A j \in 1 .. Len(routes) : new[j] \in S
      BY <2>2, <2>3
    <3> HIDE DEF new
    <3> QED BY <3>1
  <2> QED BY <2>1, <2>4
<1> QED BY <1>1, <1>2

\* So do all overrides of a file.
LEMMA SidecarType ==
  ASSUME NEW S, NEW routes \in Seq(S), NEW overrides \in Seq(S)
  PROVE  ApplySidecar(routes, overrides) \in Seq(S)
<1> DEFINE n == Len(overrides)
           T == Seq(S)
           G == [t \in T |-> [i \in 1 .. n |-> Override(t, overrides[i])]]
           Law(f) == f = [i \in 0 .. n |-> IF i = 0 THEN routes
                                           ELSE Override(f[i - 1], overrides[i])]
<1>1. n \in Nat /\ routes \in T /\ \A i \in 1 .. n : overrides[i] \in S
  OBVIOUS
<1>2. \A t \in T : \A i \in 1 .. n :
        G[t][i] = Override(t, overrides[i]) /\ G[t][i] \in T
  BY <1>1, OverrideType
<1>3. \E f : Law(f)
  <2>1. PICK f : Computed(f, n, routes, G, T)
    <3>1. \A t \in T : \A i \in 1 .. n : G[t][i] \in T
      BY <1>2
    <3>2. n \in Nat /\ routes \in T
      BY <1>1
    <3> HIDE DEF G, n, T
    <3> QED BY <3>1, <3>2, Recursion
  <2>2. ASSUME NEW i \in 0 .. n
        PROVE  f[i] = IF i = 0 THEN routes ELSE Override(f[i - 1], overrides[i])
    <3>1. CASE i = 0
      BY <2>1, <3>1 DEF Computed
    <3>2. CASE i # 0
      <4>1. i \in 1 .. n /\ f[i - 1] \in T
        BY <1>1, <2>1, <3>2 DEF Computed
      <4> HIDE DEF G, T
      <4> QED BY <1>2, <2>1, <3>2, <4>1 DEF Computed
    <3> QED BY <3>1, <3>2
  <2> QED BY <2>1, <2>2 DEF Computed
<1> DEFINE merged == CHOOSE f : Law(f)
<1>4. Law(merged)
  BY <1>3, Zenon
<1>5. ApplySidecar(routes, overrides) = merged[n]
  BY Zenon DEF ApplySidecar
<1> HIDE DEF merged
<1>6. ASSUME NEW i \in 0 .. n
      PROVE  merged[i] = IF i = 0 THEN routes ELSE Override(merged[i - 1], overrides[i])
  BY <1>4
<1> DEFINE good == {i \in 0 .. n : merged[i] \in T}
<1>7. 0 \in good
  <2>1. 0 \in 0 .. n
    BY <1>1
  <2> HIDE DEF n, T
  <2> QED BY <1>1, <1>6, <2>1
<1>8. ASSUME NEW i \in 1 .. n, i - 1 \in good PROVE i \in good
  <2>1. i \in 0 .. n /\ i # 0 /\ merged[i - 1] \in T /\ overrides[i] \in S
    BY <1>1, <1>8
  <2>2. merged[i] \in T
    BY <1>6, <2>1, OverrideType
  <2> QED BY <2>1, <2>2
<1>9. n \in good
  <2> HIDE DEF good, n
  <2>1. \A i \in 0 .. n : i \in good
    BY <1>1, <1>7, <1>8, Upward
  <2> QED BY <1>1, <2>1
<1> QED BY <1>5, <1>9

-----------------------------------------------------------------------------
(* Lookup tables.                                                          *)

\* What the server may serve.
Served == {Load(f.spec, f.sidecar) : f \in LoadableFiles}

\* It is a list of routes.
LEMMA ServedRoutes == Served \subseteq Seq(Declared)
<1> SUFFICES ASSUME NEW f \in LoadableFiles
             PROVE  Load(f.spec, f.sidecar) \in Seq(Declared)
  BY DEF Served
<1>1. /\ f.spec \in SpecFile /\ f.sidecar \in SidecarFile
      /\ Load(f.spec, f.sidecar) # Failed
  BY DEF LoadableFiles, Files
<1>2. f.spec # Broken
  BY <1>1 DEF Load
<1>3. f.spec \in Seq(Declared) /\ f.sidecar \in Seq(Declared)
  BY <1>1, <1>2, ServerAssumption
<1>4. ApplySidecar(f.spec, f.sidecar) \in Seq(Declared)
  BY <1>3, SidecarType
<1>5. Load(f.spec, f.sidecar) = ApplySidecar(f.spec, f.sidecar)
  BY <1>1, <1>2 DEF Load
<1> QED BY <1>4, <1>5

\* The first entry for a method is a position of the bucket.
LEMMA FirstForType ==
  ASSUME NEW S, NEW bucket \in Seq(S), NEW method, FirstFor(bucket, method) # 0
  PROVE  FirstFor(bucket, method) \in DOMAIN bucket
<1> DEFINE I == {i \in 1 .. Len(bucket) : MethodMatches(bucket[i], method)}
<1>1. FirstFor(bucket, method) = IF I # {} THEN Min(I) ELSE 0
  BY Zenon DEF FirstFor, SelectInSeq
<1>2. I \in SUBSET Nat /\ I \subseteq DOMAIN bucket
  OBVIOUS
<1> HIDE DEF I
<1>3. I # {}
  BY <1>1
<1>4. \E x \in I : \A y \in I : x <= y
  BY <1>2, <1>3, Least
<1>5. Min(I) \in I
  BY <1>4 DEF Min
<1> QED BY <1>1, <1>2, <1>3, <1>5

\* What a lookup finds is an entry of the table, for a pattern the path matches.
LEMMA LookupFinds ==
  ASSUME NEW routes \in Seq(Declared), NEW method, NEW path,
         NEW e, e = Lookup(routes, method, path), e # NoEntry
  PROVE  /\ e \in Entries(routes)
         /\ EntryAt(routes, e) \in Declared /\ EntryAt(routes, e).responses # <<>>
         /\ e.path \in Patterns(routes) /\ PatternMatches(e.path, path)
<1> DEFINE first(p) == FirstFor(Bucket(routes, p), method)
           hits == {p \in RouterAt(routes, path) :
                      first(p) # 0 /\ Bucket(routes, p)[first(p)].responses # <<>>}
           p == CHOOSE q \in hits : TRUE
<1>1. e = IF hits = {} THEN NoEntry ELSE [path |-> p, index |-> first(p)]
  BY DEF Lookup
<1>2. p \in hits /\ e = [path |-> p, index |-> first(p)]
  BY <1>1
<1>3. /\ p \in RouterAt(routes, path) /\ first(p) # 0
      /\ Bucket(routes, p)[first(p)].responses # <<>>
  BY <1>2
<1>4. p \in Patterns(routes) /\ PatternMatches(p, path)
  BY <1>3 DEF RouterAt
<1>5. Bucket(routes, p) \in Seq(Declared)
  BY BucketType
<1>6. first(p) \in DOMAIN Bucket(routes, p)
  BY <1>3, <1>5, FirstForType
<1> HIDE DEF p
<1>7. e.path = p /\ e.index = first(p)
  BY <1>2
<1> HIDE DEF first
<1>8. e \in Entries(routes)
  BY <1>2, <1>4, <1>6 DEF Entries
<1>9. EntryAt(routes, e) = Bucket(routes, p)[first(p)]
  BY <1>7 DEF EntryAt
<1>10. Bucket(routes, p)[first(p)] \in Declared
  BY <1>5, <1>6
<1> QED BY <1>3, <1>4, <1>7, <1>8, <1>9, <1>10

\* The order of the summaries is a strict order, and decides between any two.
LEMMA SortsBeforeOrder ==
  ASSUME NEW p \in DOMAIN Length, NEW q \in DOMAIN Length
  PROVE  /\ p # q => SortsBefore(p, q) \/ SortsBefore(q, p)
         /\ \A r \in DOMAIN Length :
              SortsBefore(p, q) /\ SortsBefore(q, r) => SortsBefore(p, r)
  BY ServerAssumption DEF SortsBefore

\* If some pattern looks like the path, one of those is the first.
LEMMA AnnotatedSome ==
  ASSUME NEW routes \in Seq(Declared), NEW path, NEW p \in Patterns(routes),
         PatternMatches(p, path)
  PROVE  Annotated(routes, path) # <<>>
<1> DEFINE similar == {q \in Patterns(routes) : PatternMatches(q, path)}
           Among(n) == {q \in similar : \E i \in 1 .. n : routes[i].path = q}
           Best(S, b) == b \in S /\ \A q \in S \ {b} : SortsBefore(b, q)
           good == {n \in Nat : Among(n) # {} => \E b : Best(Among(n), b)}
<1>1. Len(routes) \in Nat /\ \A i \in 1 .. Len(routes) : routes[i].path \in DOMAIN Length
  BY ServerAssumption
<1>2. similar \subseteq DOMAIN Length /\ similar # {}
  BY <1>1 DEF Patterns
<1>3. Among(0) = {} /\ Among(Len(routes)) = similar
  BY <1>1 DEF Patterns
<1>4. ASSUME NEW n \in 1 .. Len(routes), n - 1 \in good
      PROVE  n \in good
  <2> DEFINE x == routes[n].path
  <2>1. \/ x \in similar /\ Among(n) = Among(n - 1) \cup {x}
        \/ x \notin similar /\ Among(n) = Among(n - 1)
    <3>1. \A i : i \in 1 .. n <=> (i \in 1 .. n - 1 \/ i = n)
      BY <1>1
    <3> HIDE DEF similar
    <3> QED BY <3>1
  <2>2. n \in Nat /\ Among(n - 1) \subseteq DOMAIN Length
    BY <1>1, <1>2
  <2>3. CASE x \in similar /\ Among(n) = Among(n - 1) \cup {x}
    <3>1. CASE Among(n - 1) = {}
      <4>1. Best(Among(n), x)
        BY <2>3, <3>1
      <4> QED BY <2>2, <4>1
    <3>2. CASE Among(n - 1) # {}
      <4>1. PICK b : Best(Among(n - 1), b)
        BY <1>4, <3>2
      <4>2. b \in DOMAIN Length /\ x \in DOMAIN Length
        BY <1>2, <2>2, <2>3, <4>1
      <4> HIDE DEF Among, similar, x
      <4>3. CASE x = b \/ SortsBefore(b, x)
        <5>1. Best(Among(n), b)
          BY <2>3, <4>1, <4>3
        <5> QED BY <2>2, <5>1
      <4>4. CASE SortsBefore(x, b)
        <5>1. ASSUME NEW q \in Among(n) \ {x} PROVE SortsBefore(x, q)
          <6>1. q \in Among(n - 1) /\ q \in DOMAIN Length
            BY <2>2, <2>3, <5>1
          <6>2. q = b \/ SortsBefore(b, q)
            BY <4>1, <6>1
          <6> QED BY <4>2, <4>4, <6>1, <6>2, SortsBeforeOrder
        <5>2. Best(Among(n), x)
          BY <2>3, <5>1
        <5> QED BY <2>2, <5>2
      <4> QED BY <4>2, <4>3, <4>4, SortsBeforeOrder
    <3> QED BY <3>1, <3>2
  <2>4. CASE x \notin similar /\ Among(n) = Among(n - 1)
    <3> HIDE DEF Among, similar, x
    <3> QED BY <1>4, <2>2, <2>4
  <2> QED BY <2>1, <2>3, <2>4
<1>5. 0 \in good
  BY <1>3
<1>6. Len(routes) \in good
  <2> HIDE DEF good
  <2>1. \A i \in 0 .. Len(routes) : i \in good
    BY <1>1, <1>4, <1>5, Upward
  <2> QED BY <1>1, <2>1
<1>7. \E b : Best(similar, b)
  <2> HIDE DEF Among, similar
  <2> QED BY <1>2, <1>3, <1>6
<1>8. Annotated(routes, path)
        = IF similar = {} THEN <<>>
          ELSE CHOOSE b \in similar : \A q \in similar \ {b} : SortsBefore(b, q)
  BY Zenon DEF Annotated
<1>9. Annotated(routes, path) \in similar
  <2> HIDE DEF similar
  <2> QED BY <1>2, <1>7, <1>8
<1> QED BY <1>2, <1>9, ServerAssumption

\* An entry of a table is a route with a list of responses.
LEMMA EntryType ==
  ASSUME NEW routes \in Seq(Declared), NEW e \in Entries(routes)
  PROVE  /\ EntryAt(routes, e) \in Declared
         /\ Len(EntryAt(routes, e).responses) \in Nat
         /\ DOMAIN EntryAt(routes, e).responses
              = 1 .. Len(EntryAt(routes, e).responses)
<1>0. PICK p \in Patterns(routes) :
        e \in {[path |-> p, index |-> i] : i \in DOMAIN Bucket(routes, p)}
  BY DEF Entries
<1>1. PICK i \in DOMAIN Bucket(routes, p) : e = [path |-> p, index |-> i]
  BY <1>0
<1>2. Bucket(routes, p) \in Seq(Declared)
  BY BucketType
<1>3. EntryAt(routes, e) = Bucket(routes, p)[i]
  BY <1>1 DEF EntryAt
<1>4. EntryAt(routes, e) \in Declared
  BY <1>1, <1>2, <1>3
<1> DEFINE r == EntryAt(routes, e)
<1>5. r.responses \in Seq(ToSet(r.responses))
  BY <1>4, ServerAssumption
<1> HIDE DEF r
<1>6. Len(r.responses) \in Nat /\ DOMAIN r.responses = 1 .. Len(r.responses)
  BY <1>5
<1> QED BY <1>4, <1>6 DEF r

-----------------------------------------------------------------------------
(* Turns.                                                                  *)

\* How often response i of n has had its turn when k were handed out.
Turns(k, n, i) == (k \div n) + (IF i <= k % n THEN 1 ELSE 0)

\* Quotient and remainder.
LEMMA Division ==
  ASSUME NEW n \in Nat \ {0}, NEW k \in Nat
  PROVE  /\ k \div n \in Nat /\ k % n \in 0 .. n - 1
         /\ k = n * (k \div n) + (k % n)
  OBVIOUS

\* There is only one quotient and one remainder.
LEMMA Quotient ==
  ASSUME NEW n \in Nat \ {0}, NEW q \in Nat, NEW r \in 0 .. n - 1,
         NEW p \in Nat, NEW s \in 0 .. n - 1, n * q + r = n * p + s
  PROVE  q = p /\ r = s
<1>1. ASSUME NEW a \in Nat, NEW b \in Nat, a < b
      PROVE  n * a + n <= n * b
  <2>1. n * (b - a - 1) >= 0 /\ n * (b - a - 1) \in Int
    <3>1. b - a - 1 \in Nat
      BY <1>1
    <3> DEFINE d == b - a - 1
    <3>2. n * d \in Nat
      <4> HIDE DEF d
      <4>1. d \in Nat
        BY <3>1 DEF d
      <4> QED BY <4>1
    <3> QED BY <3>2
  <2>2. n * (b - a - 1) = n * b - n * a - n
    OBVIOUS
  <2> QED BY <2>1, <2>2
<1> DEFINE x == n * q
           y == n * p
<1>2. x \in Nat /\ y \in Nat
  OBVIOUS
<1>3. x + r = y + s /\ (q < p => x + n <= y) /\ (p < q => y + n <= x)
  BY <1>1
<1>4. q = p
  <2> HIDE DEF x, y
  <2> QED BY <1>2, <1>3
<1>5. r = s
  <2>1. x = y
    BY <1>4
  <2> HIDE DEF x, y
  <2> QED BY <1>2, <1>3, <2>1
<1> QED BY <1>4, <1>5

\* Quotient and remainder of the next number.
LEMMA NextTurn ==
  ASSUME NEW n \in Nat \ {0}, NEW k \in Nat
  PROVE  /\ (k % n) + 1 < n => (k + 1) \div n = k \div n /\ (k + 1) % n = (k % n) + 1
         /\ (k % n) + 1 = n => (k + 1) \div n = k \div n + 1 /\ (k + 1) % n = 0
<1> DEFINE q == k \div n
           r == k % n
           p == (k + 1) \div n
           s == (k + 1) % n
<1>1. q \in Nat /\ r \in 0 .. n - 1 /\ k = n * q + r
  BY Division
<1>2. p \in Nat /\ s \in 0 .. n - 1 /\ k + 1 = n * p + s
  <2>1. k + 1 \in Nat
    OBVIOUS
  <2> QED BY <2>1, Division
<1> HIDE DEF q, r, p, s
<1>3. CASE r + 1 < n
  <2>1. n * q + (r + 1) = n * p + s /\ r + 1 \in 0 .. n - 1
    BY <1>1, <1>2, <1>3
  <2>2. p = q /\ s = r + 1
    BY <1>1, <1>2, <2>1, Quotient
  <2> QED BY <1>3, <2>2 DEF q, r, p, s
<1>4. CASE r + 1 = n
  <2>1. n * (q + 1) = n * q + n /\ n * q \in Nat /\ n * p \in Nat
    BY <1>1, <1>2
  <2>2. n * (q + 1) + 0 = n * p + s /\ 0 \in 0 .. n - 1 /\ q + 1 \in Nat
    BY <1>1, <1>2, <1>4, <2>1
  <2>3. p = q + 1 /\ s = 0
    BY <1>1, <1>2, <2>2, Quotient
  <2> QED BY <1>4, <2>3 DEF q, r, p, s
<1>5. r + 1 < n \/ r + 1 = n
  BY <1>1
<1> QED BY <1>3, <1>4, <1>5 DEF r

\* The next turn is that of the response after the last, and no response is
\* more than one turn ahead of another.
LEMMA TurnsTaken ==
  ASSUME NEW n \in Nat \ {0}, NEW k \in Nat, NEW i \in 1 .. n
  PROVE  /\ Turns(k, n, i) \in Nat
         /\ Turns(0, n, i) = 0
         /\ Turns(k + 1, n, i) = Turns(k, n, i) + (IF i = (k % n) + 1 THEN 1 ELSE 0)
         /\ \A j \in 1 .. n : Turns(k, n, i) <= Turns(k, n, j) + 1
<1>1. k \div n \in Nat /\ k % n \in 0 .. n - 1
  BY Division
<1>2. Turns(0, n, i) = 0
  <2>1. 0 \div n \in Nat /\ 0 % n \in 0 .. n - 1 /\ n * 0 + 0 = n * (0 \div n) + (0 % n)
    BY Division
  <2>2. 0 \div n = 0 /\ 0 % n = 0
    BY <2>1, Quotient
  <2> QED BY <2>2 DEF Turns
<1>3. Turns(k + 1, n, i) = Turns(k, n, i) + (IF i = (k % n) + 1 THEN 1 ELSE 0)
  <2> DEFINE r == k % n
             q == k \div n
  <2>1. r \in 0 .. n - 1 /\ q \in Nat
    BY <1>1
  <2>2. (r + 1 < n /\ (k + 1) \div n = q /\ (k + 1) % n = r + 1)
        \/ (r + 1 = n /\ (k + 1) \div n = q + 1 /\ (k + 1) % n = 0)
    <3>1. /\ r + 1 < n => (k + 1) \div n = q /\ (k + 1) % n = r + 1
          /\ r + 1 = n => (k + 1) \div n = q + 1 /\ (k + 1) % n = 0
      BY NextTurn
    <3> HIDE DEF r, q
    <3> QED BY <2>1, <3>1
  <2>3. Turns(k, n, i) = q + (IF i <= r THEN 1 ELSE 0)
    BY DEF Turns
  <2>4. Turns(k + 1, n, i)
          = ((k + 1) \div n) + (IF i <= (k + 1) % n THEN 1 ELSE 0)
    BY DEF Turns
  <2>5. k % n = r
    OBVIOUS
  <2> HIDE DEF r, q
  <2>6. Turns(k + 1, n, i) = Turns(k, n, i) + (IF i = r + 1 THEN 1 ELSE 0)
    BY <2>1, <2>2, <2>3, <2>4
  <2> QED BY <2>5, <2>6
<1>4. Turns(k, n, i) \in Nat /\ \A j \in 1 .. n : Turns(k, n, i) <= Turns(k, n, j) + 1
  BY <1>1 DEF Turns
<1> QED BY <1>2, <1>3, <1>4

-----------------------------------------------------------------------------
(* The history.                                                            *)

\* What a history of the given size has room for.
Room == IF history_size > 1 THEN history_size ELSE 1

\* Sequence h is the end of sequence p, as much of it as there is room for.
IsTail(h, p, room) ==
  /\ Len(h) = IF Len(p) < room THEN Len(p) ELSE room
  /\ \A i \in 1 .. Len(h) : h[i] = p[Len(p) - Len(h) + i]

\* Both sequences are of elements of some set, and one is the tail of the
\* other.
HistoryInv ==
  /\ history_size \in Nat
  /\ \E T : history \in Seq(T) /\ pushed \in Seq(T)
  /\ IsTail(history, pushed, Room)

\* A sequence over a set is one over any larger set.
LEMMA LargerSet ==
  ASSUME NEW S, NEW T, S \subseteq T, NEW s \in Seq(S)
  PROVE  s \in Seq(T)
  OBVIOUS

\* Pushing an element on both keeps one the tail of the other.
LEMMA PushTail ==
  ASSUME NEW T, NEW h \in Seq(T), NEW p \in Seq(T), NEW x \in T,
         history_size \in Nat, IsTail(h, p, Room)
  PROVE  /\ Push(h, x) \in Seq(T) /\ Append(p, x) \in Seq(T)
         /\ IsTail(Push(h, x), Append(p, x), Room)
<1>1. /\ Len(h) \in Nat /\ Len(p) \in Nat /\ Room \in Nat /\ Room >= 1
      /\ Len(h) <= Len(p) /\ Len(h) <= Room
  BY DEF IsTail, Room
<1> DEFINE m == Len(h)
           n == Len(p)
<1>0. \A i \in 1 .. m : h[i] = p[n - m + i]
  BY DEF IsTail
<1>2. /\ Append(p, x) \in Seq(T) /\ Len(Append(p, x)) = Len(p) + 1
      /\ \A i \in 1 .. Len(p) : Append(p, x)[i] = p[i]
      /\ Append(p, x)[Len(p) + 1] = x
  OBVIOUS
<1>3. CASE Len(h) >= history_size /\ h # <<>>
  <2>1. Push(h, x) = Append(Tail(h), x)
    BY <1>3 DEF Push
  <2>2. Len(h) = Room /\ Len(h) >= 1
    <3>1. m # 0 /\ m >= history_size
      BY <1>3, EmptySeq
    <3>2. m \in Nat /\ m <= Room
      BY <1>1
    <3> HIDE DEF m
    <3>3. m = Room /\ m >= 1
      BY <3>1, <3>2 DEF Room
    <3> QED BY <3>3 DEF m
  <2>3. /\ Tail(h) \in Seq(T) /\ Len(Tail(h)) = Len(h) - 1
        /\ \A i \in 1 .. Len(h) - 1 : Tail(h)[i] = h[i + 1]
    BY <1>3, HeadTailProperties
  <2>4. /\ Push(h, x) \in Seq(T) /\ Len(Push(h, x)) = Len(h)
        /\ \A i \in 1 .. Len(h) - 1 : Push(h, x)[i] = h[i + 1]
        /\ Push(h, x)[Len(h)] = x
    <3> DEFINE t == Tail(h)
    <3>1. /\ Append(t, x) \in Seq(T) /\ Len(Append(t, x)) = Len(t) + 1
          /\ \A i \in 1 .. Len(t) : Append(t, x)[i] = t[i]
          /\ Append(t, x)[Len(t) + 1] = x
      BY <2>3, AppendProperties
    <3>2. Len(t) = Len(h) - 1 /\ Len(t) + 1 = Len(h)
      BY <1>1, <2>3
    <3> QED BY <2>1, <2>3, <3>1, <3>2
  <2>5. ASSUME NEW i \in 1 .. Len(h)
        PROVE  Push(h, x)[i] = Append(p, x)[Len(p) + 1 - Len(h) + i]
    <3>1. CASE i = Len(h)
      BY <1>1, <1>2, <2>4, <3>1
    <3>2. CASE i < Len(h)
      <4>1. i + 1 \in 1 .. m /\ i \in 1 .. m - 1
        BY <1>1, <3>2
      <4>2. Push(h, x)[i] = h[i + 1]
        BY <2>4, <4>1
      <4>3. h[i + 1] = p[n - m + (i + 1)]
        BY <1>0, <4>1
      <4>4. /\ n - m + (i + 1) = n + 1 - m + i
            /\ n + 1 - m + i \in 1 .. n
        BY <1>1, <2>2, <3>2
      <4>5. Append(p, x)[n + 1 - m + i] = p[n + 1 - m + i]
        BY <1>2, <4>4
      <4> QED BY <4>2, <4>3, <4>4, <4>5
    <3> QED BY <1>1, <3>1, <3>2
  <2>6. Len(Append(p, x)) >= Room /\ Len(Append(p, x)) \in Nat
    BY <1>1, <1>2, <2>2
  <2>7. IsTail(Push(h, x), Append(p, x), Room)
    <3>1. Len(Push(h, x)) = IF Len(Append(p, x)) < Room
                            THEN Len(Append(p, x)) ELSE Room
      BY <1>1, <2>2, <2>4, <2>6
    <3>2. Len(Push(h, x)) = m /\ Len(Append(p, x)) = n + 1
      BY <1>2, <2>4
    <3>3. ASSUME NEW i \in 1 .. Len(Push(h, x))
          PROVE  Push(h, x)[i]
                   = Append(p, x)[Len(Append(p, x)) - Len(Push(h, x)) + i]
      <4>1. Push(h, x)[i] = Append(p, x)[n + 1 - m + i]
        BY <2>5, <3>2
      <4>2. Len(Append(p, x)) - Len(Push(h, x)) + i = n + 1 - m + i
        BY <1>1, <3>2
      <4> QED BY <4>1, <4>2
    <3> QED BY <3>1, <3>3 DEF IsTail
  <2> QED BY <1>2, <2>4, <2>7
<1>4. CASE ~(Len(h) >= history_size /\ h # <<>>)
  <2>1. Push(h, x) = Append(h, x)
    BY <1>4 DEF Push
  <2>2. Len(h) < Room /\ Len(h) = Len(p)
    <3>1. Len(h) < history_size \/ Len(h) = 0
      BY <1>1, <1>4, EmptySeq
    <3> QED BY <1>1, <3>1 DEF Room, IsTail
  <2>3. /\ Push(h, x) \in Seq(T) /\ Len(Push(h, x)) = Len(h) + 1
        /\ \A i \in 1 .. Len(h) : Push(h, x)[i] = h[i]
        /\ Push(h, x)[Len(h) + 1] = x
    BY <2>1, AppendProperties
  <2>4. ASSUME NEW i \in 1 .. Len(h) + 1
        PROVE  Push(h, x)[i] = Append(p, x)[i]
    <3>1. CASE i = Len(h) + 1
      BY <1>2, <2>2, <2>3, <3>1
    <3>2. CASE i <= Len(h)
      <4>1. h[i] = p[n - m + i] /\ n - m + i = i
        BY <1>0, <1>1, <2>2, <3>2
      <4> QED BY <1>1, <1>2, <2>2, <2>3, <3>2, <4>1
    <3> QED BY <1>1, <3>1, <3>2
  <2>5. /\ Len(Append(p, x)) = Len(Push(h, x)) /\ Len(Push(h, x)) \in Nat
        /\ Len(Push(h, x)) <= Room /\ Len(Push(h, x)) = Len(h) + 1
    BY <1>1, <1>2, <2>2, <2>3
  <2>6. IsTail(Push(h, x), Append(p, x), Room)
    <3>1. \A i \in 1 .. Len(Push(h, x)) :
            /\ Len(Append(p, x)) - Len(Push(h, x)) + i = i
            /\ Push(h, x)[i] = Append(p, x)[i]
      BY <2>4, <2>5
    <3>2. Len(Push(h, x)) = IF Len(Append(p, x)) < Room
                            THEN Len(Append(p, x)) ELSE Room
      BY <1>1, <2>5
    <3> QED BY <3>1, <3>2 DEF IsTail
  <2> QED BY <1>2, <2>3, <2>6
<1> QED BY <1>3, <1>4

\* Initially both are empty.
LEMMA InitHistoryInv == Init => HistoryInv
  BY ServerAssumption DEF Init, HistoryInv, IsTail, Room

\* Only handlers and the admin request touch the history.
LEMMA NextHistoryInv == HistoryInv /\ [Next]_vars => HistoryInv'
<1> SUFFICES ASSUME HistoryInv, [Next]_vars PROVE HistoryInv'
  OBVIOUS
<1>1. CASE UNCHANGED <<history_size, history, pushed>>
  BY <1>1 DEF HistoryInv, IsTail, Room
<1>2. ASSUME NEW c \in Conn, NEW x, NEW slow, Pushed(c, x, slow)
      PROVE  HistoryInv'
  <2>1. /\ history' = Push(history, x) /\ pushed' = Append(pushed, x)
        /\ history_size' = history_size
    BY <1>2 DEF Pushed, HandlerOnly
  <2>2. PICK S : history \in Seq(S) /\ pushed \in Seq(S)
    BY DEF HistoryInv
  <2> DEFINE T == S \cup {x}
  <2>3. history \in Seq(T) /\ pushed \in Seq(T) /\ x \in T
    BY <2>2, LargerSet
  <2>4. /\ history' \in Seq(T) /\ pushed' \in Seq(T)
        /\ IsTail(history', pushed', Room)
    <3> HIDE DEF T
    <3> QED BY <2>1, <2>3, PushTail DEF HistoryInv
  <2> QED BY <2>1, <2>4 DEF HistoryInv, Room, IsTail
<1>3. CASE ClearHistory
  BY <1>3 DEF ClearHistory, HistoryInv, IsTail, Room
<1>4. CASE Report \/ Watcher \/ \E files \in Files : Write(files)
  BY <1>1, <1>4 DEF Report, Watcher, Register, Receive, Drain, ReadSpec,
     ReadSidecar, Store, Write, WatcherOnly, serving
<1>5. ASSUME NEW c \in Conn, Handler(c) PROVE HistoryInv'
  <2>1. CASE Arrive(c) \/ LookUp(c) \/ Finish(c)
    BY <1>1, <2>1 DEF Arrive, LookUp, LookUpIn, Finish, HandlerOnly
  <2>2. CASE RecordFound(c) \/ RecordMissed(c)
    BY <1>2, <2>2 DEF RecordFound, RecordMissed
  <2> QED BY <1>5, <2>1, <2>2 DEF Handler
<1>6. CASE UNCHANGED vars
  BY <1>1, <1>6 DEF vars, serving
<1> QED BY <1>3, <1>4, <1>5, <1>6 DEF Next

\* The greater and the smaller of two naturals.
LEMMA MaxMin ==
  ASSUME NEW a \in Nat, NEW b \in Nat
  PROVE  /\ Max({a, b}) = IF b > a THEN b ELSE a
         /\ Min({a, b}) = IF a < b THEN a ELSE b
  BY DEF Max, Min

-----------------------------------------------------------------------------
(* The invariant of the registries, their counters and the handlers.       *)

\* The types of what the other parts do not speak of.
TypesInv ==
  /\ history_size \in HistorySizes /\ disk \in Files /\ unreported \in Nat
  /\ events \in Seq({"change", "other"})
  /\ watcher \in {"off", "starting", "receiving", "draining", "reading",
                  "merging", "storing"}

\* What is, or is about to be, in service did load.
TablesInv ==
  /\ tables \in Seq(Served) /\ tables # <<>>
  /\ watcher = "merging" => loaded \in SpecFile \ {Broken}
  /\ watcher = "storing" => loaded \in Served

\* Every registry has a counter for each of its entries.
CountersInv ==
  /\ DOMAIN counter = DOMAIN tables
  /\ \A g \in DOMAIN tables : counter[g] \in [Entries(tables[g]) -> Nat]

\* A handler knows the registry it loaded, and what it found is what that
\* registry says of the request.
IsHandler(r) ==
  /\ DOMAIN r = {"pc", "with", "asked", "entry", "choice"}
  /\ r.pc \in {"idle", "loaded", "missed", "found", "delayed"}
  /\ r.with \in {0} \cup DOMAIN tables
  /\ r.pc \in {"loaded", "missed", "found"} => r.with \in DOMAIN tables
  /\ r.pc = "missed" => Lookup(tables[r.with], r.asked.method, r.asked.path) = NoEntry
  /\ r.pc = "found" =>
       /\ r.entry # NoEntry
       /\ r.entry = Lookup(tables[r.with], r.asked.method, r.asked.path)
       /\ r.choice \in DOMAIN EntryAt(tables[r.with], r.entry).responses

HandlersInv == DOMAIN req = Conn /\ \A c \in Conn : IsHandler(req[c])

\* What was selected in rotation is what the counters count.
RotationInv ==
  /\ \A x \in DOMAIN picked : picked[x] \in Nat /\ x.with \in DOMAIN tables
  /\ \A g \in DOMAIN tables : \A e \in Entries(tables[g]) :
       LET entry == EntryAt(tables[g], e)
       IN entry.selection = "RoundRobin" =>
            \A i \in DOMAIN entry.responses :
              Times(g, e, i) = Turns(counter[g][e], Len(entry.responses), i)

\* The inductive invariant.
ServerInv ==
  /\ TypesInv /\ TablesInv /\ CountersInv /\ HandlersInv /\ RotationInv
  /\ HistoryIsConsistent

\* Every registry is a list of routes.
LEMMA TableRoutes ==
  ASSUME TablesInv, NEW g \in DOMAIN tables
  PROVE  tables[g] \in Seq(Declared)
  BY ServedRoutes DEF TablesInv

\* Initially nothing was asked or selected.
LEMMA InitServer == Init => ServerInv
<1> SUFFICES ASSUME Init PROVE ServerInv
  OBVIOUS
<1>1. TypesInv
  <2>1. history_size \in HistorySizes /\ disk \in Files /\ unreported \in Nat
    BY DEF Init, LoadableFiles
  <2>2. events \in Seq({"change", "other"})
    BY DEF Init
  <2>3. watcher \in {"starting", "off"}
    BY DEF Init
  <2> QED BY <2>1, <2>2, <2>3 DEF TypesInv
<1>2. /\ Load(disk.spec, disk.sidecar) \in Served
      /\ tables = <<Load(disk.spec, disk.sidecar)>>
  BY DEF Init, Served
<1>3. DOMAIN tables = {1} /\ tables \in Seq(Served) /\ tables # <<>>
  BY <1>2
<1>4. TablesInv
  BY <1>3 DEF Init, TablesInv
<1>5. DOMAIN counter = {1} /\ counter[1] = NoCounts(tables[1])
  BY DEF Init
<1>6. CountersInv
  BY <1>3, <1>5 DEF CountersInv, NoCounts
<1>7. HandlersInv
  BY DEF Init, HandlersInv, IsHandler, Idle
<1>8. picked = EmptyBag /\ DOMAIN picked = {}
  BY DEF Init, EmptyBag, SetToBag
<1>9. RotationInv
  <2> SUFFICES ASSUME NEW e \in Entries(tables[1]),
                      NEW i \in DOMAIN EntryAt(tables[1], e).responses
               PROVE  Times(1, e, i)
                        = Turns(counter[1][e], Len(EntryAt(tables[1], e).responses), i)
    BY <1>3, <1>8 DEF RotationInv
  <2>1. Times(1, e, i) = 0
    BY <1>8 DEF Times, BagIn, BagToSet
  <2>2. counter[1][e] = 0
    BY <1>5 DEF NoCounts
  <2>3. tables[1] \in Seq(Declared)
    BY <1>3, <1>4, TableRoutes
  <2> DEFINE n == Len(EntryAt(tables[1], e).responses)
  <2>4. n \in Nat \ {0} /\ i \in 1 .. n
    BY <2>3, EntryType
  <2>5. Turns(0, n, i) = 0
    <3> HIDE DEF n
    <3> QED BY <2>4, TurnsTaken
  <2> QED BY <2>1, <2>2, <2>5
<1>10. HistoryIsConsistent
  BY DEF Init, HistoryIsConsistent
<1> QED BY <1>1, <1>4, <1>6, <1>7, <1>9, <1>10 DEF ServerInv

-----------------------------------------------------------------------------
(* The watcher.                                                            *)

\* The registries that were stored stay, and so do their counters.
Kept == \A g \in DOMAIN tables : g \in DOMAIN tables' /\ tables'[g] = tables[g]

\* A handler that takes no step keeps what is said of it when registries are
\* added.
LEMMA HandlerKeeps ==
  ASSUME Kept, NEW r, IsHandler(r)
  PROVE  IsHandler(r)'
<1>1. r.with \in {0} \cup DOMAIN tables'
  BY DEF IsHandler, Kept
<1>2. r.with \in DOMAIN tables =>
        r.with \in DOMAIN tables' /\ tables'[r.with] = tables[r.with]
  BY DEF Kept
<1>3. r.pc \in {"loaded", "missed", "found"} => r.with \in DOMAIN tables
  BY DEF IsHandler
<1> QED BY <1>1, <1>2, <1>3 DEF IsHandler

\* So is every entry of the history.
LEMMA HistoryKeeps ==
  ASSUME Kept, HistoryIsConsistent, history' = history
  PROVE  HistoryIsConsistent'
<1> SUFFICES ASSUME NEW i \in DOMAIN history
             PROVE  \E g \in DOMAIN tables' : Says(tables'[g], history[i])
  BY DEF HistoryIsConsistent
<1>1. PICK g \in DOMAIN tables : Says(tables[g], history[i])
  BY DEF HistoryIsConsistent
<1> QED BY <1>1 DEF Kept

\* A step that leaves the registries and what serves requests alone.
LEMMA QuietStep ==
  ASSUME ServerInv, TypesInv', UNCHANGED <<tables, serving>>,
         watcher' = "merging" => loaded' \in SpecFile \ {Broken},
         watcher' = "storing" => loaded' \in Served
  PROVE  ServerInv'
<1>1. UNCHANGED <<tables, counter, req, history, picked>>
  BY DEF serving
<1>2. TablesInv'
  BY <1>1 DEF ServerInv, TablesInv
<1>3. CountersInv'
  BY <1>1 DEF ServerInv, CountersInv
<1>4. HandlersInv'
  BY <1>1 DEF ServerInv, HandlersInv, IsHandler
<1>5. RotationInv'
  BY <1>1 DEF ServerInv, RotationInv, Times
<1>6. HistoryIsConsistent'
  BY <1>1 DEF ServerInv, HistoryIsConsistent
<1> QED BY <1>2, <1>3, <1>4, <1>5, <1>6 DEF ServerInv

\* An edit.
LEMMA WriteStep ==
  ASSUME ServerInv, NEW files \in Files, Write(files)
  PROVE  ServerInv'
<1>1. TypesInv'
  BY DEF Write, ServerInv, TypesInv
<1> QED BY <1>1, QuietStep DEF Write, ServerInv, TablesInv

\* A report of the operating system.
LEMMA ReportStep ==
  ASSUME ServerInv, Report
  PROVE  ServerInv'
<1>1. TypesInv'
  <2>1. unreported' \in Nat
    BY DEF Report, ServerInv, TypesInv
  <2>2. events' \in Seq({"change", "other"})
    <3>1. events \in Seq({"change", "other"})
      BY DEF ServerInv, TypesInv
    <3>2. Append(events, "change") \in Seq({"change", "other"})
      BY <3>1
    <3>3. events \o <<"other", "change">> \in Seq({"change", "other"})
      <4>1. <<"other", "change">> \in Seq({"change", "other"})
        OBVIOUS
      <4> QED BY <3>1, <4>1
    <3> QED BY <3>2, <3>3 DEF Report
  <2> QED BY <2>1, <2>2 DEF Report, ServerInv, TypesInv
<1> QED BY <1>1, QuietStep DEF Report, ServerInv, TablesInv

\* The watcher's steps up to the store.
LEMMA WatchStep ==
  ASSUME ServerInv, Register \/ Receive \/ Drain \/ ReadSpec \/ ReadSidecar
  PROVE  ServerInv'
<1>1. /\ UNCHANGED <<history_size, disk, unreported, tables, serving>>
      /\ watcher' \in {"receiving", "draining", "reading", "merging", "storing"}
  BY DEF Register, Receive, Drain, ReadSpec, ReadSidecar, WatcherOnly
<1>2. events' \in Seq({"change", "other"})
  <2>1. events \in Seq({"change", "other"})
    BY DEF ServerInv, TypesInv
  <2>2. events # <<>> => Tail(events) \in Seq({"change", "other"})
    BY <2>1
  <2>3. CASE Drain
    BY <2>1, <2>2, <2>3 DEF Drain
  <2>4. CASE Receive
    BY <2>2, <2>4 DEF Receive
  <2>5. CASE Register \/ ReadSpec \/ ReadSidecar
    BY <2>1, <2>5 DEF Register, ReadSpec, ReadSidecar
  <2> QED BY <2>3, <2>4, <2>5
<1>3. TypesInv'
  BY <1>1, <1>2 DEF ServerInv, TypesInv
<1>4. CASE Register \/ Receive \/ Drain
  BY <1>1, <1>3, <1>4, QuietStep DEF Register, Receive, Drain
<1>5. CASE ReadSpec
  <2>1. disk.spec \in SpecFile
    BY DEF ServerInv, TypesInv, Files
  <2> QED BY <1>1, <1>3, <1>5, <2>1, QuietStep DEF ReadSpec
<1>6. CASE ReadSidecar
  <2>1. loaded \in SpecFile /\ disk.sidecar \in SidecarFile
    BY <1>6 DEF ReadSidecar, ServerInv, TypesInv, TablesInv, Files
  <2>2. loaded' # Failed => loaded' \in Served
    <3> DEFINE f == [spec |-> loaded, sidecar |-> disk.sidecar]
    <3>1. f \in Files
      BY <2>1 DEF Files
    <3>2. loaded' = Load(f.spec, f.sidecar)
      BY <1>6 DEF ReadSidecar
    <3> HIDE DEF f
    <3> QED BY <3>1, <3>2 DEF Served, LoadableFiles
  <2> QED BY <1>1, <1>3, <1>6, <2>2, QuietStep DEF ReadSidecar
<1> QED BY <1>4, <1>5, <1>6

\* A registry of its own, with counters at zero and no selections.
LEMMA StoreStep ==
  ASSUME ServerInv, Store
  PROVE  ServerInv'
<1> DEFINE n == Len(tables)
<1>1. /\ tables' = Append(tables, loaded) /\ counter' = Append(counter, NoCounts(loaded))
      /\ watcher' = "receiving"
      /\ UNCHANGED <<history_size, disk, unreported, events, req, history, picked>>
      /\ loaded \in Served
  BY DEF Store, ServerInv, TablesInv
<1>2. /\ tables \in Seq(Served) /\ n \in Nat
      /\ DOMAIN tables = 1 .. n /\ DOMAIN counter = 1 .. n
  BY DEF ServerInv, TablesInv, CountersInv
<1>3. /\ tables' \in Seq(Served) /\ tables' # <<>> /\ DOMAIN tables' = 1 .. n + 1
      /\ \A g \in 1 .. n : tables'[g] = tables[g]
      /\ tables'[n + 1] = loaded
  BY <1>1, <1>2
<1>4. /\ DOMAIN counter' = 1 .. n + 1
      /\ \A g \in 1 .. n : counter'[g] = counter[g]
      /\ counter'[n + 1] = NoCounts(loaded)
  <2>1. Len(counter) = n
    BY <1>2
  <2> QED BY <1>1, <1>2, <2>1
<1>5. Kept
  BY <1>2, <1>3 DEF Kept
<1>6. TypesInv' /\ TablesInv'
  BY <1>1, <1>3 DEF ServerInv, TypesInv, TablesInv
<1>7. CountersInv'
  <2> SUFFICES ASSUME NEW g \in 1 .. n + 1
               PROVE  counter'[g] \in [Entries(tables'[g]) -> Nat]
    BY <1>3, <1>4 DEF CountersInv
  <2>1. CASE g \in 1 .. n
    BY <1>2, <1>3, <1>4, <2>1 DEF ServerInv, CountersInv
  <2>2. CASE g = n + 1
    BY <1>3, <1>4, <2>2 DEF NoCounts
  <2> QED BY <1>2, <2>1, <2>2
<1>8. HandlersInv'
  BY <1>1, <1>5, HandlerKeeps DEF ServerInv, HandlersInv
<1>9. RotationInv'
  <2>1. \A x \in DOMAIN picked' : picked'[x] \in Nat /\ x.with \in DOMAIN tables'
    BY <1>1, <1>2, <1>3 DEF ServerInv, RotationInv
  <2> SUFFICES ASSUME NEW g \in 1 .. n + 1, NEW e \in Entries(tables'[g]),
                      EntryAt(tables'[g], e).selection = "RoundRobin",
                      NEW i \in DOMAIN EntryAt(tables'[g], e).responses
               PROVE  Times(g, e, i)' = Turns(counter'[g][e],
                                              Len(EntryAt(tables'[g], e).responses), i)
    BY <1>3, <2>1 DEF RotationInv
  <2>2. Times(g, e, i)' = Times(g, e, i)
    BY <1>1 DEF Times
  <2>3. CASE g \in 1 .. n
    BY <1>2, <1>3, <1>4, <2>2, <2>3 DEF ServerInv, RotationInv
  <2>4. CASE g = n + 1
    <3>1. ~ \E x \in DOMAIN picked : x.with = g
      BY <1>2, <2>4 DEF ServerInv, RotationInv
    <3>2. Times(g, e, i) = 0
      BY <3>1 DEF Times, BagIn, BagToSet
    <3>3. counter'[g][e] = 0
      BY <1>3, <1>4, <2>4 DEF NoCounts
    <3>4. tables'[g] \in Seq(Declared)
      BY <1>3, ServedRoutes
    <3> DEFINE m == Len(EntryAt(tables'[g], e).responses)
    <3>5. m \in Nat \ {0} /\ i \in 1 .. m
      BY <3>4, EntryType
    <3>6. Turns(0, m, i) = 0
      <4> HIDE DEF m
      <4> QED BY <3>5, TurnsTaken
    <3> QED BY <2>2, <3>2, <3>3, <3>6
  <2> QED BY <1>2, <2>3, <2>4
<1>10. HistoryIsConsistent'
  BY <1>1, <1>5, HistoryKeeps DEF ServerInv
<1> QED BY <1>6, <1>7, <1>8, <1>9, <1>10 DEF ServerInv

-----------------------------------------------------------------------------
(* The handlers.                                                           *)

\* What no step of a handler touches, seen by the invariant.
LEMMA HandlerStep ==
  ASSUME ServerInv, HandlerOnly
  PROVE  TypesInv' /\ TablesInv' /\ UNCHANGED tables
  BY DEF HandlerOnly, watching, ServerInv, TypesInv, TablesInv

\* One handler takes a step.
LEMMA OtherHandlers ==
  ASSUME ServerInv, UNCHANGED tables, NEW c \in Conn, NEW r,
         req' = [req EXCEPT ![c] = r], IsHandler(r)
  PROVE  HandlersInv'
<1>1. DOMAIN req = Conn
  BY DEF ServerInv, HandlersInv
<1>2. DOMAIN req' = Conn
  BY <1>1
<1>3. ASSUME NEW d \in Conn PROVE IsHandler(req[d])'
  <2>1. req'[d] = IF d = c THEN r ELSE req[d]
    BY <1>1
  <2>2. IsHandler(req[d])
    BY DEF ServerInv, HandlersInv
  <2>3. IsHandler(req'[d])
    BY <2>1, <2>2
  <2> QED BY <2>3 DEF IsHandler
<1> QED BY <1>2, <1>3 DEF HandlersInv

\* A step that selects nothing leaves counters and selections in agreement.
LEMMA SameRotation ==
  ASSUME ServerInv, UNCHANGED <<tables, counter, picked>>
  PROVE  CountersInv' /\ RotationInv'
  BY DEF ServerInv, CountersInv, RotationInv, Times

\* registry.load(): the handler holds the registry in service.
LEMMA ArriveStep ==
  ASSUME ServerInv, NEW c \in Conn, Arrive(c)
  PROVE  ServerInv'
<1>1. TypesInv' /\ TablesInv' /\ UNCHANGED <<tables, counter, picked, history>>
  BY HandlerStep DEF Arrive
<1>2. PICK asked \in Request :
        req' = [req EXCEPT ![c] = [Idle EXCEPT !.pc = "loaded", !.asked = asked,
                                               !.with = Len(tables)]]
  BY DEF Arrive
<1> DEFINE r == [Idle EXCEPT !.pc = "loaded", !.asked = asked, !.with = Len(tables)]
<1>3. DOMAIN r = {"pc", "with", "asked", "entry", "choice"} /\ r.pc = "loaded"
      /\ r.with = Len(tables)
  BY DEF Idle
<1>4. Len(tables) \in DOMAIN tables
  <2>1. tables \in Seq(Served) /\ tables # <<>>
    BY DEF ServerInv, TablesInv
  <2> QED BY <2>1
<1>5. IsHandler(r)
  <2> HIDE DEF r
  <2> QED BY <1>3, <1>4 DEF IsHandler
<1>6. HandlersInv'
  <2> HIDE DEF r
  <2> QED BY <1>1, <1>2, <1>5, OtherHandlers DEF r
<1>7. HistoryIsConsistent'
  BY <1>1 DEF ServerInv, HistoryIsConsistent
<1> QED BY <1>1, <1>6, <1>7, SameRotation DEF ServerInv

\* The answer leaves.
LEMMA FinishStep ==
  ASSUME ServerInv, NEW c \in Conn, Finish(c)
  PROVE  ServerInv'
<1>1. TypesInv' /\ TablesInv' /\ UNCHANGED <<tables, counter, picked, history>>
  BY HandlerStep DEF Finish
<1>2. req' = [req EXCEPT ![c] = Idle]
  BY DEF Finish
<1>3. IsHandler(Idle)
  BY DEF IsHandler, Idle
<1>4. HandlersInv'
  BY <1>1, <1>2, <1>3, OtherHandlers
<1>5. HistoryIsConsistent'
  BY <1>1 DEF ServerInv, HistoryIsConsistent
<1> QED BY <1>1, <1>4, <1>5, SameRotation DEF ServerInv

\* What select_response may choose is a response of the entry.
LEMMA SelectableType ==
  ASSUME NEW entry \in Declared, entry.responses # <<>>, NEW count \in Nat, NEW want
  PROVE  /\ Len(entry.responses) \in Nat \ {0}
         /\ DOMAIN entry.responses = 1 .. Len(entry.responses)
         /\ Selectable(entry, count, want) \subseteq 1 .. Len(entry.responses)
<1> DEFINE n == Len(entry.responses)
<1>1. entry.responses \in Seq(ToSet(entry.responses))
  BY ServerAssumption
<1> DEFINE s == entry.responses
<1>2. n \in Nat \ {0} /\ DOMAIN s = 1 .. n
  <2> HIDE DEF s
  <2> QED BY <1>1, EmptySeq DEF s
<1>3. ASSUME NEW statuses PROVE WithStatus(entry.responses, statuses) \in 1 .. n
  <2> DEFINE I == {i \in 1 .. n : s[i].status \in statuses}
             first == IF I # {} THEN Min(I) ELSE 0
  <2>1. WithStatus(entry.responses, statuses) = IF first = 0 THEN 1 ELSE first
    BY Zenon DEF WithStatus, SelectInSeq
  <2>2. I \in SUBSET Nat /\ I \subseteq 1 .. n
    BY <1>2
  <2> HIDE DEF I
  <2>3. I # {} => Min(I) \in I
    <3>1. I # {} => \E x \in I : \A y \in I : x <= y
      BY <2>2, Least
    <3> QED BY <3>1 DEF Min
  <2>4. 1 \in 1 .. n
    BY <1>2
  <2> HIDE DEF n, s
  <2>5. CASE I = {}
    BY <2>1, <2>4, <2>5
  <2>6. CASE I # {}
    BY <2>1, <2>2, <2>3, <2>4, <2>6
  <2> QED BY <2>5, <2>6
<1>4. (count % n) + 1 \in 1 .. n
  <2> HIDE DEF n
  <2>1. count % n \in 0 .. n - 1
    BY <1>2, Division
  <2> QED BY <1>2, <2>1
<1>5. entry.selection \in {"First", "RoundRobin", "Random", "MatchStatus"}
  BY ServerAssumption
<1>6. Selectable(entry, count, want) \subseteq 1 .. n
  <2>1. entry.selection = "First" => Selectable(entry, count, want) = {1}
    BY DEF Selectable
  <2>2. entry.selection = "RoundRobin" =>
          Selectable(entry, count, want) = {(count % n) + 1}
    BY DEF Selectable
  <2>3. entry.selection = "Random" => Selectable(entry, count, want) = 1 .. n
    BY DEF Selectable
  <2>4. entry.selection = "MatchStatus" =>
          \E statuses : Selectable(entry, count, want)
                          = {WithStatus(entry.responses, statuses)}
    BY DEF Selectable
  <2> HIDE DEF n
  <2> QED BY <1>2, <1>3, <1>4, <1>5, <2>1, <2>2, <2>3, <2>4
<1> QED BY <1>2, <1>6

\* The step counts one selection more, of response i of entry e of registry g.
CountedOnce(g, e, i) ==
  /\ \A x \in DOMAIN picked' :
       picked'[x] \in Nat /\ (x \in DOMAIN picked \/ x.with = g)
  /\ \A h, f, j :
       /\ Times(h, f, j) \in Nat
       /\ Times(h, f, j)' = Times(h, f, j) + (IF h = g /\ f = e /\ j = i THEN 1 ELSE 0)

\* A selection is counted once, where it belongs.
LEMMA PickedOnce ==
  ASSUME RotationInv, NEW g, NEW e, NEW i,
         picked' = picked (+) SetToBag({[with |-> g, entry |-> e, choice |-> i]})
  PROVE  CountedOnce(g, e, i)
<1> DEFINE y == [with |-> g, entry |-> e, choice |-> i]
           one == SetToBag({y})
<1>0. \A x \in DOMAIN picked : picked[x] \in Nat
  BY DEF RotationInv
<1>1. DOMAIN one = {y} /\ one[y] = 1
  BY DEF SetToBag
<1>2. /\ DOMAIN picked' = DOMAIN picked \cup {y}
      /\ \A x \in DOMAIN picked' :
           picked'[x] = (IF x \in DOMAIN picked THEN picked[x] ELSE 0)
                          + (IF x = y THEN 1 ELSE 0)
  <2> HIDE DEF y, one
  <2>1. picked' = picked (+) one
    BY DEF y, one
  <2> QED BY <1>1, <2>1 DEF (+)
<1>3. \A x \in DOMAIN picked' : picked'[x] \in Nat /\ (x \in DOMAIN picked \/ x.with = g)
  <2>1. y.with = g
    OBVIOUS
  <2> SUFFICES ASSUME NEW x \in DOMAIN picked'
               PROVE  picked'[x] \in Nat /\ (x \in DOMAIN picked \/ x.with = g)
    OBVIOUS
  <2> HIDE DEF y, one
  <2>2. CASE x \in DOMAIN picked
    <3>1. picked[x] \in Nat
      BY <1>0, <2>2
    <3> QED BY <1>2, <2>2, <3>1
  <2>3. CASE x \notin DOMAIN picked
    <3>1. x = y
      BY <1>2, <2>3
    <3> QED BY <1>2, <2>1, <2>3, <3>1
  <2> QED BY <2>2, <2>3
<1>4. ASSUME NEW h, NEW f, NEW j
      PROVE  /\ Times(h, f, j) \in Nat
             /\ Times(h, f, j)' = Times(h, f, j)
                  + (IF h = g /\ f = e /\ j = i THEN 1 ELSE 0)
  <2> DEFINE x == [with |-> h, entry |-> f, choice |-> j]
  <2>1. (x = y) <=> (h = g /\ f = e /\ j = i)
    OBVIOUS
  <2>2. Times(h, f, j) = IF x \in DOMAIN picked THEN picked[x] ELSE 0
    BY DEF Times, BagIn, BagToSet
  <2>3. Times(h, f, j)' = IF x \in DOMAIN picked' THEN picked'[x] ELSE 0
    BY DEF Times, BagIn, BagToSet
  <2> HIDE DEF x, y, one
  <2>4. x \in DOMAIN picked => picked[x] \in Nat /\ x \in DOMAIN picked'
    BY <1>0, <1>2
  <2>5. Times(h, f, j)' = Times(h, f, j) + (IF x = y THEN 1 ELSE 0)
    <3>1. CASE x \in DOMAIN picked
      BY <1>2, <2>2, <2>3, <2>4, <3>1
    <3>2. CASE x \notin DOMAIN picked
      BY <1>2, <2>2, <2>3, <3>2
    <3> QED BY <3>1, <3>2
  <2>6. Times(h, f, j) \in Nat
    BY <2>2, <2>4
  <2> QED BY <2>1, <2>5, <2>6
<1> QED BY <1>3, <1>4 DEF CountedOnce

\* registry.lookup with the fetch_add: the counter and the selection move together.
LEMMA LookUpStep ==
  ASSUME ServerInv, NEW c \in Conn, LookUp(c)
  PROVE  ServerInv'
<1> DEFINE g == req[c].with
           asked == req[c].asked
           e == Lookup(tables[g], asked.method, asked.path)
           entry == EntryAt(tables[g], e)
           count == IF e \in DOMAIN counter[g] THEN counter[g][e] ELSE 0
           n == Len(entry.responses)
<1>1. TypesInv' /\ TablesInv' /\ UNCHANGED tables /\ history' = history
  BY HandlerStep DEF LookUp, LookUpIn
<1>2. HistoryIsConsistent'
  BY <1>1 DEF ServerInv, HistoryIsConsistent
<1>3. /\ req[c].pc = "loaded" /\ IsHandler(req[c]) /\ DOMAIN req = Conn
      /\ g \in DOMAIN tables
  BY DEF LookUp, LookUpIn, ServerInv, HandlersInv, IsHandler
<1>4. tables[g] \in Seq(Declared)
  BY <1>3, TableRoutes DEF ServerInv
<1>5. CASE e = NoEntry
  <2>1. req' = [req EXCEPT ![c].pc = "missed"] /\ UNCHANGED <<counter, picked>>
    BY <1>5 DEF LookUp, LookUpIn
  <2> DEFINE r == [req[c] EXCEPT !.pc = "missed"]
  <2>2. req' = [req EXCEPT ![c] = r]
    BY <2>1
  <2>3. /\ DOMAIN r = {"pc", "with", "asked", "entry", "choice"} /\ r.pc = "missed"
        /\ r.with = g /\ r.asked = asked
    BY <1>3 DEF IsHandler
  <2>4. IsHandler(r)
    <3> HIDE DEF r
    <3> QED BY <1>3, <1>5, <2>3 DEF IsHandler
  <2>5. HandlersInv'
    <3> HIDE DEF r
    <3> QED BY <1>1, <2>2, <2>4, OtherHandlers
  <2> QED BY <1>1, <1>2, <2>1, <2>5, SameRotation DEF ServerInv
<1>6. CASE e # NoEntry
  <2>1. /\ e \in Entries(tables[g]) /\ entry \in Declared /\ entry.responses # <<>>
    BY <1>4, <1>6, LookupFinds
  <2>2. counter[g] \in [Entries(tables[g]) -> Nat]
    BY <1>3 DEF ServerInv, CountersInv
  <2>3. count = counter[g][e] /\ count \in Nat
    BY <2>1, <2>2
  <2>4. PICK i \in Selectable(entry, count, asked.want) :
          /\ req' = [req EXCEPT ![c].pc = "found", ![c].entry = e, ![c].choice = i]
          /\ counter' = [counter EXCEPT ![g] = [x \in DOMAIN @ |->
               IF x = e /\ Counts(entry) THEN @[x] + 1 ELSE @[x]]]
          /\ picked' = picked (+) SetToBag({[with |-> g, entry |-> e, choice |-> i]})
    BY <1>6 DEF LookUp, LookUpIn
  <2>5. n \in Nat \ {0} /\ DOMAIN entry.responses = 1 .. n /\ i \in 1 .. n
    <3> HIDE DEF entry, count
    <3> QED BY <2>1, <2>3, <2>4, SelectableType
  <2> DEFINE r == [req[c] EXCEPT !.pc = "found", !.entry = e, !.choice = i]
  <2>6. req' = [req EXCEPT ![c] = r]
    BY <1>3, <2>4
  <2>7. /\ DOMAIN r = {"pc", "with", "asked", "entry", "choice"} /\ r.pc = "found"
        /\ r.with = g /\ r.asked = asked /\ r.entry = e /\ r.choice = i
    <3> HIDE DEF e
    <3> QED BY <1>3 DEF IsHandler
  <2>8. IsHandler(r)
    <3> HIDE DEF r
    <3> QED BY <1>3, <1>6, <2>5, <2>7 DEF IsHandler
  <2>9. HandlersInv'
    <3> HIDE DEF r
    <3> QED BY <1>1, <2>6, <2>8, OtherHandlers
  <2>10. /\ DOMAIN counter' = DOMAIN tables
         /\ \A h \in DOMAIN tables : h # g => counter'[h] = counter[h]
         /\ DOMAIN counter'[g] = Entries(tables[g])
         /\ \A x \in Entries(tables[g]) : counter'[g][x] =
              IF x = e /\ Counts(entry) THEN counter[g][x] + 1 ELSE counter[g][x]
    <3> DEFINE new == [x \in Entries(tables[g]) |->
                         IF x = e /\ Counts(entry) THEN counter[g][x] + 1
                         ELSE counter[g][x]]
    <3>1. counter' = [counter EXCEPT ![g] = new]
      BY <2>2, <2>4
    <3>2. DOMAIN counter = DOMAIN tables
      BY DEF ServerInv, CountersInv
    <3>3. /\ DOMAIN new = Entries(tables[g])
          /\ \A x \in Entries(tables[g]) : new[x] =
               IF x = e /\ Counts(entry) THEN counter[g][x] + 1 ELSE counter[g][x]
      OBVIOUS
    <3> HIDE DEF new, e, entry
    <3> QED BY <1>3, <3>1, <3>2, <3>3
  <2>11. counter'[g] \in [Entries(tables[g]) -> Nat]
    <3> DEFINE old == counter[g]
               new == counter'[g]
    <3>1. new = [x \in Entries(tables[g]) |->
                   IF x = e /\ Counts(entry) THEN old[x] + 1 ELSE old[x]]
      BY <2>2, <2>4, <1>3 DEF ServerInv, CountersInv
    <3>2. \A x \in Entries(tables[g]) : old[x] \in Nat /\ old[x] + 1 \in Nat
      BY <2>2
    <3> HIDE DEF old, e, entry, new
    <3> QED BY <3>1, <3>2 DEF new
  <2>12. CountersInv'
    <3> SUFFICES ASSUME NEW h \in DOMAIN tables
                 PROVE  counter'[h] \in [Entries(tables[h]) -> Nat]
      BY <1>1, <2>10 DEF CountersInv
    <3>1. CASE h = g
      BY <2>11, <3>1
    <3>2. CASE h # g
      BY <2>10, <3>2 DEF ServerInv, CountersInv
    <3> QED BY <3>1, <3>2
  <2>13. CountedOnce(g, e, i)
    <3>1. picked' = picked (+) SetToBag({[with |-> g, entry |-> e, choice |-> i]})
      BY <2>4
    <3> HIDE DEF g, e
    <3> QED BY <3>1, PickedOnce DEF ServerInv
  <2>14. RotationInv'
    <3>1. \A x \in DOMAIN picked' : picked'[x] \in Nat /\ x.with \in DOMAIN tables'
      BY <1>1, <1>3, <2>13 DEF CountedOnce, ServerInv, RotationInv
    <3>2. ASSUME NEW h \in DOMAIN tables, NEW f \in Entries(tables[h]),
                 EntryAt(tables[h], f).selection = "RoundRobin",
                 NEW j \in DOMAIN EntryAt(tables[h], f).responses
          PROVE  Times(h, f, j)' = Turns(counter'[h][f],
                                         Len(EntryAt(tables[h], f).responses), j)
      <4>1. Times(h, f, j) = Turns(counter[h][f],
                                   Len(EntryAt(tables[h], f).responses), j)
        BY <3>2 DEF ServerInv, RotationInv
      <4>2. CASE h = g /\ f = e
        <5> DEFINE k == counter[g][e]
        <5>1. /\ j \in 1 .. n /\ Times(g, e, j) = Turns(k, n, j)
              /\ Times(h, f, j)' = Times(g, e, j) + (IF j = i THEN 1 ELSE 0)
          <6>1. j \in 1 .. n
            BY <2>5, <4>2
          <6>2. Times(g, e, j) = Turns(k, n, j)
            BY <4>1, <4>2
          <6> QED BY <2>13, <4>2, <6>1, <6>2 DEF CountedOnce
        <5>2. Counts(entry) /\ i = (k % n) + 1
          <6>1. Selectable(entry, count, asked.want) = {(count % n) + 1} /\ Counts(entry)
            BY <3>2, <4>2 DEF Selectable, Counts
          <6> QED BY <2>3, <2>4, <6>1
        <5>3. counter'[h][f] = k + 1
          BY <2>1, <2>10, <4>2, <5>2
        <5>4. k \in Nat
          BY <2>3
        <5>5. Len(EntryAt(tables[h], f).responses) = n
          BY <4>2
        <5> HIDE DEF k, n, g, e
        <5>6. Turns(k + 1, n, j) = Turns(k, n, j) + (IF j = (k % n) + 1 THEN 1 ELSE 0)
          BY <2>5, <5>1, <5>4, TurnsTaken
        <5> QED BY <5>1, <5>2, <5>3, <5>5, <5>6
      <4>3. CASE ~(h = g /\ f = e)
        <5>1. counter'[h][f] = counter[h][f]
          BY <2>10, <4>3
        <5>2. Times(h, f, j)' = Times(h, f, j)
          <6> HIDE DEF g, e
          <6>1. Times(h, f, j)' = Times(h, f, j) + 0 /\ Times(h, f, j) \in Nat
            BY <2>13, <4>3 DEF CountedOnce
          <6> QED BY <6>1
        <5> QED BY <4>1, <5>1, <5>2
      <4> QED BY <4>2, <4>3
    <3> QED BY <1>1, <3>1, <3>2 DEF RotationInv
  <2> QED BY <1>1, <1>2, <2>9, <2>12, <2>14 DEF ServerInv
<1> QED BY <1>5, <1>6

\* Pushing adds one entry, and no other.
LEMMA PushElements ==
  ASSUME NEW T, NEW h \in Seq(T), NEW x, NEW k \in DOMAIN Push(h, x)
  PROVE  Push(h, x)[k] = x \/ \E j \in DOMAIN h : Push(h, x)[k] = h[j]
<1> DEFINE U == T \cup {x}
<1>0. h \in Seq(U) /\ x \in U
  OBVIOUS
<1> HIDE DEF U
<1>1. ASSUME NEW s \in Seq(U), NEW m \in DOMAIN Append(s, x)
      PROVE  Append(s, x)[m] = x \/ (m \in DOMAIN s /\ Append(s, x)[m] = s[m])
  BY <1>0, <1>1
<1>2. CASE Len(h) >= history_size /\ h # <<>>
  <2>1. Push(h, x) = Append(Tail(h), x)
    BY <1>2 DEF Push
  <2>2. /\ Tail(h) \in Seq(U)
        /\ \A m \in DOMAIN Tail(h) : m + 1 \in DOMAIN h /\ Tail(h)[m] = h[m + 1]
    BY <1>0, <1>2
  <2> DEFINE t == Tail(h)
  <2> HIDE DEF t
  <2>3. k \in DOMAIN Append(t, x) /\ t \in Seq(U)
    BY <2>1, <2>2 DEF t
  <2>4. Append(t, x)[k] = x \/ (k \in DOMAIN t /\ Append(t, x)[k] = t[k])
    BY <1>1, <2>3
  <2> QED BY <2>1, <2>2, <2>4 DEF t
<1>3. CASE ~(Len(h) >= history_size /\ h # <<>>)
  <2>1. Push(h, x) = Append(h, x)
    BY <1>3 DEF Push
  <2> QED BY <1>0, <1>1, <2>1
<1> QED BY <1>2, <1>3

\* An entry that some registry says is pushed, and its handler goes on.
LEMMA PushStep ==
  ASSUME ServerInv, NEW T, history \in Seq(T), NEW c \in Conn, NEW x, NEW slow,
         Pushed(c, x, slow), NEW g \in DOMAIN tables, Says(tables[g], x)
  PROVE  ServerInv'
<1>1. TypesInv' /\ TablesInv' /\ UNCHANGED <<tables, counter, picked>>
  BY HandlerStep DEF Pushed
<1>2. history' = Push(history, x)
  BY DEF Pushed
<1>3. HistoryIsConsistent'
  <2> SUFFICES ASSUME NEW k \in DOMAIN history'
               PROVE  \E h \in DOMAIN tables : Says(tables[h], history'[k])
    <3> QED BY <1>1 DEF HistoryIsConsistent
  <2>1. history'[k] = x \/ \E j \in DOMAIN history : history'[k] = history[j]
    BY <1>2, PushElements
  <2> QED BY <2>1 DEF ServerInv, HistoryIsConsistent
<1> DEFINE r == IF slow THEN [Idle EXCEPT !.pc = "delayed"] ELSE Idle
<1>4. req' = [req EXCEPT ![c] = r]
  BY DEF Pushed
<1>5. IsHandler(r)
  <2>1. IsHandler(Idle)
    BY DEF IsHandler, Idle
  <2>2. IsHandler([Idle EXCEPT !.pc = "delayed"])
    BY DEF IsHandler, Idle
  <2> QED BY <2>1, <2>2
<1>6. HandlersInv'
  <2> HIDE DEF r
  <2> QED BY <1>1, <1>4, <1>5, OtherHandlers
<1> QED BY <1>1, <1>3, <1>6, SameRotation DEF ServerInv

\* The history entry says what the handler's own registry says.
LEMMA RecordStep ==
  ASSUME ServerInv, NEW T, history \in Seq(T), NEW c \in Conn,
         RecordFound(c) \/ RecordMissed(c)
  PROVE  ServerInv'
<1> DEFINE r == req[c]
           g == r.with
           asked == r.asked
           e == r.entry
           entry == EntryAt(tables[g], e)
<1>1. IsHandler(r)
  BY DEF ServerInv, HandlersInv
<1>2. r.pc \in {"found", "missed"} => g \in DOMAIN tables /\ tables[g] \in Seq(Declared)
  BY <1>1, TableRoutes DEF IsHandler, ServerInv
<1>3. CASE RecordMissed(c)
  <2> DEFINE x == HistoryEntry(asked, 404, <<>>)
  <2>1. Pushed(c, x, FALSE) /\ r.pc = "missed"
    BY <1>3 DEF RecordMissed
  <2>2. x.method = asked.method /\ x.path = asked.path /\ x.matched = <<>>
    BY DEF HistoryEntry
  <2>3. Lookup(tables[g], asked.method, asked.path) = NoEntry
    BY <1>1, <2>1 DEF IsHandler
  <2> HIDE DEF x
  <2>4. Says(tables[g], x)
    BY <2>2, <2>3 DEF Says
  <2> QED BY <1>2, <2>1, <2>4, PushStep
<1>4. CASE RecordFound(c)
  <2> DEFINE matched == Annotated(tables[g], asked.path)
             x == HistoryEntry(asked, Chosen(r).status, matched)
  <2>1. Pushed(c, x, Chosen(r).slow) /\ r.pc = "found"
    BY <1>4 DEF RecordFound
  <2>2. /\ x.method = asked.method /\ x.path = asked.path /\ x.matched = matched
        /\ x.status = Chosen(r).status
    BY DEF HistoryEntry
  <2>3. /\ e # NoEntry /\ e = Lookup(tables[g], asked.method, asked.path)
        /\ r.choice \in DOMAIN entry.responses
    BY <1>1, <2>1 DEF IsHandler
  <2>4. Chosen(r) \in ToSet(entry.responses)
    BY <2>3 DEF Chosen, ToSet
  <2>5. e.path \in Patterns(tables[g]) /\ PatternMatches(e.path, asked.path)
    <3>1. tables[g] \in Seq(Declared)
      BY <1>2, <2>1
    <3> HIDE DEF e, g, asked
    <3> QED BY <2>3, <3>1, LookupFinds
  <2>6. matched # <<>>
    BY <1>2, <2>1, <2>5, AnnotatedSome
  <2> HIDE DEF x, matched
  <2>7. Says(tables[g], x)
    <3> HIDE DEF e, entry
    <3>1. x.matched = Annotated(tables[g], x.path)
      BY <2>2 DEF matched
    <3>2. \E y \in ToSet(EntryAt(tables[g], e).responses) : y.status = x.status
      BY <2>2, <2>4 DEF entry
    <3>3. e = Lookup(tables[g], x.method, x.path)
      BY <2>2, <2>3
    <3> QED BY <2>2, <2>3, <2>6, <3>1, <3>2, <3>3 DEF Says
  <2> QED BY <1>2, <2>1, <2>7, PushStep
<1> QED BY <1>3, <1>4

\* The history is cleared.
LEMMA ClearStep ==
  ASSUME ServerInv, ClearHistory
  PROVE  ServerInv'
<1>1. /\ UNCHANGED <<history_size, disk, unreported, events, watcher, loaded,
                     tables, counter, req, picked>>
      /\ history' = <<>>
  BY DEF ClearHistory, watching
<1>2. TypesInv' /\ TablesInv'
  BY <1>1 DEF ServerInv, TypesInv, TablesInv
<1>3. HandlersInv'
  BY <1>1 DEF ServerInv, HandlersInv, IsHandler
<1>4. HistoryIsConsistent'
  BY <1>1 DEF HistoryIsConsistent
<1> QED BY <1>1, <1>2, <1>3, <1>4, SameRotation DEF ServerInv

\* Every step keeps the invariant.
LEMMA NextServer == ServerInv /\ HistoryInv /\ [Next]_vars => ServerInv'
<1> SUFFICES ASSUME ServerInv, HistoryInv, [Next]_vars PROVE ServerInv'
  OBVIOUS
<1>1. PICK T : history \in Seq(T)
  BY DEF HistoryInv
<1>2. CASE UNCHANGED vars
  <2>1. UNCHANGED <<history_size, disk, unreported, events, watcher, loaded, tables,
                    serving>>
    BY <1>2 DEF vars, watching
  <2>2. TypesInv'
    BY <2>1 DEF ServerInv, TypesInv
  <2> QED BY <2>1, <2>2, QuietStep DEF ServerInv, TablesInv
<1>3. ASSUME NEW c \in Conn, Handler(c) PROVE ServerInv'
  BY <1>1, <1>3, ArriveStep, LookUpStep, RecordStep, FinishStep DEF Handler
<1>4. CASE Watcher
  BY <1>4, WatchStep, StoreStep DEF Watcher
<1>5. CASE Report \/ ClearHistory \/ \E files \in Files : Write(files)
  BY <1>5, ReportStep, ClearStep, WriteStep
<1> QED BY <1>2, <1>3, <1>4, <1>5 DEF Next

-----------------------------------------------------------------------------
(* The theorems.                                                           *)

\* Both invariants hold in every state.
THEOREM Inductive == Spec => [](ServerInv /\ HistoryInv)
<1>1. Init => ServerInv /\ HistoryInv
  BY InitServer, InitHistoryInv
<1>2. ServerInv /\ HistoryInv /\ [Next]_vars => (ServerInv /\ HistoryInv)'
  BY NextServer, NextHistoryInv
<1> QED BY <1>1, <1>2, PTL DEF Spec

\* For any number of connections and every size: the history is the tail of
\* what handlers recorded since the last clear, matched or not; as long as the
\* size, or one entry if that is zero.
THEOREM HistoryIsAlwaysTheTail == Spec => []HistoryIsTheTail
<1>1. HistoryInv => HistoryIsTheTail
  <2> SUFFICES ASSUME HistoryInv PROVE HistoryIsTheTail
    OBVIOUS
  <2>1. PICK T : history \in Seq(T) /\ pushed \in Seq(T)
    BY DEF HistoryInv
  <2>2. /\ history_size \in Nat /\ Len(history) \in Nat /\ Len(pushed) \in Nat
        /\ Len(history) = IF Len(pushed) < Room THEN Len(pushed) ELSE Room
        /\ \A i \in 1 .. Len(history) :
             history[i] = pushed[Len(pushed) - Len(history) + i]
    BY <2>1 DEF HistoryInv, IsTail
  <2>3. Max({1, history_size}) = Room /\ Room \in Nat
    BY <2>2, MaxMin DEF Room
  <2>4. Min({Len(pushed), Room}) = Len(history)
    BY <2>2, <2>3, MaxMin
  <2> DEFINE last ==
        SubSeq(pushed, Len(pushed) - Len(history) + 1, Len(pushed))
  <2>5. Len(history) <= Len(pushed)
    BY <2>2, <2>3
  <2>6. /\ last \in Seq(T) /\ Len(last) = Len(history)
        /\ \A i \in 1 .. Len(history) :
             last[i] = pushed[Len(pushed) - Len(history) + i]
    BY <2>1, <2>2, <2>5
  <2>7. history = last
    <3> HIDE DEF last
    <3> QED BY <2>1, <2>2, <2>6
  <2> QED BY <2>3, <2>4, <2>7 DEF HistoryIsTheTail
<1> QED BY <1>1, InitHistoryInv, NextHistoryInv, PTL DEF Spec

\* The variables keep their types: what is in service loaded without error,
\* what a handler chose is a response, and the history has room.
THEOREM TypeCorrect == Spec => []TypeOK
<1>1. ServerInv /\ HistoryInv => TypeOK
  <2> SUFFICES ASSUME ServerInv, HistoryInv PROVE TypeOK
    OBVIOUS
  <2>1. tables \in Seq({Load(f.spec, f.sidecar) : f \in LoadableFiles})
    BY DEF ServerInv, TablesInv, Served
  <2>2. Len(history) <= Max({1, history_size})
    <3>1. PICK T : history \in Seq(T) /\ pushed \in Seq(T)
      BY DEF HistoryInv
    <3>2. /\ history_size \in Nat /\ Len(history) \in Nat /\ Len(pushed) \in Nat
          /\ Len(history) = IF Len(pushed) < Room THEN Len(pushed) ELSE Room
      BY <3>1 DEF HistoryInv, IsTail
    <3>3. Max({1, history_size}) = IF history_size > 1 THEN history_size ELSE 1
      BY <3>2, MaxMin
    <3> QED BY <3>2, <3>3 DEF Room
  <2>3. ASSUME NEW c \in Conn
        PROVE  /\ req[c].pc \in {"idle", "loaded", "found", "missed", "delayed"}
               /\ req[c].with \in {0} \cup DOMAIN tables
               /\ req[c].pc = "found" =>
                    req[c].choice
                      \in DOMAIN EntryAt(tables[req[c].with], req[c].entry).responses
    BY DEF ServerInv, HandlersInv, IsHandler
  <2> QED BY <2>1, <2>2, <2>3 DEF ServerInv, TypesInv, CountersInv, TypeOK
<1> QED BY <1>1, Inductive, PTL

\* Round robin is fair: however many handlers select and whatever is reloaded
\* in between, no response of an entry is chosen twice more than another.
THEOREM RotationIsFair == Spec => []RoundRobinIsFair
<1>1. ServerInv => RoundRobinIsFair
  <2> SUFFICES ASSUME ServerInv,
                      NEW g \in DOMAIN tables, NEW e \in Entries(tables[g]),
                      EntryAt(tables[g], e).selection = "RoundRobin",
                      NEW i \in DOMAIN EntryAt(tables[g], e).responses,
                      NEW j \in DOMAIN EntryAt(tables[g], e).responses
               PROVE  Times(g, e, i) <= Times(g, e, j) + 1
    BY DEF RoundRobinIsFair
  <2> DEFINE n == Len(EntryAt(tables[g], e).responses)
             k == counter[g][e]
  <2>1. tables[g] \in Seq(Declared)
    BY TableRoutes DEF ServerInv
  <2>2. n \in Nat \ {0} /\ i \in 1 .. n /\ j \in 1 .. n
    BY <2>1, EntryType
  <2>3. k \in Nat
    BY DEF ServerInv, CountersInv
  <2>4. Times(g, e, i) = Turns(k, n, i) /\ Times(g, e, j) = Turns(k, n, j)
    BY DEF ServerInv, RotationInv
  <2> HIDE DEF n, k
  <2>5. Turns(k, n, i) <= Turns(k, n, j) + 1
    BY <2>2, <2>3, TurnsTaken
  <2> QED BY <2>4, <2>5
<1> QED BY <1>1, Inductive, PTL

\* A reload never shows in the middle of a request: every history entry is
\* what some one registry says of its request.
THEOREM HistoryTellsOneRegistry == Spec => []HistoryIsConsistent
<1>1. ServerInv => HistoryIsConsistent
  BY DEF ServerInv
<1> QED BY <1>1, Inductive, PTL
=============================================================================
