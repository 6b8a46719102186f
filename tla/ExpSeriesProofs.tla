--------------------------- MODULE ExpSeriesProofs ---------------------------
(***************************************************************************)
(* Theorems about ExpSeries, for any parameter files, any parameters the   *)
(* preparation of the rules is registered for, and any number of stops and *)
(* of invalid rows.                                                        *)
(***************************************************************************)
EXTENDS ExpSeries, DataTheorems, SequenceTheorems

-----------------------------------------------------------------------------
(* How many elements of a sequence are in a set.                           *)

Hits(s, T) == Cardinality({i \in DOMAIN s : s[i] \in T})

LEMMA HitsType ==
    ASSUME NEW S, NEW s \in Seq(S), NEW T
    PROVE  /\ IsFiniteSet({i \in DOMAIN s : s[i] \in T})
           /\ Hits(s, T) \in Nat
           /\ Hits(s, T) <= Len(s)
<1>1. DOMAIN s = 1 .. Len(s) /\ Len(s) \in Nat
  OBVIOUS
<1>2. IsFiniteSet(1 .. Len(s)) /\ Cardinality(1 .. Len(s)) = Len(s)
  BY <1>1, FS_Interval
<1>3. {i \in DOMAIN s : s[i] \in T} \subseteq 1 .. Len(s)
  BY <1>1
<1> QED
  BY <1>2, <1>3, FS_Subset, FS_CardinalityType DEF Hits

LEMMA HitsEmpty == ASSUME NEW T PROVE Hits(<<>>, T) = 0
BY FS_EmptySet DEF Hits

\* Sequences with hits at the same positions.
LEMMA HitsSame ==
    ASSUME NEW s, NEW t, NEW T, NEW U, DOMAIN s = DOMAIN t,
           \A i \in DOMAIN s : s[i] \in T <=> t[i] \in U
    PROVE  Hits(s, T) = Hits(t, U)
<1>1. {i \in DOMAIN s : s[i] \in T} = {i \in DOMAIN t : t[i] \in U}
  OBVIOUS
<1> QED
  BY <1>1 DEF Hits

LEMMA HitsAppend ==
    ASSUME NEW S, NEW s \in Seq(S), NEW x \in S, NEW T
    PROVE  Hits(Append(s, x), T) = Hits(s, T) + (IF x \in T THEN 1 ELSE 0)
<1> DEFINE A == {i \in DOMAIN s : s[i] \in T}
           B == {i \in DOMAIN Append(s, x) : Append(s, x)[i] \in T}
           n == Len(s) + 1
<1>1. IsFiniteSet(A) /\ Cardinality(A) \in Nat
  BY HitsType DEF Hits
<1>2. n \notin A /\ B = IF x \in T THEN A \cup {n} ELSE A
  <2>1. DOMAIN s = 1 .. Len(s) /\ DOMAIN Append(s, x) = 1 .. n /\ Len(s) \in Nat
    OBVIOUS
  <2>2. Append(s, x)[n] = x /\ \A i \in 1 .. Len(s) : Append(s, x)[i] = s[i]
    OBVIOUS
  <2>3. 1 .. n = 1 .. Len(s) \cup {n} /\ n \notin 1 .. Len(s)
    BY <2>1
  <2> QED
    BY <2>1, <2>2, <2>3
<1> HIDE DEF A, B, n
<1>3. Cardinality(B) = Cardinality(A) + (IF x \in T THEN 1 ELSE 0)
  <2>1. Cardinality(A \cup {n}) = Cardinality(A) + 1
    BY <1>1, <1>2, FS_AddElement
  <2> QED
    BY <1>1, <1>2, <2>1
<1> QED
  BY <1>3 DEF Hits, A, B

LEMMA HitsHeadTail ==
    ASSUME NEW S, NEW s \in Seq(S), s # <<>>, NEW T
    PROVE  Hits(s, T) = Hits(Tail(s), T) + (IF Head(s) \in T THEN 1 ELSE 0)
<1> DEFINE A == {i \in DOMAIN Tail(s) : Tail(s)[i] \in T}
           B == {i \in DOMAIN s \ {1} : s[i] \in T}
           C == {i \in DOMAIN s : s[i] \in T}
           f == [i \in A |-> i + 1]
<1>0. /\ Len(s) \in Nat \ {0} /\ DOMAIN s = 1 .. Len(s)
      /\ DOMAIN Tail(s) = 1 .. Len(s) - 1 /\ Tail(s) \in Seq(S)
      /\ \A i \in 1 .. Len(s) - 1 : Tail(s)[i] = s[i + 1]
      /\ Head(s) = s[1]
  OBVIOUS
<1>1. IsFiniteSet(A) /\ IsFiniteSet(C)
  BY <1>0, HitsType
<1>2. Cardinality(B) = Cardinality(A) /\ IsFiniteSet(B)
  <2>1. f \in [A -> B]
    BY <1>0
  <2>2. \A x, y \in A : f[x] = f[y] => x = y
    BY <1>0
  <2>3. ASSUME NEW z \in B
        PROVE  \E x \in A : f[x] = z
    <3>1. z - 1 \in A
      BY <1>0
    <3>2. f[z - 1] = z
      BY <1>0, <3>1
    <3> QED
      BY <3>1, <3>2
  <2> HIDE DEF A, B, f
  <2> QED
    BY <1>1, <2>1, <2>2, <2>3, SameSize
<1>3. C = (IF Head(s) \in T THEN B \cup {1} ELSE B) /\ 1 \notin B
  BY <1>0
<1> HIDE DEF A, B, C
<1>4. Cardinality(C) = Cardinality(B) + (IF Head(s) \in T THEN 1 ELSE 0)
  <2>1. Cardinality(B) \in Nat
    BY <1>2, FS_CardinalityType
  <2>2. Cardinality(B \cup {1}) = Cardinality(B) + 1
    BY <1>2, <1>3, FS_AddElement
  <2> QED
    BY <1>3, <2>1, <2>2
<1> QED
  BY <1>2, <1>4 DEF Hits, A, C

LEMMA HitsFront ==
    ASSUME NEW S, NEW s \in Seq(S), NEW x \in S, NEW T
    PROVE  Hits(<<x>> \o s, T) = Hits(s, T) + (IF x \in T THEN 1 ELSE 0)
<1>1. <<x>> \o s \in Seq(S) /\ <<x>> \o s # <<>> /\ Head(<<x>> \o s) = x /\ Tail(<<x>> \o s) = s
  OBVIOUS
<1> HIDE <1>1
<1> DEFINE t == <<x>> \o s
<1> HIDE DEF t
<1>2. t \in Seq(S) /\ t # <<>> /\ Head(t) = x /\ Tail(t) = s
  BY <1>1 DEF t
<1>3. Hits(t, T) = Hits(Tail(t), T) + (IF Head(t) \in T THEN 1 ELSE 0)
  BY <1>2, HitsHeadTail
<1> QED
  BY <1>2, <1>3 DEF t

\* The hits at some positions.
HitsAt(s, K, T) == Cardinality({i \in K : s[i] \in T})

LEMMA HitsSelect ==
    ASSUME NEW S, NEW s \in Seq(S), NEW K, K \subseteq DOMAIN s, NEW T
    PROVE  Hits(Select(s, K), T) = HitsAt(s, K, T)
<1> DEFINE P == {i \in K : s[i] \in T}
           N == Cardinality(K)
<1>1. IsFiniteSet(K) /\ K \subseteq Nat /\ N \in Nat
  BY SelectType, FS_CardinalityType
<1>2. DOMAIN Select(s, K) = 1 .. N /\ \A n \in 1 .. N : Select(s, K)[n] = s[Nth(K, n)]
  BY DEF Select
<1>3. \A n \in 1 .. N : Nth(K, n) \in K
  BY <1>1, NthIs
<1>4. {n \in DOMAIN Select(s, K) : Select(s, K)[n] \in T} = {n \in 1 .. N : Nth(K, n) \in P}
  BY <1>2, <1>3
<1>5. K \cap P = P
  OBVIOUS
<1>6. Cardinality({n \in 1 .. N : Nth(K, n) \in P}) = Cardinality(K \cap P)
  <2> HIDE DEF P
  <2> QED
    BY <1>1, SelectHits
<1> QED
  BY <1>4, <1>5, <1>6 DEF Hits, HitsAt

-----------------------------------------------------------------------------
(* The plan of a file.                                                     *)

Combined(ps, shorter, k) ==
    LET name == ps[k][1]
        vals == ps[k][2]
        n    == Len(vals)
    IN  [i \in 1 .. Len(shorter) * n |->
            Put(shorter[((i - 1) \div n) + 1], name, vals[((i - 1) % n) + 1])]

\* f tabulates the product of the first parameters, up to m of them.
IsProduct(f, ps, m) ==
    f = [k \in 0 .. m |-> IF k = 0 THEN << <<>> >> ELSE Combined(ps, f[k - 1], k)]

LEMMA ProductDefined ==
    ASSUME NEW ps, Len(ps) \in Nat
    PROVE  \E f : IsProduct(f, ps, Len(ps)) /\ Product(ps) = f[Len(ps)]
<1> DEFINE C == {m \in Nat : \E f : IsProduct(f, ps, m)}
<1>1. 0 \in C
  <2>1. IsProduct([k \in 0 .. 0 |-> << <<>> >>], ps, 0)
    BY DEF IsProduct
  <2> QED
    BY <2>1
<1>2. ASSUME NEW m \in Nat, m \in C
      PROVE  m + 1 \in C
  <2>1. PICK f : IsProduct(f, ps, m)
    BY <1>2
  <2> DEFINE h == [k \in 0 .. m + 1 |-> IF k = 0 THEN << <<>> >> ELSE Combined(ps, f[k - 1], k)]
  <2>2. \A k \in 0 .. m : f[k] = IF k = 0 THEN << <<>> >> ELSE Combined(ps, f[k - 1], k)
    BY <2>1 DEF IsProduct
  <2>3. \A k \in 0 .. m : h[k] = f[k]
    BY <2>2
  <2>4. ASSUME NEW k \in 0 .. m + 1
        PROVE  h[k] = IF k = 0 THEN << <<>> >> ELSE Combined(ps, h[k - 1], k)
    <3>1. CASE k = 0
      BY <3>1
    <3>2. CASE k # 0
      <4>1. h[k] = Combined(ps, f[k - 1], k)
        BY <3>2
      <4>2. k - 1 \in 0 .. m
        BY <3>2
      <4> HIDE DEF h
      <4>3. h[k - 1] = f[k - 1]
        BY <2>3, <4>2
      <4> QED
        BY <3>2, <4>1, <4>3
    <3> QED
      BY <3>1, <3>2
  <2>5. IsProduct(h, ps, m + 1)
    BY <2>4 DEF IsProduct
  <2> QED
    BY <2>5
<1>3. \E f : IsProduct(f, ps, Len(ps))
  <2> HIDE DEF C
  <2>1. Nat \subseteq C
    BY <1>1, <1>2, SetOfNumbers
  <2> QED
    BY <2>1 DEF C
<1> DEFINE g == CHOOSE f : IsProduct(f, ps, Len(ps))
<1>4. Product(ps) = g[Len(ps)]
  BY DEF Product, IsProduct, Combined
<1> QED
  BY <1>3, <1>4

LEMMA ProductIsList ==
    ASSUME NEW ps, Len(ps) \in Nat, \A k \in 1 .. Len(ps) : Len(ps[k][2]) \in Nat
    PROVE  IsList(Product(ps))
<1>1. PICK f : IsProduct(f, ps, Len(ps)) /\ Product(ps) = f[Len(ps)]
  BY ProductDefined
<1> DEFINE C == {m \in Nat : m <= Len(ps) => IsList(f[m])}
<1>2. \A k \in 0 .. Len(ps) : f[k] = IF k = 0 THEN << <<>> >> ELSE Combined(ps, f[k - 1], k)
  BY <1>1 DEF IsProduct
<1>3. 0 \in C
  BY <1>2 DEF IsList
<1>4. ASSUME NEW m \in Nat, m \in C
      PROVE  m + 1 \in C
  <2> SUFFICES ASSUME m + 1 <= Len(ps)
               PROVE  IsList(f[m + 1])
    OBVIOUS
  <2>1. IsList(f[m])
    BY <1>4
  <2>2. m + 1 \in 1 .. Len(ps) /\ m + 1 \in 0 .. Len(ps) /\ m + 1 # 0 /\ m + 1 - 1 = m
    OBVIOUS
  <2>3. f[m + 1] = Combined(ps, f[m], m + 1)
    BY <1>2, <2>2
  <2> DEFINE n == Len(ps[m + 1][2])
  <2>4. Len(f[m]) \in Nat /\ n \in Nat
    BY <2>1, <2>2 DEF IsList
  <2> HIDE DEF n
  <2>5. Len(f[m]) * n \in Nat
    BY <2>4
  <2>6. Len(f[m + 1]) = Len(f[m]) * n
    BY <2>3, <2>5 DEF Combined, n
  <2>7. f[m + 1] = [i \in 1 .. Len(f[m]) * n |-> f[m + 1][i]]
    BY <2>3 DEF Combined, n
  <2> QED
    BY <2>5, <2>6, <2>7 DEF IsList
<1>5. Len(ps) \in C
  <2> HIDE DEF C
  <2>1. Nat \subseteq C
    BY <1>3, <1>4, SetOfNumbers
  <2> QED
    BY <2>1
<1> QED
  BY <1>1, <1>5

LEMMA Quotient ==
    ASSUME NEW r \in Nat, r # 0, NEW q \in Nat, NEW x \in Nat, q * r <= x, x < q * r + r
    PROVE  x \div r = q
<1> DEFINE d == x \div r
           m == x % r
<1>1. d \in Nat /\ m \in 0 .. r - 1 /\ x = r * d + m
  OBVIOUS
<1> HIDE DEF d, m
<1>2. r * d < q * r + r /\ q * r < r * d + r
  BY <1>1
<1>3. d < q + 1 /\ q < d + 1
  BY <1>1, <1>2
<1>4. d = q
  BY <1>1, <1>3
<1> QED
  BY <1>4 DEF d

LEMMA QuotientBelow ==
    ASSUME NEW r \in Nat, NEW n \in Nat, NEW i \in 1 .. r * n
    PROVE  ((i - 1) \div r) + 1 \in 1 .. n
<1>1. r # 0
  BY 0 * n = 0
<1> DEFINE d == (i - 1) \div r
           m == (i - 1) % r
<1>2. r * n \in Nat
  OBVIOUS
<1>3. i - 1 \in Nat /\ i - 1 < r * n
  BY <1>2
<1>4. d \in Nat /\ m \in 0 .. r - 1 /\ i - 1 = r * d + m
  BY <1>1, <1>3
<1> HIDE DEF d, m
<1>5. r * d < r * n
  BY <1>1, <1>2, <1>3, <1>4
<1>6. d < n
  BY <1>1, <1>4, <1>5
<1>7. d + 1 \in 1 .. n
  BY <1>4, <1>6
<1> QED
  BY <1>7 DEF d

\* What the filters let through is a list.
LEMMA CombinationsAre ==
    ASSUME NEW f \in Files
    PROVE  \E S : Combinations(f) \in Seq(S)
<1> DEFINE all == Product(f.params)
           S   == {all[i] : i \in DOMAIN all}
           K   == {i \in DOMAIN all : Admitted(f, all[i])}
<1>1. IsList(all)
  BY FilesAssumption, ProductIsList
<1> HIDE DEF all
<1>2. all \in Seq(S)
  BY <1>1 DEF IsList
<1>3. K \subseteq DOMAIN all
  OBVIOUS
<1> HIDE DEF K, S
<1>4. Select(all, K) \in Seq(S)
  BY <1>2, <1>3, SelectType
<1>5. Combinations(f) = Select(all, K)
  BY DEF Combinations, all, K
<1> QED
  BY <1>4, <1>5

\* The plan of a file has every configuration as often as it is to be repeated.
LEMMA PlanRepeats ==
    ASSUME NEW f \in Files
    PROVE  LET configs == {PlanOf(f)[i] : i \in DOMAIN PlanOf(f)}
           IN  /\ PlanOf(f) \in Seq(configs)
               /\ \A c \in configs : Hits(PlanOf(f), {c}) >= f.reps
<1> DEFINE configs == {PlanOf(f)[i] : i \in DOMAIN PlanOf(f)}
           A == Combinations(f)
           r == f.reps
           n == Len(A)
           P == PlanOf(f)
<1>1. r \in Nat /\ n \in Nat
  <2>1. r \in Nat
    BY FilesAssumption
  <2>2. n \in Nat
    BY CombinationsAre
  <2> QED
    BY <2>1, <2>2
<1>2. P = [i \in 1 .. r * n |-> A[((i - 1) \div r) + 1]]
  BY DEF PlanOf
<1> HIDE DEF A, r, n, P
<1>3. r * n \in Nat
  BY <1>1
<1>4. DOMAIN P = 1 .. r * n
  BY <1>2
<1>5. P \in Seq(configs)
  BY <1>2, <1>3, <1>4 DEF P
<1>6. ASSUME NEW c \in configs
      PROVE  Hits(P, {c}) >= r
  <2>1. PICK i \in 1 .. r * n : c = P[i]
    BY <1>4 DEF P
  <2> DEFINE q == (i - 1) \div r
  <2>2. q + 1 \in 1 .. n
    BY <1>1, QuotientBelow
  <2>3. c = A[q + 1]
    BY <1>2, <2>1
  <2>4. r # 0
    BY <1>1, <2>1, 0 * n = 0
  <2>4a. q \in Nat
    BY <1>1, <1>3, <2>4
  <2> HIDE DEF q
  <2>5. q \in Nat /\ q * r \in Nat /\ (q + 1) * r <= r * n /\ (q + 1) * r = q * r + r
    <3>1. q \in Nat /\ n - (q + 1) \in Nat
      BY <1>1, <2>2, <2>4a
    <3>2. r * (n - (q + 1)) \in Nat /\ q * r \in Nat
      BY <1>1, <3>1
    <3>3. r * n = (q + 1) * r + r * (n - (q + 1)) /\ (q + 1) * r = q * r + r
      BY <1>1, <3>1
    <3> QED
      BY <1>1, <3>1, <3>2, <3>3
  <2>6. ASSUME NEW j \in q * r + 1 .. q * r + r
        PROVE  j \in DOMAIN P /\ P[j] = c
    <3>1. j \in 1 .. r * n
      BY <1>1, <1>3, <2>5
    <3>2. j - 1 \in Nat /\ q * r <= j - 1 /\ j - 1 < q * r + r
      BY <1>1, <2>5
    <3>3. (j - 1) \div r = q
      BY <1>1, <2>4, <2>5, <3>2, Quotient
    <3> QED
      BY <1>2, <1>4, <2>3, <3>1, <3>3
  <2> DEFINE T == q * r + 1 .. q * r + r
             H == {j \in DOMAIN P : P[j] \in {c}}
  <2>7. T \subseteq H
    BY <2>6
  <2>8. IsFiniteSet(H)
    BY <1>5, HitsType
  <2>9. Cardinality(T) = r
    BY <1>1, <2>4, <2>5, FS_Interval
  <2> HIDE DEF T, H
  <2>10. Cardinality(T) <= Cardinality(H)
    BY <2>7, <2>8, FS_Subset
  <2>11. Hits(P, {c}) = Cardinality(H) /\ Cardinality(H) \in Nat
    BY <2>8, FS_CardinalityType DEF Hits, H
  <2> QED
    BY <1>1, <2>9, <2>10, <2>11
<1> QED
  BY <1>5, <1>6 DEF P, r

LEMMA PlanIs ==
    ASSUME file \in Files
    PROVE  /\ Plan \in Seq(Configs) /\ Len(Plan) \in Nat
           /\ file.reps \in Nat
           /\ \A c \in Configs : Hits(Plan, {c}) \in Nat /\ Hits(Plan, {c}) >= file.reps
<1>1. Plan = PlanOf(file) /\ Configs = {PlanOf(file)[i] : i \in DOMAIN PlanOf(file)}
  BY DEF Plan, Configs, Said
<1>2. Plan \in Seq(Configs) /\ \A c \in Configs : Hits(Plan, {c}) >= file.reps
  BY <1>1, PlanRepeats
<1>3. Len(Plan) \in Nat
  BY <1>2
<1>4. \A c \in Configs : Hits(Plan, {c}) \in Nat
  BY <1>2, HitsType
<1> QED
  BY <1>2, <1>3, <1>4, FilesAssumption

-----------------------------------------------------------------------------
(* The invariant.                                                          *)

ValidRows(D)   == {r \in RowsOf(D) : Valid(r.vals)}
GoodRows(D, c) == {r \in RowsOf(D) : r.cfg = c /\ Valid(r.vals)}

\* The configurations with a complete row.
FullConfigs(rows) == {rows[i].cfg : i \in {j \in DOMAIN rows : "app" \in rows[j].vals}}

Types ==
    /\ pc \in {"off", "setup", "precompile", "next", "run", "export", "save", "done", "refused"}
    /\ file \in Files
    /\ sets \in Seq(Configs)
    /\ {curr, prev} \subseteq Configs \cup {NONE}
    /\ columns \subseteq ResultColumns
    /\ entries \in Seq(RowsOf(Configs))
    /\ csv \in Seq(RowsOf(Configs)) \cup {NONE}
    /\ saved \in StatesOf(Configs) \cup {NONE}
    /\ saved # NONE => csv # NONE
    /\ pc \in {"run", "export", "save"} => curr \in Configs /\ prev = curr
    /\ crashes \in Nat /\ resumes \in Nat /\ resumes <= crashes
    /\ pc = "off" /\ saved # NONE => resumes < crashes
    /\ cut \subseteq Configs

\* main is between its start and its end.
Active == pc \notin {"off", "refused"}

\* A valid row is complete, or its configuration is known to have been cut off.
Uncut(rows) ==
    \A i \in DOMAIN rows : Valid(rows[i].vals) /\ rows[i].cfg \notin cut => "app" \in rows[i].vals

RowsComplete ==
    /\ Uncut(entries)
    /\ csv # NONE => Uncut(csv)
    /\ pc = "save" => csv = entries

\* The run that is being made, for the rows still to come.
AtWork(c) == IF pc = "run" /\ curr = c THEN 1 ELSE 0

\* What has a row, what is being run and what is left make up the plan, in memory and
\* on disk; memory is ahead of the disk.
Lossless ==
    \A c \in Configs \ cut :
        /\ Active => Hits(entries, GoodRows(Configs, c)) + Hits(sets, {c}) + AtWork(c) >= file.reps
        /\ saved # NONE =>
              /\ Hits(csv, GoodRows(Configs, c)) + Hits(Resumed, {c}) >= file.reps
              /\ Active => Hits(entries, GoodRows(Configs, c)) >= Hits(csv, GoodRows(Configs, c))

Bounded ==
    LET bound == Len(Plan) + 2 * resumes
        V(rows) == Hits(rows, ValidRows(Configs))
    IN  /\ Active => V(entries) + Len(sets) + (IF pc = "run" THEN 1 ELSE 0) <= bound
        /\ csv # NONE => V(csv) <= bound
        /\ saved # NONE =>
              /\ V(csv) + Len(saved.sets) <= bound + 1
              /\ Active => Len(saved.sets) <= Len(sets) + (IF pc \in {"run", "export", "save"} THEN 1 ELSE 0)

\* Before the first state is saved only the first configuration can have a row; later
\* the rows in memory are those on disk, and that of the last run.
Measured ==
    /\ pc \in {"export", "save"} => curr \in FullConfigs(entries) \cup cut
    /\ saved = NONE =>
          /\ csv # NONE => FullConfigs(csv) \subseteq {Plan[1]}
          /\ pc \in {"setup", "precompile", "next"} => sets = Plan
          /\ pc \in {"run", "export", "save"} => curr = Plan[1]
          /\ pc \in {"setup", "precompile", "next", "run"} => FullConfigs(entries) = {}
          /\ pc \in {"export", "save"} => FullConfigs(entries) \subseteq {curr}
    /\ saved # NONE /\ Active =>
          /\ FullConfigs(csv) \subseteq FullConfigs(entries)
          /\ FullConfigs(entries) \subseteq FullConfigs(csv) \cup (IF pc = "export" THEN {curr} ELSE {})

SeriesInv == Types /\ RowsComplete /\ Lossless /\ Bounded /\ Measured

-----------------------------------------------------------------------------
(* Rows.                                                                   *)

\* A set of rows that is told by their configurations and values.
Told(D, T) == \A r, s \in RowsOf(D) : r.cfg = s.cfg /\ r.vals = s.vals => (r \in T <=> s \in T)

\* The rows that are read back.
ReadBack(rows) == {i \in DOMAIN rows : First(Header(rows)) \in rows[i].vals \cup {"index"}}

\* A row that is read back has its configuration and its values; a complete one is
\* always read back.
LEMMA LoadedIs ==
    ASSUME NEW D, NEW rows \in Seq(RowsOf(D))
    PROVE  /\ Loaded(rows) \in Seq(RowsOf(D))
           /\ \A T : Told(D, T) => Hits(Loaded(rows), T) = HitsAt(rows, ReadBack(rows), T)
           /\ \A i \in DOMAIN Loaded(rows) : \E j \in DOMAIN rows :
                 Loaded(rows)[i].cfg = rows[j].cfg /\ Loaded(rows)[i].vals = rows[j].vals
           /\ \A j \in DOMAIN rows : "app" \in rows[j].vals =>
                 \E i \in DOMAIN Loaded(rows) :
                    Loaded(rows)[i].cfg = rows[j].cfg /\ Loaded(rows)[i].vals = rows[j].vals
<1> DEFINE header == Header(rows)
           K      == {i \in DOMAIN rows : First(header) \in rows[i].vals \cup {"index"}}
           kept   == Select(rows, K)
           N      == Cardinality(K)
<1>1. /\ kept \in Seq(RowsOf(D)) /\ Len(kept) = N /\ N \in Nat
      /\ IsFiniteSet(K) /\ K \subseteq Nat /\ K \subseteq DOMAIN rows
  <2>1. K \subseteq DOMAIN rows
    OBVIOUS
  <2> HIDE DEF K
  <2> QED
    BY <2>1, SelectType, FS_CardinalityType
<1>2. header \subseteq ResultColumns /\ \A i \in DOMAIN rows : rows[i].keys \subseteq header
  BY DEF Header, RowsOf
<1>3. Loaded(rows) = [i \in 1 .. N |-> [kept[i] EXCEPT !.keys = header]]
  BY <1>1 DEF Loaded
<1>4. \A i \in 1 .. N : Nth(K, i) \in K /\ kept[i] = rows[Nth(K, i)]
  <2> HIDE DEF K
  <2> QED
    BY <1>1, NthIs DEF Select
<1> HIDE DEF header, K, kept, N
<1>5. ASSUME NEW i \in 1 .. N
      PROVE  /\ Loaded(rows)[i] \in RowsOf(D)
             /\ Loaded(rows)[i].cfg = kept[i].cfg
             /\ Loaded(rows)[i].vals = kept[i].vals
             /\ kept[i] \in RowsOf(D)
  <2>1. Nth(K, i) \in DOMAIN rows /\ kept[i] = rows[Nth(K, i)]
    BY <1>1, <1>4
  <2>2. kept[i] \in RowsOf(D) /\ kept[i].vals \subseteq header
    BY <1>2, <2>1 DEF RowsOf
  <2>3. Loaded(rows)[i] = [kept[i] EXCEPT !.keys = header]
    BY <1>3
  <2> QED
    BY <1>2, <2>2, <2>3 DEF RowsOf
<1>6. Loaded(rows) \in Seq(RowsOf(D)) /\ DOMAIN Loaded(rows) = 1 .. N
  <2>1. N \in Nat
    BY <1>1
  <2>2. DOMAIN Loaded(rows) = 1 .. N /\ Loaded(rows) = [i \in 1 .. N |-> Loaded(rows)[i]]
    BY <1>3
  <2>3. \A i \in 1 .. N : Loaded(rows)[i] \in RowsOf(D)
    BY <1>5
  <2> QED
    BY <2>1, <2>2, <2>3
<1>7. ASSUME NEW T, Told(D, T)
      PROVE  Hits(Loaded(rows), T) = HitsAt(rows, K, T)
  <2>1. DOMAIN kept = 1 .. N
    BY <1>1
  <2> DEFINE back == Loaded(rows)
  <2>2. DOMAIN back = DOMAIN kept /\ \A i \in DOMAIN back : back[i] \in T <=> kept[i] \in T
    BY <1>5, <1>6, <1>7, <2>1 DEF Told
  <2> HIDE DEF back
  <2>3. Hits(back, T) = Hits(kept, T)
    BY <2>2, HitsSame
  <2>4. Hits(kept, T) = HitsAt(rows, K, T)
    BY <1>1, HitsSelect DEF kept
  <2> QED
    BY <2>3, <2>4 DEF back
<1>8. ASSUME NEW j \in DOMAIN rows, "app" \in rows[j].vals
      PROVE  j \in K
  <2>1. "app" \in header
    BY <1>2, <1>8 DEF RowsOf
  <2>2. First(header) = "app"
    BY <2>1 DEF First
  <2> QED
    BY <1>8, <2>2 DEF K
<1>9. ASSUME NEW j \in DOMAIN rows, "app" \in rows[j].vals
      PROVE  \E i \in 1 .. N : kept[i] = rows[j]
  <2>1. j \in K
    BY <1>8, <1>9
  <2>2. PICK i \in 1 .. N : Nth(K, i) = j
    BY <1>1, <2>1, NthIs DEF N
  <2> QED
    BY <1>4, <2>2
<1>10. K = ReadBack(rows)
  BY DEF K, header, ReadBack
<1>11. \A i \in 1 .. N : \E j \in DOMAIN rows : kept[i] = rows[j]
  BY <1>1, <1>4
<1>12. ASSUME NEW i \in DOMAIN Loaded(rows)
       PROVE  \E j \in DOMAIN rows :
                 Loaded(rows)[i].cfg = rows[j].cfg /\ Loaded(rows)[i].vals = rows[j].vals
  BY <1>5, <1>6, <1>11
<1>13. ASSUME NEW j \in DOMAIN rows, "app" \in rows[j].vals
       PROVE  \E i \in DOMAIN Loaded(rows) :
                 Loaded(rows)[i].cfg = rows[j].cfg /\ Loaded(rows)[i].vals = rows[j].vals
  BY <1>5, <1>6, <1>9, <1>13
<1> QED
  BY <1>6, <1>7, <1>10, <1>12, <1>13

LEMMA LoadedRows ==
    ASSUME NEW D, NEW rows \in Seq(RowsOf(D))
    PROVE  /\ Hits(Loaded(rows), ValidRows(D)) <= Hits(rows, ValidRows(D))
           /\ \A c : (\A i \in DOMAIN rows : rows[i] \in GoodRows(D, c) => "app" \in rows[i].vals)
                     => Hits(Loaded(rows), GoodRows(D, c)) = Hits(rows, GoodRows(D, c))
           /\ FullConfigs(Loaded(rows)) = FullConfigs(rows)
<1>1. Told(D, ValidRows(D)) /\ \A c : Told(D, GoodRows(D, c))
  BY DEF Told, ValidRows, GoodRows
<1>2. Hits(Loaded(rows), ValidRows(D)) <= Hits(rows, ValidRows(D))
  <2> DEFINE T == ValidRows(D)
             A == {i \in ReadBack(rows) : rows[i] \in T}
             B == {i \in DOMAIN rows : rows[i] \in T}
  <2>1. Hits(Loaded(rows), T) = HitsAt(rows, ReadBack(rows), T)
    BY <1>1, LoadedIs
  <2>2. A \subseteq B
    BY DEF ReadBack
  <2>3. IsFiniteSet(B)
    BY HitsType
  <2> HIDE DEF A, B, T
  <2>4. Cardinality(A) <= Cardinality(B)
    BY <2>2, <2>3, FS_Subset
  <2> QED
    BY <2>1, <2>4 DEF A, B, T, Hits, HitsAt
<1>3. ASSUME NEW c, \A i \in DOMAIN rows : rows[i] \in GoodRows(D, c) => "app" \in rows[i].vals
      PROVE  Hits(Loaded(rows), GoodRows(D, c)) = Hits(rows, GoodRows(D, c))
  <2> DEFINE T == GoodRows(D, c)
             A == {i \in ReadBack(rows) : rows[i] \in T}
             B == {i \in DOMAIN rows : rows[i] \in T}
  <2>1. Hits(Loaded(rows), T) = HitsAt(rows, ReadBack(rows), T)
    BY <1>1, LoadedIs
  <2>2. ASSUME NEW i \in DOMAIN rows, rows[i] \in T
        PROVE  i \in ReadBack(rows)
    <3>1. "app" \in rows[i].vals
      BY <1>3, <2>2
    <3>2. "app" \in Header(rows)
      BY <2>2, <3>1 DEF Header, GoodRows, RowsOf
    <3> QED
      BY <3>1, <3>2 DEF ReadBack, First
  <2>3. A = B
    BY <2>2 DEF ReadBack
  <2> QED
    BY <2>1, <2>3 DEF Hits, HitsAt
<1>4. FullConfigs(Loaded(rows)) = FullConfigs(rows)
  <2>1. ASSUME NEW c \in FullConfigs(Loaded(rows))
        PROVE  c \in FullConfigs(rows)
    <3>1. PICK i \in DOMAIN Loaded(rows) : "app" \in Loaded(rows)[i].vals /\ c = Loaded(rows)[i].cfg
      BY DEF FullConfigs
    <3>2. PICK j \in DOMAIN rows :
             Loaded(rows)[i].cfg = rows[j].cfg /\ Loaded(rows)[i].vals = rows[j].vals
      BY LoadedIs
    <3> QED
      BY <3>1, <3>2 DEF FullConfigs
  <2>2. ASSUME NEW c \in FullConfigs(rows)
        PROVE  c \in FullConfigs(Loaded(rows))
    <3>1. PICK j \in DOMAIN rows : "app" \in rows[j].vals /\ c = rows[j].cfg
      BY DEF FullConfigs
    <3>2. PICK i \in DOMAIN Loaded(rows) :
             Loaded(rows)[i].cfg = rows[j].cfg /\ Loaded(rows)[i].vals = rows[j].vals
      BY <3>1, LoadedIs
    <3> QED
      BY <3>1, <3>2 DEF FullConfigs
  <2> QED
    BY <2>1, <2>2
<1> QED
  BY <1>2, <1>3, <1>4

LEMMA FullAppend ==
    ASSUME NEW S, NEW s \in Seq(S), NEW r \in S
    PROVE  FullConfigs(Append(s, r)) = FullConfigs(s) \cup (IF "app" \in r.vals THEN {r.cfg} ELSE {})
<1> DEFINE n == Len(s) + 1
           t == Append(s, r)
<1>1. /\ DOMAIN s = 1 .. Len(s) /\ DOMAIN t = 1 .. n /\ Len(s) \in Nat
      /\ t[n] = r /\ \A i \in 1 .. Len(s) : t[i] = s[i]
  OBVIOUS
<1>2. DOMAIN t = DOMAIN s \cup {n} /\ n \notin DOMAIN s
  BY <1>1
<1> HIDE DEF t, n
<1> QED
  BY <1>1, <1>2 DEF FullConfigs, t

-----------------------------------------------------------------------------
(* The steps.                                                              *)

LEMMA SameFile ==
    ASSUME UNCHANGED file
    PROVE  Configs' = Configs /\ Plan' = Plan
BY DEF Configs, Plan

\* Steps that change neither the rows nor what is left.
LEMMA QuietStep ==
    ASSUME SeriesInv, UNCHANGED <<file, memory, disk, crashes, resumes, cut>>,
           \/ pc' = pc
           \/ pc = "setup" /\ pc' = "precompile"
           \/ pc = "precompile" /\ pc' = "next"
           \/ pc = "next" /\ pc' = "done"
           \/ pc = "off" /\ pc' = "refused"
    PROVE  SeriesInv'
<1> USE DEF memory, disk
<1>1. Configs' = Configs /\ Plan' = Plan
  BY SameFile
<1>2. Types'
  BY <1>1 DEF SeriesInv, Types
<1>3. RowsComplete'
  BY DEF SeriesInv, RowsComplete, Uncut
<1>4. Lossless'
  <2>1. ASSUME NEW c \in Configs
        PROVE  AtWork(c)' = AtWork(c)
    BY DEF AtWork
  <2>2. Resumed' = Resumed /\ (Active' => Active)
    BY DEF Resumed, Active
  <2> QED
    BY <1>1, <2>1, <2>2 DEF SeriesInv, Lossless
<1>5. Bounded'
  <2>1. Active' => Active
    BY DEF Active
  <2>2. /\ pc' = "run" <=> pc = "run"
        /\ pc' \in {"run", "export", "save"} <=> pc \in {"run", "export", "save"}
    OBVIOUS
  <2> QED
    BY <1>1, <2>1, <2>2 DEF SeriesInv, Bounded
<1>6. Measured'
  <2>1. Active' => Active
    BY DEF Active
  <2> QED
    BY <1>1, <2>1 DEF SeriesInv, Measured
<1> QED
  BY <1>2, <1>3, <1>4, <1>5, <1>6 DEF SeriesInv

\* A stop: the memory is gone.
LEMMA StopStep == SeriesInv /\ Stop => SeriesInv'
<1> SUFFICES ASSUME SeriesInv, Stop
             PROVE  SeriesInv'
  OBVIOUS
<1> USE DEF Stop, disk
<1>1. Configs' = Configs /\ Plan' = Plan
  BY SameFile
<1>2. Types'
  <2>1. sets' \in Seq(Configs) /\ entries' \in Seq(RowsOf(Configs))
    OBVIOUS
  <2>2. crashes' \in Nat /\ resumes' \in Nat /\ resumes' <= crashes'
    BY DEF SeriesInv, Types
  <2> QED
    BY <1>1, <2>1, <2>2 DEF SeriesInv, Types
<1>3. RowsComplete'
  BY DEF SeriesInv, RowsComplete, Uncut
<1>4. ~Active' /\ Resumed' = Resumed
  BY DEF Active, Resumed
<1>5. Lossless'
  BY <1>1, <1>4 DEF SeriesInv, Lossless
<1>6. Bounded'
  BY <1>1, <1>4 DEF SeriesInv, Bounded
<1>7. Measured'
  BY <1>1, <1>4 DEF SeriesInv, Measured
<1> QED
  BY <1>2, <1>3, <1>5, <1>6, <1>7 DEF SeriesInv

LEMMA FullNone == FullConfigs(<<>>) = {}
BY DEF FullConfigs

\* The first start, and those before the first state is saved.
LEMMA FreshStart ==
    ASSUME SeriesInv, Start, saved = NONE
    PROVE  SeriesInv'
<1> USE DEF Start, NewDataManager, NewEventManager, disk
<1>1. Configs' = Configs /\ Plan' = Plan
  BY SameFile
<1>2. /\ Plan \in Seq(Configs) /\ Len(Plan) \in Nat /\ file.reps \in Nat
      /\ \A c \in Configs : Hits(Plan, {c}) \in Nat /\ Hits(Plan, {c}) >= file.reps
  BY PlanIs DEF SeriesInv, Types
<1>3. Types'
  <2>1. sets' \in Seq(Configs) /\ entries' \in Seq(RowsOf(Configs))
    BY <1>2
  <2> QED
    BY <1>1, <2>1 DEF SeriesInv, Types
<1>4. RowsComplete'
  BY DEF SeriesInv, RowsComplete, Uncut
<1>5. Lossless'
  <2>1. ASSUME NEW c \in Configs
        PROVE  /\ Hits(entries', GoodRows(Configs, c)) = 0
               /\ Hits(sets', {c}) = Hits(Plan, {c})
               /\ AtWork(c)' = 0
    BY HitsEmpty DEF AtWork
  <2> QED
    BY <1>1, <1>2, <2>1 DEF Lossless
<1>6. Bounded'
  <2>1. Hits(entries', ValidRows(Configs)) = 0
    BY HitsEmpty
  <2>2. resumes \in Nat
    BY DEF SeriesInv, Types
  <2> QED
    BY <1>1, <1>2, <2>1, <2>2 DEF SeriesInv, Bounded
<1>7. Measured'
  BY <1>1, FullNone DEF SeriesInv, Measured
<1> QED
  BY <1>3, <1>4, <1>5, <1>6, <1>7 DEF SeriesInv

\* A start from the saved state.
LEMMA ResumedStart ==
    ASSUME SeriesInv, Start, saved # NONE
    PROVE  SeriesInv'
<1> USE DEF Start, NewDataManager, NewEventManager, disk
<1> DEFINE R == RowsOf(Configs)
<1>1. Configs' = Configs /\ Plan' = Plan
  BY SameFile
<1>2. csv \in Seq(R) /\ csv # NONE /\ saved \in StatesOf(Configs)
  BY DEF SeriesInv, Types
<1>3. /\ saved.sets \in Seq(Configs) /\ saved.curr \in Configs
      /\ Resumed \in Seq(Configs) /\ Len(Resumed) = Len(saved.sets) + 1 /\ Len(saved.sets) \in Nat
  BY <1>2 DEF StatesOf, Resumed
<1>4. /\ Len(Plan) \in Nat /\ file.reps \in Nat
      /\ Hits(csv, ValidRows(Configs)) \in Nat /\ Hits(Loaded(csv), ValidRows(Configs)) \in Nat
  <2>1. Loaded(csv) \in Seq(R)
    BY <1>2, LoadedIs
  <2>2. Plan \in Seq(Configs) /\ file.reps \in Nat
    BY PlanIs DEF SeriesInv, Types
  <2>3. Len(Plan) \in Nat
    BY <2>2
  <2> HIDE DEF R
  <2>4. Hits(csv, ValidRows(Configs)) \in Nat
    BY <1>2, HitsType
  <2>5. Hits(Loaded(csv), ValidRows(Configs)) \in Nat
    BY <2>1, HitsType
  <2> QED
    BY <2>2, <2>3, <2>4, <2>5
<1>5. Types'
  <2>1. sets' \in Seq(Configs) /\ entries' \in Seq(R)
    BY <1>2, <1>3, LoadedIs
  <2>2. resumes' \in Nat /\ resumes' <= crashes'
    BY DEF SeriesInv, Types
  <2> QED
    BY <1>1, <2>1, <2>2 DEF SeriesInv, Types
<1>6. RowsComplete'
  <2>1. Uncut(csv)
    BY <1>2 DEF SeriesInv, RowsComplete
  <2>2. Uncut(Loaded(csv))
    BY <1>2, <2>1, LoadedIs DEF Uncut
  <2> QED
    BY <2>1, <2>2 DEF RowsComplete, Uncut
<1>7. Lossless'
  <2>1. ASSUME NEW c \in Configs \ cut
        PROVE  /\ Hits(entries', GoodRows(Configs, c)) = Hits(csv, GoodRows(Configs, c))
               /\ Hits(csv, GoodRows(Configs, c)) \in Nat
               /\ Hits(sets', {c}) = Hits(Resumed, {c})
               /\ AtWork(c)' = 0
    <3>1. \A i \in DOMAIN csv : csv[i] \in GoodRows(Configs, c) => "app" \in csv[i].vals
      BY <1>2 DEF SeriesInv, RowsComplete, Uncut, GoodRows
    <3>2. Hits(Loaded(csv), GoodRows(Configs, c)) = Hits(csv, GoodRows(Configs, c))
      BY <1>2, <3>1, LoadedRows
    <3> QED
      BY <1>2, <3>2, HitsType DEF AtWork
  <2>2. Resumed' = Resumed
    BY DEF Resumed
  <2>3. \A c \in Configs \ cut :
           /\ Hits(Resumed, {c}) \in Nat
           /\ Hits(csv, GoodRows(Configs, c)) + Hits(Resumed, {c}) >= file.reps
    BY <1>2, <1>3, HitsType DEF SeriesInv, Lossless
  <2>4. csv' = csv /\ saved' = saved /\ cut' = cut /\ file' = file
    OBVIOUS
  <2> HIDE DEF Start
  <2>5. ASSUME NEW c \in Configs \ cut
        PROVE  /\ Hits(entries', GoodRows(Configs, c)) + Hits(sets', {c}) + AtWork(c)' >= file.reps
               /\ Hits(csv', GoodRows(Configs, c)) + Hits(Resumed', {c}) >= file.reps
               /\ Hits(entries', GoodRows(Configs, c)) >= Hits(csv', GoodRows(Configs, c))
    <3>1. /\ Hits(csv, GoodRows(Configs, c)) \in Nat /\ Hits(Resumed, {c}) \in Nat
          /\ Hits(csv, GoodRows(Configs, c)) + Hits(Resumed, {c}) >= file.reps
      BY <2>1, <2>3
    <3> QED
      BY <1>4, <2>1, <2>2, <2>4, <3>1
  <2> QED
    BY <1>1, <2>4, <2>5 DEF Lossless
<1>8. Bounded'
  <2>1. Hits(Loaded(csv), ValidRows(Configs)) <= Hits(csv, ValidRows(Configs))
    BY <1>2, LoadedRows
  <2>2. resumes \in Nat /\ resumes' = resumes + 1
    BY DEF SeriesInv, Types
  <2>3. /\ Hits(csv, ValidRows(Configs)) <= Len(Plan) + 2 * resumes
        /\ Hits(csv, ValidRows(Configs)) + Len(saved.sets) <= Len(Plan) + 2 * resumes + 1
    BY <1>2 DEF SeriesInv, Bounded
  <2> QED
    BY <1>1, <1>3, <1>4, <2>1, <2>2, <2>3 DEF Bounded
<1>9. Measured'
  <2>1. FullConfigs(Loaded(csv)) = FullConfigs(csv)
    BY <1>2, LoadedRows
  <2> QED
    BY <1>1, <2>1 DEF Measured
<1> QED
  BY <1>5, <1>6, <1>7, <1>8, <1>9 DEF SeriesInv

LEMMA NextParamsStep ==
    ASSUME SeriesInv, NextParams
    PROVE  SeriesInv'
<1> USE DEF NextParams, PopParams, disk, ghosts
<1>1. Configs' = Configs /\ Plan' = Plan /\ Resumed' = Resumed
  BY SameFile DEF Resumed
<1>2. /\ sets \in Seq(Configs) /\ sets # <<>> /\ Len(sets) \in Nat
      /\ Head(sets) \in Configs /\ Tail(sets) \in Seq(Configs) /\ Len(Tail(sets)) = Len(sets) - 1
      /\ Head(sets) = sets[1]
  BY DEF SeriesInv, Types
<1>3. curr' = Head(sets) /\ prev' = Head(sets) /\ sets' = Tail(sets)
  BY DEF ProcessParameters
<1>4. Types'
  BY <1>1, <1>2, <1>3 DEF SeriesInv, Types
<1>5. RowsComplete'
  BY DEF SeriesInv, RowsComplete, Uncut
<1>6. Lossless'
  <2>1. ASSUME NEW c \in Configs
        PROVE  /\ Hits(sets, {c}) \in Nat /\ Hits(sets', {c}) \in Nat
               /\ AtWork(c)' \in Nat /\ AtWork(c) = 0
               /\ Hits(sets, {c}) + AtWork(c) = Hits(sets', {c}) + AtWork(c)'
    <3>1. Hits(sets, {c}) = Hits(Tail(sets), {c}) + (IF Head(sets) \in {c} THEN 1 ELSE 0)
      BY <1>2, HitsHeadTail
    <3>2. Hits(sets, {c}) \in Nat /\ Hits(Tail(sets), {c}) \in Nat
      BY <1>2, HitsType
    <3>3. AtWork(c) = 0 /\ AtWork(c)' = IF Head(sets) \in {c} THEN 1 ELSE 0
      BY <1>3 DEF AtWork
    <3> QED
      BY <1>3, <3>1, <3>2, <3>3
  <2>2. ASSUME NEW c \in Configs
        PROVE  Hits(entries, GoodRows(Configs, c)) \in Nat
    BY HitsType DEF SeriesInv, Types
  <2>3. Active /\ Active'
    BY DEF Active
  <2>4. ASSUME NEW c \in Configs \ cut
        PROVE  /\ Hits(entries', GoodRows(Configs, c)) + Hits(sets', {c}) + AtWork(c)' >= file.reps
               /\ saved # NONE =>
                     /\ Hits(csv', GoodRows(Configs, c)) + Hits(Resumed', {c}) >= file.reps
                     /\ Hits(entries', GoodRows(Configs, c)) >= Hits(csv', GoodRows(Configs, c))
    <3>1. Hits(entries, GoodRows(Configs, c)) + Hits(sets, {c}) + AtWork(c) >= file.reps
      BY <2>3 DEF SeriesInv, Lossless
    <3>2. Hits(entries', GoodRows(Configs, c)) + Hits(sets', {c}) + AtWork(c)' >= file.reps
      BY <2>1, <2>2, <3>1
    <3> QED
      BY <1>1, <2>3, <3>2 DEF SeriesInv, Lossless
  <2> QED
    BY <1>1, <2>4 DEF Lossless
<1>7. Bounded'
  <2>1. Bounded
    BY DEF SeriesInv
  <2>2. /\ entries' = entries /\ csv' = csv /\ saved' = saved /\ resumes' = resumes
        /\ pc = "next" /\ pc' = "run" /\ Active /\ Active'
        /\ Len(sets') = Len(sets) - 1
    BY <1>2, <1>3 DEF Active
  <2>3. Len(Plan) \in Nat /\ resumes \in Nat
    BY PlanIs DEF SeriesInv, Types
  <2>4. Hits(entries, ValidRows(Configs)) \in Nat
    BY HitsType DEF SeriesInv, Types
  <2>5. saved # NONE => Len(saved.sets) \in Nat
    BY DEF SeriesInv, Types, StatesOf
  <2>6. Hits(entries', ValidRows(Configs)) + Len(sets') + 1 <= Len(Plan) + 2 * resumes
    BY <1>2, <2>1, <2>2, <2>3, <2>4 DEF Bounded
  <2>7. csv # NONE => Hits(csv', ValidRows(Configs)) <= Len(Plan) + 2 * resumes
    BY <2>1, <2>2 DEF Bounded
  <2>8. saved # NONE => /\ Hits(csv', ValidRows(Configs)) + Len(saved.sets) <= Len(Plan) + 2 * resumes + 1
                        /\ Len(saved.sets) <= Len(sets') + 1
    BY <1>2, <2>1, <2>2, <2>5 DEF Bounded
  <2> QED
    BY <1>1, <2>2, <2>6, <2>7, <2>8 DEF Bounded
<1>8. Measured'
  BY <1>1, <1>2, <1>3 DEF SeriesInv, Measured, Active
<1> QED
  BY <1>4, <1>5, <1>6, <1>7, <1>8 DEF SeriesInv

\* A row that is recorded without being valid.
LEMMA RunInvalidStep ==
    ASSUME SeriesInv, RunInvalid
    PROVE  SeriesInv'
<1> DEFINE r == Row({}, columns')
<1>1. Configs' = Configs /\ Plan' = Plan /\ Resumed' = Resumed
  BY SameFile DEF Resumed, RunInvalid, disk
<1>2. /\ columns' = columns /\ entries' \in {entries, Append(entries, r)} /\ pc = "run"
      /\ UNCHANGED <<file, pc, sets, curr, prev, csv, saved, crashes, resumes, cut>>
  BY DEF RunInvalid, AddEntry, UpdateCols, disk, ghosts
<1>3. /\ r \in RowsOf(Configs) /\ r.vals = {} /\ ~Valid({})
      /\ entries \in Seq(RowsOf(Configs))
  BY <1>2 DEF SeriesInv, Types, RowsOf, Row, Valid
<1> HIDE DEF r
<1>4. /\ entries' \in Seq(RowsOf(Configs))
      /\ Hits(entries', ValidRows(Configs)) = Hits(entries, ValidRows(Configs))
      /\ \A c : Hits(entries', GoodRows(Configs, c)) = Hits(entries, GoodRows(Configs, c))
      /\ FullConfigs(entries') = FullConfigs(entries)
      /\ \A i \in DOMAIN entries' : (i \in DOMAIN entries /\ entries'[i] = entries[i]) \/ entries'[i] = r
  <2>1. CASE entries' = entries
    BY <1>3, <2>1
  <2>2. CASE entries' = Append(entries, r)
    <3>1. r \notin ValidRows(Configs) /\ \A c : r \notin GoodRows(Configs, c)
      BY <1>3 DEF ValidRows, GoodRows
    <3>2. \A T : Hits(entries, T) \in Nat
      BY <1>3, HitsType
    <3>3. \A T : r \notin T => Hits(Append(entries, r), T) = Hits(entries, T)
      <4> SUFFICES ASSUME NEW T, r \notin T
                   PROVE  Hits(Append(entries, r), T) = Hits(entries, T)
        OBVIOUS
      <4>1. Hits(Append(entries, r), T) = Hits(entries, T) + (IF r \in T THEN 1 ELSE 0)
        BY <1>3, HitsAppend
      <4> QED
        BY <3>2, <4>1
    <3>4. FullConfigs(Append(entries, r)) = FullConfigs(entries)
      <4>1. FullConfigs(Append(entries, r)) =
               FullConfigs(entries) \cup (IF "app" \in r.vals THEN {r.cfg} ELSE {})
        BY <1>3, FullAppend
      <4>2. "app" \notin r.vals
        BY <1>3
      <4> QED
        BY <4>1, <4>2
    <3> QED
      BY <1>3, <2>2, <3>1, <3>3, <3>4
  <2> QED
    BY <1>2, <2>1, <2>2
<1>5. Types'
  BY <1>1, <1>2, <1>4 DEF SeriesInv, Types
<1>6. RowsComplete'
  BY <1>2, <1>3, <1>4 DEF SeriesInv, RowsComplete, Uncut
<1>7. Active' = Active /\ \A c : AtWork(c)' = AtWork(c)
  BY <1>2 DEF Active, AtWork
<1>8. Lossless'
  BY <1>1, <1>2, <1>4, <1>7 DEF SeriesInv, Lossless
<1>9. Bounded'
  <2>1. Bounded
    BY DEF SeriesInv
  <2> QED
    BY <1>1, <1>2, <1>4, <1>7, <2>1 DEF Bounded
<1>10. Measured'
  BY <1>1, <1>2, <1>4, <1>7 DEF SeriesInv, Measured
<1> QED
  BY <1>5, <1>6, <1>8, <1>9, <1>10 DEF SeriesInv

\* A valid row, complete or not.
LEMMA RunValidStep ==
    ASSUME SeriesInv, RunValid
    PROVE  SeriesInv'
<1>1. PICK vals \in {{Engine(curr)}, {Engine(curr), "app"}} :
         /\ Valid(vals) /\ AddEntry(vals, TRUE)
         /\ cut' = IF "app" \in vals THEN cut ELSE cut \cup {curr}
  BY DEF RunValid
<1> DEFINE r == Row(vals, columns')
           full == "app" \in vals
<1>2. Configs' = Configs /\ Plan' = Plan /\ Resumed' = Resumed
  BY SameFile DEF Resumed, RunValid, disk
<1>3. /\ columns' = columns \cup vals /\ entries' = Append(entries, r)
      /\ pc = "run" /\ pc' = "export"
      /\ UNCHANGED <<file, sets, curr, prev, csv, saved, crashes, resumes>>
  BY <1>1 DEF RunValid, AddEntry, UpdateCols, disk
<1>4. vals \subseteq ResultColumns /\ columns' \subseteq ResultColumns
  BY <1>1, <1>3 DEF SeriesInv, Types, Engine, ResultColumns
<1>5. /\ r \in RowsOf(Configs) /\ r.vals = vals /\ r.cfg = curr /\ curr \in Configs
      /\ entries \in Seq(RowsOf(Configs))
  BY <1>3, <1>4 DEF SeriesInv, Types, RowsOf, Row
<1>6. r \in ValidRows(Configs) /\ r \in GoodRows(Configs, curr)
      /\ \A c \in Configs : r \in GoodRows(Configs, c) <=> c = curr
  BY <1>1, <1>5 DEF ValidRows, GoodRows
<1>7. cut' = IF full THEN cut ELSE cut \cup {curr}
  BY <1>1
<1> HIDE DEF r, full
<1>8. /\ entries' \in Seq(RowsOf(Configs))
      /\ Hits(entries, ValidRows(Configs)) \in Nat
      /\ Hits(entries', ValidRows(Configs)) = Hits(entries, ValidRows(Configs)) + 1
      /\ FullConfigs(entries') = FullConfigs(entries) \cup (IF full THEN {curr} ELSE {})
      /\ \A i \in DOMAIN entries' : (i \in DOMAIN entries /\ entries'[i] = entries[i]) \/ entries'[i] = r
  <2>1. Hits(entries', ValidRows(Configs)) = Hits(entries, ValidRows(Configs)) + 1
    BY <1>3, <1>5, <1>6, HitsAppend
  <2>2. FullConfigs(entries') = FullConfigs(entries) \cup (IF "app" \in r.vals THEN {r.cfg} ELSE {})
    BY <1>3, <1>5, FullAppend
  <2>3. Hits(entries, ValidRows(Configs)) \in Nat
    BY <1>5, HitsType
  <2>4. entries' \in Seq(RowsOf(Configs))
    BY <1>3, <1>5
  <2>5. \A i \in DOMAIN entries' : (i \in DOMAIN entries /\ entries'[i] = entries[i]) \/ entries'[i] = r
    BY <1>3, <1>5
  <2> QED
    BY <1>5, <2>1, <2>2, <2>3, <2>4, <2>5 DEF full
<1>9. Types'
  BY <1>2, <1>3, <1>4, <1>5, <1>7, <1>8 DEF SeriesInv, Types
<1>10. RowsComplete'
  <2>1. Uncut(entries)' 
    <3>1. ASSUME NEW i \in DOMAIN entries', Valid(entries'[i].vals), entries'[i].cfg \notin cut'
          PROVE  "app" \in entries'[i].vals
      <4>1. CASE i \in DOMAIN entries /\ entries'[i] = entries[i]
        BY <1>7, <3>1, <4>1 DEF SeriesInv, RowsComplete, Uncut
      <4>2. CASE entries'[i] = r
        BY <1>5, <1>7, <3>1, <4>2 DEF full
      <4> QED
        BY <1>8, <4>1, <4>2
    <3> QED
      BY <3>1 DEF Uncut
  <2>2. csv' # NONE => Uncut(csv)'
    BY <1>3, <1>7 DEF SeriesInv, RowsComplete, Uncut
  <2> QED
    BY <1>3, <2>1, <2>2 DEF RowsComplete
<1>11. Active /\ Active' /\ cut \subseteq cut'
  BY <1>3, <1>7 DEF Active
<1>12. Lossless'
  <2>1. ASSUME NEW c \in Configs
        PROVE  /\ Hits(entries, GoodRows(Configs, c)) \in Nat /\ Hits(sets, {c}) \in Nat
               /\ Hits(entries', GoodRows(Configs, c))
                     = Hits(entries, GoodRows(Configs, c)) + AtWork(c)
               /\ AtWork(c) \in {0, 1} /\ AtWork(c)' = 0
    <3>1. AtWork(c) = (IF r \in GoodRows(Configs, c) THEN 1 ELSE 0) /\ AtWork(c)' = 0
      BY <1>3, <1>6 DEF AtWork
    <3>2. Hits(Append(entries, r), GoodRows(Configs, c))
             = Hits(entries, GoodRows(Configs, c)) + (IF r \in GoodRows(Configs, c) THEN 1 ELSE 0)
      BY <1>5, HitsAppend
    <3>3. Hits(entries, GoodRows(Configs, c)) \in Nat /\ Hits(sets, {c}) \in Nat
      BY <1>5, HitsType DEF SeriesInv, Types
    <3> QED
      BY <1>3, <3>1, <3>2, <3>3
  <2>2. ASSUME NEW c \in Configs \ cut
        PROVE  /\ Hits(entries', GoodRows(Configs, c)) + Hits(sets', {c}) + AtWork(c)' >= file.reps
               /\ saved # NONE =>
                     /\ Hits(csv', GoodRows(Configs, c)) + Hits(Resumed', {c}) >= file.reps
                     /\ Hits(entries', GoodRows(Configs, c)) >= Hits(csv', GoodRows(Configs, c))
    <3>1. Hits(entries, GoodRows(Configs, c)) + Hits(sets, {c}) + AtWork(c) >= file.reps
      BY <1>11 DEF SeriesInv, Lossless
    <3>2. Hits(entries', GoodRows(Configs, c)) + Hits(sets', {c}) + AtWork(c)' >= file.reps
      BY <1>3, <2>1, <3>1
    <3>3. saved # NONE => /\ Hits(csv, GoodRows(Configs, c)) + Hits(Resumed, {c}) >= file.reps
                          /\ Hits(entries, GoodRows(Configs, c)) >= Hits(csv, GoodRows(Configs, c))
                          /\ Hits(csv, GoodRows(Configs, c)) \in Nat
      BY <1>11, HitsType DEF SeriesInv, Lossless, Types
    <3>4. csv' = csv /\ Resumed' = Resumed
      BY <1>2, <1>3
    <3>5. saved # NONE => Hits(entries', GoodRows(Configs, c)) >= Hits(csv, GoodRows(Configs, c))
      BY <2>1, <3>3
    <3> QED
      BY <3>2, <3>3, <3>4, <3>5
  <2> QED
    BY <1>2, <1>3, <1>11, <2>2 DEF Lossless
<1>13. Bounded'
  <2>1. Bounded
    BY DEF SeriesInv
  <2>2. Len(sets) \in Nat /\ Len(Plan) \in Nat /\ resumes \in Nat
    BY PlanIs DEF SeriesInv, Types
  <2>3. Hits(entries', ValidRows(Configs)) + Len(sets') + 0 <= Len(Plan) + 2 * resumes
    BY <1>3, <1>8, <1>11, <2>1, <2>2 DEF Bounded
  <2> QED
    BY <1>2, <1>3, <1>11, <2>1, <2>3 DEF Bounded
<1>14. Measured'
  <2>1. curr' \in FullConfigs(entries') \cup cut'
    BY <1>3, <1>7, <1>8
  <2>2. saved = NONE =>
          /\ csv # NONE => FullConfigs(csv) \subseteq {Plan[1]}
          /\ curr = Plan[1]
          /\ FullConfigs(entries') \subseteq {curr}
    BY <1>3, <1>8 DEF SeriesInv, Measured
  <2>3. saved # NONE =>
          /\ FullConfigs(csv) \subseteq FullConfigs(entries')
          /\ FullConfigs(entries') \subseteq FullConfigs(csv) \cup {curr}
    BY <1>3, <1>8, <1>11 DEF SeriesInv, Measured
  <2> QED
    BY <1>2, <1>3, <2>1, <2>2, <2>3 DEF Measured
<1> QED
  BY <1>9, <1>10, <1>12, <1>13, <1>14 DEF SeriesInv

\* None is no file.
LEMMA SavedIsSome ==
    ASSUME file \in Files
    PROVE  /\ NONE \notin Seq(RowsOf(Configs))
           /\ NONE \notin StatesOf(Configs)
           /\ NONE \notin Configs
           /\ Configs \subseteq AllConfigs
<1>1. Configs \subseteq AllConfigs
  BY DEF AllConfigs, Configs
<1> HIDE DEF Configs, AllConfigs
<1>2. RowsOf(Configs) \subseteq RowsOf(AllConfigs)
  BY <1>1 DEF RowsOf
<1>3. Seq(RowsOf(Configs)) \subseteq Seq(RowsOf(AllConfigs))
  <2> HIDE DEF RowsOf
  <2> QED
    BY <1>2
<1>4. StatesOf(Configs) \subseteq StatesOf(AllConfigs)
  <2>1. Seq(Configs) \subseteq Seq(AllConfigs)
    BY <1>1
  <2> QED
    BY <1>1, <2>1 DEF StatesOf
<1> QED
  BY <1>1, <1>3, <1>4, NoneAssumption

LEMMA ExportCsvStep ==
    ASSUME SeriesInv, ExportCsv
    PROVE  SeriesInv'
<1> USE DEF ExportCsv, memory, ghosts
<1>1. Configs' = Configs /\ Plan' = Plan /\ Resumed' = Resumed
  BY SameFile DEF Resumed
<1>2. entries \in Seq(RowsOf(Configs)) /\ entries # NONE
  BY SavedIsSome DEF SeriesInv, Types
<1>3. Types'
  BY <1>1, <1>2 DEF SeriesInv, Types
<1>4. RowsComplete'
  BY DEF SeriesInv, RowsComplete, Uncut
<1>5. Active /\ Active' /\ \A c : AtWork(c)' = AtWork(c)
  BY DEF Active, AtWork
<1>6. Lossless'
  <2>1. ASSUME NEW c \in Configs \ cut, saved # NONE
        PROVE  /\ Hits(entries, GoodRows(Configs, c)) + Hits(Resumed, {c}) >= file.reps
               /\ Hits(entries, GoodRows(Configs, c)) >= Hits(entries, GoodRows(Configs, c))
    <3>1. /\ Hits(csv, GoodRows(Configs, c)) + Hits(Resumed, {c}) >= file.reps
          /\ Hits(entries, GoodRows(Configs, c)) >= Hits(csv, GoodRows(Configs, c))
      BY <1>5, <2>1 DEF SeriesInv, Lossless
    <3>2. Hits(csv, GoodRows(Configs, c)) \in Nat
      BY <2>1, HitsType DEF SeriesInv, Types
    <3>3. Hits(entries, GoodRows(Configs, c)) \in Nat
      BY <1>2, HitsType
    <3>4. Hits(Resumed, {c}) \in Nat
      <4>1. Resumed \in Seq(Configs)
        BY <2>1 DEF SeriesInv, Types, StatesOf, Resumed
      <4> QED
        BY <4>1, HitsType
    <3>5. file.reps \in Nat
      BY PlanIs DEF SeriesInv, Types
    <3> QED
      BY <3>1, <3>2, <3>3, <3>4, <3>5
  <2> QED
    BY <1>1, <1>5, <2>1 DEF SeriesInv, Lossless
<1>7. Bounded'
  <2>1. Bounded
    BY DEF SeriesInv
  <2>2. /\ Len(sets) \in Nat /\ Len(Plan) \in Nat /\ resumes \in Nat
        /\ Hits(entries, ValidRows(Configs)) \in Nat
    <3>1. Len(sets) \in Nat /\ resumes \in Nat /\ file \in Files
      BY DEF SeriesInv, Types
    <3>2. Len(Plan) \in Nat
      BY <3>1, PlanIs
    <3>3. Hits(entries, ValidRows(Configs)) \in Nat
      BY <1>2, HitsType
    <3> QED
      BY <3>1, <3>2, <3>3
  <2>3. /\ pc = "export" /\ pc' = "save" /\ csv' = entries
        /\ entries' = entries /\ sets' = sets /\ saved' = saved /\ resumes' = resumes
    OBVIOUS
  <2>4. Hits(entries, ValidRows(Configs)) + Len(sets) + 0 <= Len(Plan) + 2 * resumes
    BY <1>5, <2>1, <2>2, <2>3 DEF Bounded
  <2>5. saved # NONE => Len(saved.sets) \in Nat /\ Len(saved.sets) <= Len(sets) + 1
    BY <1>5, <2>1, <2>3 DEF SeriesInv, Types, StatesOf, Bounded
  <2>6. Hits(csv', ValidRows(Configs)) <= Len(Plan) + 2 * resumes
    BY <2>2, <2>3, <2>4
  <2>7. saved # NONE => Hits(csv', ValidRows(Configs)) + Len(saved.sets) <= Len(Plan) + 2 * resumes + 1
    BY <2>2, <2>3, <2>4, <2>5
  <2> QED
    BY <1>1, <1>5, <2>2, <2>3, <2>4, <2>5, <2>6, <2>7 DEF Bounded
<1>8. Measured'
  BY <1>1, <1>5 DEF SeriesInv, Measured
<1> QED
  BY <1>3, <1>4, <1>6, <1>7, <1>8 DEF SeriesInv

LEMMA SaveStateStep ==
    ASSUME SeriesInv, SaveState
    PROVE  SeriesInv'
<1> USE DEF SaveState, memory, ghosts
<1>1. Configs' = Configs /\ Plan' = Plan
  BY SameFile
<1>2. /\ curr \in Configs /\ sets \in Seq(Configs) /\ Len(sets) \in Nat
      /\ saved' \in StatesOf(Configs) /\ saved' # NONE
      /\ saved'.sets = sets /\ saved'.curr = curr
      /\ Resumed' = <<curr>> \o sets
  BY SavedIsSome DEF SeriesInv, Types, StatesOf, Resumed
<1>3. csv \in Seq(RowsOf(Configs)) /\ csv # NONE /\ csv = entries
  BY SavedIsSome DEF SeriesInv, Types, RowsComplete
<1>4. Types'
  BY <1>1, <1>2, <1>3 DEF SeriesInv, Types
<1>5. RowsComplete'
  BY DEF SeriesInv, RowsComplete, Uncut
<1>6. Active /\ Active' /\ \A c : AtWork(c)' = 0 /\ AtWork(c) = 0
  BY DEF Active, AtWork
<1>7. Lossless'
  <2>1. ASSUME NEW c \in Configs \ cut
        PROVE  /\ Hits(entries, GoodRows(Configs, c)) + Hits(sets, {c}) + 0 >= file.reps
               /\ Hits(entries, GoodRows(Configs, c)) + Hits(Resumed', {c}) >= file.reps
               /\ Hits(entries, GoodRows(Configs, c)) >= Hits(entries, GoodRows(Configs, c))
    <3>1. Hits(entries, GoodRows(Configs, c)) + Hits(sets, {c}) + AtWork(c) >= file.reps
      BY <1>6 DEF SeriesInv, Lossless
    <3>2. Hits(<<curr>> \o sets, {c}) = Hits(sets, {c}) + (IF curr \in {c} THEN 1 ELSE 0)
      BY <1>2, HitsFront
    <3>3. Hits(sets, {c}) \in Nat /\ Hits(entries, GoodRows(Configs, c)) \in Nat
      BY <1>2, <1>3, HitsType
    <3>4. file.reps \in Nat
      BY PlanIs DEF SeriesInv, Types
    <3> QED
      BY <1>2, <1>6, <3>1, <3>2, <3>3, <3>4
  <2> QED
    BY <1>1, <1>3, <1>6, <2>1 DEF Lossless
<1>8. Bounded'
  <2>1. Bounded
    BY DEF SeriesInv
  <2>2. Len(Plan) \in Nat /\ resumes \in Nat /\ Hits(entries, ValidRows(Configs)) \in Nat
    BY <1>3, PlanIs, HitsType DEF SeriesInv, Types
  <2>3. /\ pc = "save" /\ pc' = "next" /\ csv' = entries
        /\ entries' = entries /\ sets' = sets /\ resumes' = resumes
    BY <1>3
  <2>4. Hits(entries, ValidRows(Configs)) + Len(sets) + 0 <= Len(Plan) + 2 * resumes
    BY <1>6, <2>1, <2>2, <2>3 DEF Bounded
  <2>5. Hits(entries, ValidRows(Configs)) <= Len(Plan) + 2 * resumes
    BY <1>2, <2>2, <2>4
  <2>6. Hits(entries, ValidRows(Configs)) + Len(sets) <= Len(Plan) + 2 * resumes + 1
    BY <1>2, <2>2, <2>4
  <2> QED
    BY <1>1, <1>2, <1>6, <2>2, <2>3, <2>4, <2>5, <2>6 DEF Bounded
<1>9. Measured'
  BY <1>1, <1>2, <1>3, <1>6 DEF SeriesInv, Measured
<1> QED
  BY <1>4, <1>5, <1>7, <1>8, <1>9 DEF SeriesInv

LEMMA SeriesInit == Init => SeriesInv
<1> SUFFICES ASSUME Init
             PROVE  SeriesInv
  OBVIOUS
<1> USE DEF Init
<1>1. Types
  BY DEF Types
<1>2. RowsComplete /\ Lossless /\ Bounded
  BY DEF RowsComplete, Uncut, Lossless, Bounded, Active
<1>3. Measured
  BY DEF Measured, Active
<1> QED
  BY <1>1, <1>2, <1>3 DEF SeriesInv

LEMMA SeriesStep == SeriesInv /\ [Next]_vars => SeriesInv'
<1> SUFFICES ASSUME SeriesInv, [Next]_vars
             PROVE  SeriesInv'
  OBVIOUS
<1>1. CASE LoadFile
  BY <1>1, QuietStep DEF LoadFile, ghosts
<1>2. CASE Start
  BY <1>2, FreshStart, ResumedStart
<1>3. CASE Setup
  BY <1>3, QuietStep DEF Setup
<1>4. CASE Precompile
  BY <1>4, QuietStep DEF Precompile
<1>5. CASE NextParams
  BY <1>5, NextParamsStep
<1>6. CASE RunInvalid
  BY <1>6, RunInvalidStep
<1>7. CASE RunValid
  BY <1>7, RunValidStep
<1>8. CASE ExportCsv
  BY <1>8, ExportCsvStep
<1>9. CASE SaveState
  BY <1>9, SaveStateStep
<1>10. CASE Finish
  BY <1>10, QuietStep DEF Finish, ghosts
<1>11. CASE RunFails \/ Ended \/ UNCHANGED vars
  BY <1>11, QuietStep DEF RunFails, Ended, vars, ghosts
<1>12. CASE Shell
  BY <1>12, QuietStep DEF Shell, ghosts
<1>13. CASE Crash \/ UploadFails \/ BuildFails
  BY <1>13, StopStep DEF Crash, UploadFails, BuildFails
<1> QED
  BY <1>1, <1>2, <1>3, <1>4, <1>5, <1>6, <1>7, <1>8, <1>9, <1>10, <1>11, <1>12, <1>13 DEF Next, Main

THEOREM SeriesInvariant == Spec => []SeriesInv
<1>1. Init => SeriesInv
  BY SeriesInit
<1>2. SeriesInv /\ [Next]_vars => SeriesInv'
  BY SeriesStep
<1> QED
  BY <1>1, <1>2, PTL DEF Spec

-----------------------------------------------------------------------------
(* What follows.                                                           *)

\* Wherever the program stops, the rows the next start finds and the runs it still
\* has to do are, for every configuration whose output was never cut off, as many as
\* the file asks for (ParameterHandler.save_state, load_state, DataManager.load_from_csv).
THEOREM NothingIsLost == Spec => []NothingLost
<1>1. SeriesInv => NothingLost
  <2> SUFFICES ASSUME SeriesInv, NEW c \in Configs \ cut
               PROVE  Rows(Found, c) + Count(Pending, LAMBDA x : x = c) >= file.reps
    BY DEF NothingLost
  <2>1. \A s \in Seq(RowsOf(Configs)) : Rows(s, c) = Hits(s, GoodRows(Configs, c))
    <3> SUFFICES ASSUME NEW s \in Seq(RowsOf(Configs))
                 PROVE  Rows(s, c) = Hits(s, GoodRows(Configs, c))
      OBVIOUS
    <3>1. {i \in DOMAIN s : s[i].cfg = c /\ Valid(s[i].vals)} = {i \in DOMAIN s : s[i] \in GoodRows(Configs, c)}
      BY DEF GoodRows
    <3> QED
      BY <3>1 DEF Rows, Count, Hits
  <2>2. Count(Pending, LAMBDA x : x = c) = Hits(Pending, {c})
    <3>1. {i \in DOMAIN Pending : Pending[i] = c} = {i \in DOMAIN Pending : Pending[i] \in {c}}
      OBVIOUS
    <3> QED
      BY <3>1 DEF Count, Hits
  <2>3. file \in Files
    BY DEF SeriesInv, Types
  <2>4. CASE saved = NONE
    <3>1. Found = <<>> /\ Pending = Plan
      BY <2>4 DEF Found, Pending
    <3>2. Rows(Found, c) = 0
      <4>1. <<>> \in Seq(RowsOf(Configs))
        OBVIOUS
      <4>2. Rows(<<>>, c) = Hits(<<>>, GoodRows(Configs, c))
        BY <2>1, <4>1
      <4> QED
        BY <3>1, <4>2, HitsEmpty
    <3>3. Hits(Plan, {c}) \in Nat /\ Hits(Plan, {c}) >= file.reps
      BY <2>3, PlanIs
    <3> QED
      BY <2>2, <3>1, <3>2, <3>3
  <2>5. CASE saved # NONE
    <3>1. Found = Loaded(csv) /\ Pending = Resumed
      BY <2>5 DEF Found, Pending
    <3>2. csv \in Seq(RowsOf(Configs)) /\ csv # NONE
      BY <2>5 DEF SeriesInv, Types
    <3>3. \A i \in DOMAIN csv : csv[i] \in GoodRows(Configs, c) => "app" \in csv[i].vals
      BY <3>2 DEF SeriesInv, RowsComplete, Uncut, GoodRows
    <3>4. Hits(Loaded(csv), GoodRows(Configs, c)) = Hits(csv, GoodRows(Configs, c))
      BY <3>2, <3>3, LoadedRows
    <3>5. Loaded(csv) \in Seq(RowsOf(Configs))
      BY <3>2, LoadedIs
    <3>6. Hits(csv, GoodRows(Configs, c)) + Hits(Resumed, {c}) >= file.reps
      BY <2>5 DEF SeriesInv, Lossless
    <3>7. Rows(Loaded(csv), c) = Hits(Loaded(csv), GoodRows(Configs, c))
      BY <2>1, <3>5
    <3> QED
      BY <2>2, <3>1, <3>4, <3>6, <3>7
  <2> QED
    BY <2>4, <2>5
<1> QED
  BY <1>1, SeriesInvariant, PTL

\* A start from the saved state repeats at most two runs: the file of the results
\* never has more valid rows than the plan has runs, and two per such start.
THEOREM FewRepeats == Spec => []RepeatsBounded
<1>1. SeriesInv => RepeatsBounded
  <2> SUFFICES ASSUME SeriesInv, csv # NONE
               PROVE  Count(csv, LAMBDA r : Valid(r.vals)) <= Len(Plan) + 2 * resumes
    BY DEF RepeatsBounded
  <2>1. csv \in Seq(RowsOf(Configs))
    BY DEF SeriesInv, Types
  <2>2. {i \in DOMAIN csv : Valid(csv[i].vals)} = {i \in DOMAIN csv : csv[i] \in ValidRows(Configs)}
    BY <2>1 DEF ValidRows
  <2>3. Hits(csv, ValidRows(Configs)) <= Len(Plan) + 2 * resumes
    BY DEF SeriesInv, Bounded
  <2> QED
    BY <2>2, <2>3 DEF Count, Hits
<1> QED
  BY <1>1, SeriesInvariant, PTL

\* The configurations with a complete row on disk, or known to have been cut off, only
\* grow in number, one with a run, through stops, restarts and rewritten files: what
\* module Campaign promises.
THEOREM KeepsThePromise == Spec => ImplementsCampaign
<1> DEFINE done == IF csv = NONE THEN cut ELSE Complete \cup cut
<1>1. Init => Promise!Init
  BY DEF Init, Promise!Init
<1>2. SeriesInv /\ [Next]_vars => [Promise!Next]_done
  <2> SUFFICES ASSUME SeriesInv, [Next]_vars
               PROVE  done' = done \/ \E c \in AllConfigs : c \notin done /\ done' = done \cup {c}
    BY DEF Promise!Next, Promise!Measure
  <2>1. Complete = FullConfigs(csv) /\ Complete' = FullConfigs(csv')
    BY DEF Complete, FullConfigs
  <2>2. CASE UNCHANGED <<csv, cut>>
    BY <2>1, <2>2
  <2>3. CASE RunValid
    <3>1. csv' = csv /\ cut' \in {cut, cut \cup {curr}} /\ curr \in AllConfigs
      <4>1. file \in Files /\ curr \in Configs
        BY <2>3 DEF RunValid, SeriesInv, Types
      <4>2. curr \in AllConfigs
        BY <4>1, SavedIsSome
      <4> QED
        BY <2>3, <4>2 DEF RunValid, disk
    <3> QED
      BY <2>1, <3>1
  <2>4. CASE ExportCsv
    <3>1. /\ csv' = entries /\ cut' = cut /\ pc = "export" /\ Active
          /\ file \in Files /\ curr \in Configs
      BY <2>4 DEF ExportCsv, ghosts, SeriesInv, Types, Active
    <3>2. curr \in AllConfigs /\ entries # NONE
      BY <3>1, SavedIsSome DEF SeriesInv, Types
    <3>3. done' = FullConfigs(entries) \cup cut
      BY <2>1, <3>1, <3>2
    <3>4. curr \in FullConfigs(entries) \cup cut
      BY <3>1 DEF SeriesInv, Measured
    <3>5. CASE saved = NONE
      <4>1. FullConfigs(entries) \subseteq {curr} /\ (csv # NONE => FullConfigs(csv) \subseteq {curr})
        BY <3>1, <3>5 DEF SeriesInv, Measured
      <4>2. done = (IF csv = NONE THEN {} ELSE FullConfigs(csv)) \cup cut
        BY <2>1
      <4>3. done \subseteq done' /\ done' \subseteq done \cup {curr}
        BY <3>3, <3>4, <4>1, <4>2
      <4> HIDE DEF done
      <4> QED
        BY <3>2, <4>3
    <3>6. CASE saved # NONE
      <4>1. /\ csv # NONE /\ FullConfigs(csv) \subseteq FullConfigs(entries)
            /\ FullConfigs(entries) \subseteq FullConfigs(csv) \cup {curr}
        BY <3>1, <3>6 DEF SeriesInv, Types, Measured
      <4> QED
        BY <2>1, <3>2, <3>3, <3>4, <4>1
    <3> QED
      BY <3>5, <3>6
  <2>5. RunValid \/ ExportCsv \/ UNCHANGED <<csv, cut>>
    BY DEF Next, Main, LoadFile, Start, Setup, Precompile, NextParams, RunInvalid, SaveState, Finish,
           RunFails, Shell, Crash, UploadFails, BuildFails, Stop, Ended, disk, ghosts, vars
  <2> QED
    BY <2>2, <2>3, <2>4, <2>5
<1> QED
  BY <1>1, <1>2, SeriesInvariant, PTL DEF ImplementsCampaign, Promise!Spec, Spec

-----------------------------------------------------------------------------
(* The preparation of the rules.                                           *)

GoodFile(F) == F = NOFILE \/ \A p \in F : p[1] \in Keywords

GoodDir(d) ==
    /\ d = [tmp |-> d.tmp, list |-> d.list, regexes |-> d.regexes, rxpc |-> d.rxpc,
            precompiled |-> d.precompiled, current |-> d.current, hyperscan |-> d.hyperscan]
    /\ d.tmp = [k \in Keywords |-> d.tmp[k]] /\ d.list = [k \in Keywords |-> d.list[k]]
    /\ \A k \in Keywords : GoodFile(d.tmp[k]) /\ GoodFile(d.list[k])
    /\ \A id \in DOMAIN d.precompiled : GoodFile(d.precompiled[id])
    /\ GoodFile(d.regexes) /\ GoodFile(d.rxpc) /\ GoodFile(d.current) /\ GoodFile(d.hyperscan)

Commands == { <<"clean">>, <<"number">>, <<"find">>, <<"rxpc">>, <<"use">>, <<"convert">> }
            \cup { <<a, k>> : a \in {"uniq", "grep", "append"}, k \in Keywords }

\* A script and how far it has got.
GoodJob(j) ==
    /\ j = [cfg |-> j.cfg, todo |-> j.todo]
    /\ \E n \in 0 .. Len(Script(j.cfg)) :
          j.todo = SubSeq(Script(j.cfg), n + 1, Len(Script(j.cfg)))

GoodJobs(s) == IsList(s) /\ \A j \in DOMAIN s : GoodJob(s[j])

PrepInv == GoodDir(dir) /\ GoodJobs(jobs)

LEMMA ScriptIs == ASSUME NEW c PROVE Script(c) \in Seq(Commands)
<1>1. ASSUME NEW k \in Keywords
      PROVE  Extraction(k) \in Seq(Commands)
  BY DEF Extraction, Commands
<1>2. << <<"clean">> >> \in Seq(Commands) /\ << <<"convert">> >> \in Seq(Commands)
      /\ << <<"number">>, <<"find">>, <<"rxpc">>, <<"use">> >> \in Seq(Commands)
      /\ <<>> \in Seq(Commands)
  BY DEF Commands
<1>3. "content" \in Keywords /\ "pcre" \in Keywords
  BY DEF Keywords
<1> HIDE DEF Commands
<1> QED
  BY <1>1, <1>2, <1>3 DEF Script

LEMMA NewJobIsGood == ASSUME NEW c PROVE GoodJob(NewJob(c))
<1>1. Script(c) \in Seq(Commands)
  BY ScriptIs
<1>2. SubSeq(Script(c), 1, Len(Script(c))) = Script(c)
  BY <1>1
<1>3. Len(Script(c)) \in Nat
  BY <1>1
<1>4. 0 \in 0 .. Len(Script(c)) /\ 0 + 1 = 1
  BY <1>3
<1> QED
  BY <1>2, <1>4 DEF GoodJob, NewJob

LEMMA PrecompiledIs ==
    ASSUME file \in Files
    PROVE  IsList(Precompiled)
<1> DEFINE S    == {file.params[k] : k \in DOMAIN file.params}
           E    == Engines(<<1>>, <<0>>)
           T    == S \cup {<<"rgx_enabled", <<1>> >>, <<"hs_enabled", <<0>> >>}
           G(x) == Given(file, x)
           ps   == G("n_rules") \o G("rules_use_content_kw") \o G("rules_use_pcre_kw") \o E
<1>1. file.params \in Seq(S) /\ \A x \in S : Len(x[2]) \in Nat
  BY FilesAssumption
<1> HIDE DEF S
<1>2. ASSUME NEW x
      PROVE  G(x) \in Seq(S)
  <2> DEFINE K == {i \in DOMAIN file.params : file.params[i][1] = x}
  <2>1. K \subseteq DOMAIN file.params
    OBVIOUS
  <2> HIDE DEF K
  <2>2. Select(file.params, K) \in Seq(S)
    BY <1>1, <2>1, SelectType
  <2> QED
    BY <2>2 DEF Given, K
<1>3. E \in Seq(T) /\ Seq(S) \subseteq Seq(T)
  BY DEF Engines
<1>4. \A x \in T : Len(x[2]) \in Nat
  BY <1>1
<1> HIDE DEF G, E, T
<1>5. ps \in Seq(T)
  BY <1>2, <1>3
<1> HIDE DEF ps
<1>6. Len(ps) \in Nat /\ \A k \in 1 .. Len(ps) : Len(ps[k][2]) \in Nat
  BY <1>4, <1>5
<1>7. IsList(Product(ps))
  BY <1>6, ProductIsList
<1> QED
  BY <1>7 DEF Precompiled, Said, PrecompiledOf, ps, G, E

\* What a command leaves behind.
LEMMA EffectIsGood ==
    ASSUME NEW d, GoodDir(d), NEW c, NEW cmd \in Commands
    PROVE  GoodDir(Effect(d, c, cmd))
<1> DEFINE id == CurrId(c)
<1> HIDE DEF id
<1>1. \A F : GoodFile(F) => \A p \in Read(F) : p[1] \in Keywords
  BY DEF GoodFile, Read
<1>2. GoodFile(At(d.precompiled, id))
  BY DEF GoodDir, At, GoodFile
<1>3. GoodFile(NOFILE)
  BY DEF GoodFile
<1>4. CASE cmd = <<"clean">>
  <2>1. Effect(d, c, cmd) = [d EXCEPT !.regexes = NOFILE]
    BY <1>4 DEF Effect
  <2> QED
    BY <1>3, <2>1 DEF GoodDir
<1>5. ASSUME NEW k \in Keywords, cmd = <<"uniq", k>>
      PROVE  GoodDir(Effect(d, c, cmd))
  <2> DEFINE F == {<<k, c.n_rules>>}
  <2>1. Effect(d, c, cmd) = [d EXCEPT !.tmp[k] = F]
    BY <1>5 DEF Effect
  <2>2. GoodFile(F)
    BY DEF GoodFile
  <2> HIDE DEF F
  <2> QED
    BY <2>1, <2>2 DEF GoodDir
<1>6. ASSUME NEW k \in Keywords, cmd = <<"grep", k>>
      PROVE  GoodDir(Effect(d, c, cmd))
  <2> DEFINE F == Read(d.tmp[k])
  <2>1. Effect(d, c, cmd) = [d EXCEPT !.list[k] = F]
    BY <1>6 DEF Effect
  <2>2. GoodFile(F)
    BY <1>1 DEF GoodFile, GoodDir
  <2> HIDE DEF F
  <2> QED
    BY <2>1, <2>2 DEF GoodDir
<1>7. ASSUME NEW k \in Keywords, cmd = <<"append", k>>
      PROVE  GoodDir(Effect(d, c, cmd))
  <2> DEFINE F == Read(d.regexes) \cup Read(d.list[k])
  <2>1. Effect(d, c, cmd) = [d EXCEPT !.regexes = F]
    BY <1>7 DEF Effect
  <2>2. GoodFile(F)
    BY <1>1 DEF GoodFile, GoodDir
  <2> HIDE DEF F
  <2> QED
    BY <2>1, <2>2 DEF GoodDir
<1>8. CASE cmd = <<"number">>
  <2> DEFINE F == Read(d.regexes)
  <2>1. Effect(d, c, cmd) = [d EXCEPT !.rxpc = F]
    BY <1>8 DEF Effect
  <2>2. GoodFile(F)
    BY <1>1 DEF GoodFile, GoodDir
  <2> HIDE DEF F
  <2> QED
    BY <2>1, <2>2 DEF GoodDir
<1>9. CASE cmd \in {<<"find">>, <<"use">>}
  <2>1. Effect(d, c, cmd) \in {d, [d EXCEPT !.current = At(d.precompiled, id)]}
    BY <1>9 DEF Effect, id
  <2>2. GoodDir([d EXCEPT !.current = At(d.precompiled, id)])
    BY <1>2 DEF GoodDir
  <2> QED
    BY <2>1, <2>2
<1>10. CASE cmd = <<"rxpc">>
  <2>1. Effect(d, c, cmd) \in {d, [d EXCEPT !.precompiled = Put(d.precompiled, id, d.rxpc)]}
    BY <1>10 DEF Effect, id
  <2>2. \A i \in DOMAIN Put(d.precompiled, id, d.rxpc) : GoodFile(Put(d.precompiled, id, d.rxpc)[i])
    BY DEF GoodDir, Put
  <2>3. GoodDir([d EXCEPT !.precompiled = Put(d.precompiled, id, d.rxpc)])
    BY <2>2 DEF GoodDir
  <2> QED
    BY <2>1, <2>3
<1>11. CASE cmd = <<"convert">>
  <2> DEFINE F == Read(d.regexes)
  <2>1. Effect(d, c, cmd) = [d EXCEPT !.hyperscan = F]
    BY <1>11 DEF Effect
  <2>2. GoodFile(F)
    BY <1>1 DEF GoodFile, GoodDir
  <2> HIDE DEF F
  <2> QED
    BY <2>1, <2>2 DEF GoodDir
<1> QED
  BY <1>4, <1>5, <1>6, <1>7, <1>8, <1>9, <1>10, <1>11 DEF Commands

LEMMA JobStepIsGood ==
    ASSUME PrepInv, NEW j \in DOMAIN jobs, JobStep(j)
    PROVE  PrepInv'
<1> DEFINE c == jobs[j].cfg
           s == Script(c)
           t == jobs[j].todo
           u == Rest(dir, c, t)
<1>1. IsList(jobs) /\ GoodJob(jobs[j]) /\ jobs[j] = [cfg |-> c, todo |-> t]
  BY DEF PrepInv, GoodJobs, GoodJob
<1>2. PICK n \in 0 .. Len(s) : t = SubSeq(s, n + 1, Len(s))
  BY <1>1 DEF GoodJob
<1>3. s \in Seq(Commands) /\ Len(s) \in Nat
  BY ScriptIs
<1>4. t # <<>> /\ dir' = Effect(dir, c, Head(t)) /\ jobs' = [jobs EXCEPT ![j].todo = u]
  BY DEF JobStep
<1> HIDE DEF s, t, u, c
<1>5. n + 1 \in 1 .. Len(s) /\ Head(t) \in Commands /\ Tail(t) = SubSeq(s, n + 2, Len(s))
  <2>1. n + 1 <= Len(s)
    BY <1>2, <1>3, <1>4
  <2>2. t \in Seq(Commands) /\ Len(t) = Len(s) - n /\ \A i \in 1 .. Len(s) - n : t[i] = s[n + i]
    BY <1>2, <1>3, <2>1
  <2>3. Head(t) \in Commands
    BY <1>4, <2>2
  <2>4. Tail(t) = SubSeq(s, n + 2, Len(s))
    BY <1>2, <1>3, <2>1
  <2> QED
    BY <1>2, <1>3, <2>1, <2>3, <2>4
<1>6. GoodDir(dir')
  BY <1>4, <1>5, EffectIsGood DEF PrepInv
<1>7. \E m \in 0 .. Len(s) : u = SubSeq(s, m + 1, Len(s))
  <2>1. SubSeq(s, Len(s) + 1, Len(s)) = <<>>
    BY <1>3
  <2>2. u \in {<<>>, Tail(t)}
    BY DEF u, Rest
  <2>3. Len(s) \in 0 .. Len(s) /\ n + 1 \in 0 .. Len(s) /\ (n + 1) + 1 = n + 2
    BY <1>3, <1>5
  <2>4. CASE u = <<>>
    BY <2>1, <2>3, <2>4
  <2>5. CASE u = Tail(t)
    <3>1. u = SubSeq(s, (n + 1) + 1, Len(s))
      BY <1>5, <2>3, <2>5
    <3> QED
      BY <2>3, <3>1
  <2> QED
    BY <2>2, <2>4, <2>5
<1>8. jobs' = [i \in 1 .. Len(jobs) |-> IF i = j THEN [cfg |-> c, todo |-> u] ELSE jobs[i]]
  <2>1. jobs = [i \in 1 .. Len(jobs) |-> jobs[i]]
    BY <1>1 DEF IsList
  <2>2. [jobs[j] EXCEPT !.todo = u] = [cfg |-> c, todo |-> u]
    BY <1>1
  <2> QED
    BY <1>4, <2>1, <2>2
<1>9. GoodJob([cfg |-> c, todo |-> u])
  BY <1>7 DEF GoodJob, s
<1>10. GoodJobs(jobs')
  <2>1. Len(jobs') = Len(jobs) /\ Len(jobs) \in Nat
    BY <1>1, <1>8 DEF IsList
  <2>2. IsList(jobs')
    BY <1>8, <2>1 DEF IsList
  <2>3. \A i \in 1 .. Len(jobs) : GoodJob(jobs[i])
    BY <1>1 DEF PrepInv, GoodJobs, IsList
  <2> QED
    BY <1>8, <1>9, <2>2, <2>3 DEF GoodJobs
<1> QED
  BY <1>6, <1>10 DEF PrepInv

LEMMA AppendJobIsGood ==
    ASSUME GoodJobs(jobs), NEW c
    PROVE  GoodJobs(Append(Running, NewJob(c)))
<1> DEFINE S == {x : x \in {jobs[i] : i \in DOMAIN jobs} \cup {NewJob(c)}}
           K == {j \in DOMAIN jobs : jobs[j].todo # <<>>}
<1>1. jobs \in Seq(S)
  <2>1. jobs \in Seq({jobs[i] : i \in DOMAIN jobs})
    BY ListIsSeq DEF GoodJobs
  <2> QED
    BY <2>1
<1>2. \A x \in S : GoodJob(x)
  BY NewJobIsGood DEF GoodJobs
<1>3. NewJob(c) \in S /\ K \subseteq DOMAIN jobs
  OBVIOUS
<1> HIDE DEF S, K
<1>4. Running \in Seq(S)
  BY <1>1, <1>3, SelectType DEF Running, K
<1>5. Append(Running, NewJob(c)) \in Seq(S)
  BY <1>3, <1>4
<1> DEFINE s == Append(Running, NewJob(c))
<1> HIDE DEF s
<1>6. s \in Seq(S)
  BY <1>5 DEF s
<1>7. IsList(s) /\ \A j \in DOMAIN s : s[j] \in S
  BY <1>6, SeqIsList
<1> QED
  BY <1>2, <1>7 DEF GoodJobs, s

LEMMA EmptyIsGood == GoodDir(EmptyDir) /\ GoodJobs(<<>>)
<1>1. GoodDir(EmptyDir)
  BY DEF GoodDir, EmptyDir, GoodFile
<1>2. GoodJobs(<<>>)
  BY DEF GoodJobs, IsList
<1> QED
  BY <1>1, <1>2

THEOREM PrepInvariant == Spec => []PrepInv
<1>1. Init => PrepInv
  BY EmptyIsGood DEF Init, PrepInit, PrepInv
<1>2. SeriesInv /\ PrepInv /\ [Next]_vars => PrepInv'
  <2> SUFFICES ASSUME SeriesInv, PrepInv, [Next]_vars
               PROVE  PrepInv'
    OBVIOUS
  <2>1. CASE UNCHANGED prepVars
    BY <2>1 DEF prepVars, PrepInv
  <2>2. CASE Setup
    BY <2>2, EmptyIsGood DEF Setup, StopPanes, CleanDir, PrepInv
  <2>3. CASE Precompile
    <3>1. IsList(Precompiled)
      BY PrecompiledIs DEF SeriesInv, Types
    <3>2. /\ jobs' = [j \in 1 .. Len(Precompiled) |-> NewJob(Precompiled[j])]
          /\ Len(Precompiled) \in Nat /\ dir' = dir
      BY <2>3, <3>1, ListIsSeq DEF Precompile, IsList
    <3> HIDE DEF Precompiled
    <3>3. GoodJobs(jobs')
      BY <3>2, NewJobIsGood DEF GoodJobs, IsList
    <3> QED
      BY <3>2, <3>3 DEF PrepInv
  <2>4. CASE NextParams
    BY <2>4, AppendJobIsGood DEF NextParams, ProcessParameters, PrepInv
  <2>5. CASE Finish
    BY <2>5, EmptyIsGood DEF Finish, StopPanes, PrepInv
  <2>6. CASE Shell
    BY <2>6, JobStepIsGood DEF Shell
  <2>7. CASE Crash \/ UploadFails \/ BuildFails
    BY <2>7, EmptyIsGood DEF Crash, UploadFails, BuildFails, Stop, PrepInv
  <2>8. LoadFile \/ Start \/ RunInvalid \/ RunValid \/ ExportCsv \/ SaveState \/ RunFails \/ Ended
          \/ UNCHANGED vars => UNCHANGED prepVars
    BY DEF LoadFile, Start, RunInvalid, RunValid, ExportCsv, SaveState, RunFails, Ended, vars
  <2> QED
    BY <2>1, <2>2, <2>3, <2>4, <2>5, <2>6, <2>7, <2>8 DEF Next, Main
<1> QED
  BY <1>1, <1>2, SeriesInvariant, PTL DEF Spec

-----------------------------------------------------------------------------
(* The processed results.                                                  *)

\* The numbers from 1 to n in any order are sorted to themselves.
LEMMA SortedIs ==
    ASSUME NEW n \in Nat, NEW s \in [1 .. n -> 1 .. n],
           \A i, j \in 1 .. n : s[i] = s[j] => i = j,
           \A k \in 1 .. n : \E i \in 1 .. n : s[i] = k
    PROVE  Sorted(s) = [k \in 1 .. n |-> k]
<1> DEFINE below(i) == {j \in 1 .. n : s[j] < s[i] \/ (s[j] = s[i] /\ j <= i)}
<1>1. ASSUME NEW i \in 1 .. n
      PROVE  Cardinality(below(i)) = s[i]
  <2> DEFINE f == [j \in below(i) |-> s[j]]
             m == s[i]
  <2>1. m \in 1 .. n /\ \A j \in 1 .. n : s[j] \in 1 .. n /\ (j \in below(i) <=> s[j] <= m)
    <3> HIDE DEF m, f
    <3>1. m \in 1 .. n
      BY DEF m
    <3>2. ASSUME NEW j \in 1 .. n
          PROVE  s[j] \in 1 .. n /\ (j \in below(i) <=> s[j] <= m)
      <4>1. s[j] = m => j <= i
        BY DEF m
      <4>2. s[j] \in Nat /\ m \in Nat
        BY <3>1
      <4>3. j \in below(i) <=> s[j] < m \/ (s[j] = m /\ j <= i)
        BY DEF m
      <4>4. s[j] < m \/ (s[j] = m /\ j <= i) <=> s[j] <= m
        <5>1. CASE s[j] = m
          <6>1. s[j] <= m
            BY <4>2, <5>1
          <6> QED
            BY <4>1, <5>1, <6>1
        <5>2. CASE s[j] # m
          <6>1. \A a, b \in Nat : a # b => (a < b <=> a <= b)
            OBVIOUS
          <6>2. s[j] < m <=> s[j] <= m
            BY <4>2, <5>2, <6>1
          <6> QED
            BY <5>2, <6>2
        <5> QED
          BY <5>1, <5>2
      <4>5. s[j] \in 1 .. n
        OBVIOUS
      <4> HIDE DEF below
      <4> QED
        BY <4>3, <4>4, <4>5
    <3> QED
      BY <3>1, <3>2
  <2> HIDE DEF m
  <2>2. below(i) = {j \in 1 .. n : s[j] <= m}
    BY <2>1
  <2>3. f \in [below(i) -> 1 .. m]
    BY <2>1, <2>2
  <2>4. \A x, y \in below(i) : f[x] = f[y] => x = y
    OBVIOUS
  <2>5. \A z \in 1 .. m : \E x \in below(i) : f[x] = z
    <3> SUFFICES ASSUME NEW z \in 1 .. m
                 PROVE  \E x \in below(i) : f[x] = z
      OBVIOUS
    <3>1. z \in 1 .. n /\ z <= m
      BY <2>1
    <3>2. PICK x \in 1 .. n : s[x] = z
      BY <3>1
    <3>3. x \in below(i)
      BY <2>1, <3>1, <3>2
    <3>4. f[x] = z
      BY <3>2, <3>3
    <3> QED
      BY <3>3, <3>4
  <2>6. IsFiniteSet(below(i))
    BY FS_Interval, FS_Subset
  <2> HIDE DEF below, f
  <2>7. Cardinality(1 .. m) = Cardinality(below(i))
    BY <2>3, <2>4, <2>5, <2>6, SameSize
  <2>8. Cardinality(1 .. m) = m
    BY <2>1, FS_Interval
  <2> QED
    BY <2>7, <2>8 DEF m
<1> DEFINE at(k) == CHOOSE i \in 1 .. n : Cardinality(below(i)) = k
<1>2. Sorted(s) = [k \in 1 .. n |-> s[at(k)]]
  BY DEF Sorted
<1> HIDE DEF below
<1>3. ASSUME NEW k \in 1 .. n
      PROVE  s[at(k)] = k
  <2>1. PICK i \in 1 .. n : s[i] = k
    OBVIOUS
  <2>2. Cardinality(below(i)) = k
    BY <1>1, <2>1
  <2>3. at(k) \in 1 .. n /\ Cardinality(below(at(k))) = k
    BY <2>2
  <2> QED
    BY <1>1, <2>3
<1> QED
  BY <1>2, <1>3

\* Two tables that share out the rows, put together, have them in their order.
LEMMA ConcatIs ==
    ASSUME NEW S, NEW rows \in Seq(S),
           \A i \in DOMAIN rows : Enabled(rows[i].cfg, "rgx") <=> ~Enabled(rows[i].cfg, "hs")
    PROVE  Concat(rows) = [k \in 1 .. Len(rows) |-> k]
<1> DEFINE n     == Len(rows)
           id    == [i \in DOMAIN rows |-> i]
           At2(e) == {i \in DOMAIN rows : Enabled(rows[i].cfg, e)}
           A     == At2("rgx")
           B     == At2("hs")
           a     == Cardinality(A)
           b     == Cardinality(B)
           t     == Frame(rows, "rgx") \o Frame(rows, "hs")
<1>1. n \in Nat /\ DOMAIN rows = 1 .. n
  OBVIOUS
<1>2. id \in Seq(1 .. n) /\ DOMAIN id = 1 .. n
  BY <1>1
<1>3. A \subseteq 1 .. n /\ B \subseteq 1 .. n /\ A \cap B = {} /\ A \cup B = 1 .. n
  BY <1>1
<1>4. Frame(rows, "rgx") = Select(id, A) /\ Frame(rows, "hs") = Select(id, B)
  BY DEF Frame
<1> HIDE DEF n, id, A, B, a, b, t
<1>5. IsFiniteSet(A) /\ IsFiniteSet(B) /\ a \in Nat /\ b \in Nat /\ a + b = n
  <2>1. IsFiniteSet(1 .. n) /\ Cardinality(1 .. n) = n
    BY <1>1, FS_Interval
  <2>2. IsFiniteSet(A) /\ IsFiniteSet(B)
    BY <1>3, <2>1, FS_Subset
  <2>3. Cardinality(A \cup B) = Cardinality(A) + Cardinality(B) - Cardinality(A \cap B)
    BY <2>2, FS_Union
  <2>4. Cardinality(A \cap B) = 0
    BY <1>3, FS_EmptySet
  <2>5. Cardinality(A) \in Nat /\ Cardinality(B) \in Nat
    BY <2>2, FS_CardinalityType
  <2> QED
    <3>1. a = Cardinality(A) /\ b = Cardinality(B)
      BY DEF a, b
    <3>2. Cardinality(A \cup B) = n
      BY <1>3, <2>1
    <3> QED
      BY <1>1, <2>2, <2>3, <2>4, <2>5, <3>1, <3>2
<1>6. /\ \A m \in 1 .. a : Nth(A, m) \in A
      /\ \A m \in 1 .. b : Nth(B, m) \in B
      /\ \A i \in A : \E m \in 1 .. a : Nth(A, m) = i
      /\ \A i \in B : \E m \in 1 .. b : Nth(B, m) = i
      /\ \A l, m \in 1 .. a : Nth(A, l) = Nth(A, m) => l = m
      /\ \A l, m \in 1 .. b : Nth(B, l) = Nth(B, m) => l = m
  <2>1. A \subseteq Nat /\ B \subseteq Nat
    BY <1>1, <1>3
  <2> QED
    BY <1>5, <2>1, NthIs, NthOnce DEF a, b
<1>7. /\ Select(id, A) = [m \in 1 .. a |-> Nth(A, m)]
      /\ Select(id, B) = [m \in 1 .. b |-> Nth(B, m)]
  <2>1. \A i \in 1 .. n : id[i] = i
    BY <1>1 DEF id
  <2> QED
    BY <1>3, <1>6, <2>1 DEF Select, a, b
<1>8. t = [k \in 1 .. n |-> IF k <= a THEN Nth(A, k) ELSE Nth(B, k - a)]
  <2> DEFINE u == [m \in 1 .. a |-> Nth(A, m)]
             v == [m \in 1 .. b |-> Nth(B, m)]
  <2>1. u \in Seq(A) /\ v \in Seq(B) /\ Len(u) = a /\ Len(v) = b
    BY <1>5, <1>6
  <2>2. /\ \A k \in 1 .. a : u[k] = Nth(A, k)
        /\ \A k \in 1 .. b : v[k] = Nth(B, k)
        /\ t = u \o v
    BY <1>4, <1>7 DEF t
  <2> HIDE DEF u, v
  <2>3. u \o v = [k \in 1 .. a + b |-> IF k <= a THEN u[k] ELSE v[k - a]]
    <3> DEFINE w == u \o v
    <3>1. u \in Seq(1 .. n) /\ v \in Seq(1 .. n)
      BY <1>3, <2>1, SeqMonotonic
    <3>2. /\ w \in Seq(1 .. n) /\ Len(w) = a + b
          /\ \A k \in 1 .. a + b : w[k] = IF k <= a THEN u[k] ELSE v[k - a]
      BY <2>1, <3>1, ConcatProperties
    <3> HIDE DEF w
    <3>3. w \in [1 .. a + b -> 1 .. n]
      BY <3>2, LenProperties
    <3>4. w = [k \in 1 .. a + b |-> IF k <= a THEN u[k] ELSE v[k - a]]
      BY <3>2, <3>3
    <3> QED
      BY <3>4 DEF w
  <2>4. ASSUME NEW k \in 1 .. n
        PROVE  (IF k <= a THEN u[k] ELSE v[k - a]) = IF k <= a THEN Nth(A, k) ELSE Nth(B, k - a)
    <3>1. k <= a => k \in 1 .. a
      BY <1>1, <1>5
    <3>2. ~(k <= a) => k - a \in 1 .. b
      BY <1>1, <1>5
    <3> QED
      BY <2>2, <3>1, <3>2
  <2> QED
    BY <1>5, <2>2, <2>3, <2>4
<1>9. t \in [1 .. n -> 1 .. n]
  <2>1. ASSUME NEW k \in 1 .. n
        PROVE  t[k] \in 1 .. n
    <3>1. CASE k <= a
      BY <1>1, <1>3, <1>5, <1>6, <1>8, <3>1
    <3>2. CASE ~(k <= a)
      <4>1. k - a \in 1 .. b
        BY <1>1, <1>5, <3>2
      <4> QED
        BY <1>3, <1>6, <1>8, <3>2, <4>1
    <3> QED
      BY <3>1, <3>2
  <2> QED
    BY <1>8, <2>1
<1>10. ASSUME NEW i \in 1 .. n, NEW j \in 1 .. n, t[i] = t[j]
       PROVE  i = j
  <2>1. ASSUME NEW k \in 1 .. n
        PROVE  \/ k \in 1 .. a /\ t[k] = Nth(A, k) /\ t[k] \in A
               \/ k - a \in 1 .. b /\ t[k] = Nth(B, k - a) /\ t[k] \in B
    <3>1. CASE k <= a
      BY <1>1, <1>5, <1>6, <1>8, <3>1
    <3>2. CASE ~(k <= a)
      <4>1. k - a \in 1 .. b
        BY <1>1, <1>5, <3>2
      <4> QED
        BY <1>6, <1>8, <3>2, <4>1
    <3> QED
      BY <3>1, <3>2
  <2> QED
    BY <1>1, <1>3, <1>5, <1>6, <1>10, <2>1
<1>11. ASSUME NEW k \in 1 .. n
       PROVE  \E i \in 1 .. n : t[i] = k
  <2>1. CASE k \in A
    <3>1. PICK m \in 1 .. a : Nth(A, m) = k
      BY <1>6, <2>1
    <3>2. m \in 1 .. n /\ m <= a
      BY <1>1, <1>5
    <3> QED
      BY <1>8, <3>1, <3>2
  <2>2. CASE k \in B
    <3>1. PICK m \in 1 .. b : Nth(B, m) = k
      BY <1>6, <2>2
    <3>2. m + a \in 1 .. n /\ ~(m + a <= a) /\ (m + a) - a = m
      BY <1>1, <1>5
    <3> QED
      BY <1>8, <3>1, <3>2
  <2> QED
    BY <1>3, <2>1, <2>2
<1>12. Sorted(t) = [k \in 1 .. n |-> k]
  BY <1>1, <1>9, <1>10, <1>11, SortedIs
<1> QED
  BY <1>12 DEF Concat, t, n

\* A row has no marker but that of its engine.
Marked(rows) ==
    \A i \in DOMAIN rows : rows[i].vals \cap {"rgx", "hs"} \subseteq {Engine(rows[i].cfg)}

MarkedInv == Marked(entries) /\ (csv # NONE => Marked(csv))

LEMMA MarkedStep == SeriesInv /\ MarkedInv /\ [Next]_vars => MarkedInv'
<1> SUFFICES ASSUME SeriesInv, MarkedInv, [Next]_vars
             PROVE  MarkedInv'
  OBVIOUS
<1>1. CASE UNCHANGED <<entries, csv>>
  BY <1>1 DEF MarkedInv, Marked
<1>2. CASE entries' = <<>> /\ UNCHANGED csv
  BY <1>2 DEF MarkedInv, Marked
<1>3. CASE Start /\ saved # NONE
  <2>1. csv # NONE /\ csv \in Seq(RowsOf(Configs)) /\ entries' = Loaded(csv) /\ csv' = csv
    BY <1>3 DEF Start, disk, SeriesInv, Types
  <2>2. \A i \in DOMAIN Loaded(csv) : \E j \in DOMAIN csv :
           Loaded(csv)[i].cfg = csv[j].cfg /\ Loaded(csv)[i].vals = csv[j].vals
    BY <2>1, LoadedIs
  <2> QED
    BY <2>1, <2>2 DEF MarkedInv, Marked
<1>4. ASSUME NEW vals, AddEntry(vals, TRUE) \/ AddEntry(vals, FALSE),
             vals \cap {"rgx", "hs"} \subseteq {Engine(curr)}, UNCHANGED csv
      PROVE  MarkedInv'
  <2> DEFINE r == Row(vals, columns')
  <2>1. entries' \in {entries, Append(entries, r)}
    BY <1>4 DEF AddEntry
  <2>2. r.cfg = curr /\ r.vals = vals
    BY DEF Row
  <2> HIDE DEF r
  <2>3. entries \in Seq(RowsOf(Configs))
    BY DEF SeriesInv, Types
  <2>4. \A i \in DOMAIN Append(entries, r) :
           (i \in DOMAIN entries /\ Append(entries, r)[i] = entries[i]) \/ Append(entries, r)[i] = r
    BY <2>3
  <2> QED
    BY <1>4, <2>1, <2>2, <2>4 DEF MarkedInv, Marked
<1>5. CASE RunInvalid
  BY <1>4, <1>5 DEF RunInvalid, disk
<1>6. CASE RunValid
  <2>1. PICK vals \in {{Engine(curr)}, {Engine(curr), "app"}} : AddEntry(vals, TRUE)
    BY <1>6 DEF RunValid
  <2>2. vals \cap {"rgx", "hs"} \subseteq {Engine(curr)}
    BY <2>1
  <2> QED
    BY <1>4, <1>6, <2>1, <2>2 DEF RunValid, disk
<1>7. CASE ExportCsv
  BY <1>7 DEF ExportCsv, memory, MarkedInv, Marked
<1>8. LoadFile \/ Setup \/ Precompile \/ NextParams \/ SaveState \/ Finish \/ RunFails \/ Shell \/ Ended
         \/ UNCHANGED vars => UNCHANGED <<entries, csv>>
  BY DEF LoadFile, Setup, Precompile, NextParams, SaveState, Finish, RunFails, Shell, Ended,
         memory, disk, vars
<1>9. (Start /\ saved = NONE) \/ Crash \/ UploadFails \/ BuildFails => entries' = <<>> /\ UNCHANGED csv
  BY DEF Start, Crash, UploadFails, BuildFails, Stop, disk
<1> QED
  BY <1>1, <1>2, <1>3, <1>5, <1>6, <1>7, <1>8, <1>9 DEF Next, Main

\* A configuration has one engine.
LEMMA OneEngine ==
    ASSUME file \in Files, NEW c \in Configs
    PROVE  /\ Enabled(c, "rgx") <=> ~Enabled(c, "hs")
           /\ \A e \in {"rgx", "hs"} : Enabled(c, e) <=> Engine(c) = e
<1> DEFINE all == Product(file.params)
           K   == {i \in DOMAIN all : Admitted(file, all[i])}
           A   == Combinations(file)
<1>1. PICK i \in DOMAIN PlanOf(file) : c = PlanOf(file)[i]
  BY DEF Configs, Said
<1>2. Admitted(file, c)
  <2>1. A = Select(all, K) /\ K \subseteq DOMAIN all /\ \A k \in K : Admitted(file, all[k])
    BY DEF Combinations
  <2>2. IsList(all)
    BY FilesAssumption, ProductIsList
  <2>3. file.reps \in Nat
    BY FilesAssumption
  <2> HIDE DEF all, K
  <2>4. all \in Seq({all[k] : k \in DOMAIN all})
    BY <2>2, ListIsSeq
  <2>5. IsFiniteSet(K) /\ K \subseteq Nat /\ Len(A) = Cardinality(K) /\ Len(A) \in Nat
    BY <2>1, <2>4, SelectType, FS_CardinalityType
  <2>6. \A n \in 1 .. Len(A) : A[n] = all[Nth(K, n)] /\ Nth(K, n) \in K
    BY <2>1, <2>5, NthIs DEF Select
  <2> HIDE DEF A
  <2> DEFINE q == (i - 1) \div file.reps
  <2>7. i \in 1 .. file.reps * Len(A) /\ c = A[q + 1]
    BY <1>1 DEF PlanOf, A
  <2>8. q + 1 \in 1 .. Len(A)
    BY <2>3, <2>5, <2>7, QuotientBelow
  <2> HIDE DEF q
  <2> QED
    BY <2>1, <2>6, <2>7, <2>8
<1>3. c.rgx_enabled + c.hs_enabled = 1
  BY <1>2 DEF Admitted
<1>4. c.rgx_enabled \in {0, 1} /\ c.hs_enabled \in {0, 1}
  BY SavedIsSome, FlagsAssumption
<1>5. c.rgx_enabled = 1 <=> ~(c.hs_enabled = 1)
  BY <1>3, <1>4
<1> QED
  BY <1>5 DEF Enabled, Engine

\* The processed results have the rows of the file, each once and in its order, and
\* a row has a rate exactly when its run was valid (process.py over the rows that
\* add_entry lets into the file).
THEOREM RowsAreKept == Spec => []ProcessedKept
<1>1. SeriesInv /\ MarkedInv => ProcessedKept
  <2> SUFFICES ASSUME SeriesInv, MarkedInv, csv # NONE
               PROVE  /\ ~TwoRates(csv)
                      /\ Processed(csv) = [i \in DOMAIN csv |->
                            [cfg |-> csv[i].cfg, rate |-> IF Valid(csv[i].vals) THEN 1 ELSE 0]]
    BY DEF ProcessedKept
  <2>1. csv \in Seq(RowsOf(Configs)) /\ file \in Files
    BY DEF SeriesInv, Types
  <2>2. ASSUME NEW i \in DOMAIN csv
        PROVE  /\ Enabled(csv[i].cfg, "rgx") <=> ~Enabled(csv[i].cfg, "hs")
               /\ ~(Rate(csv[i], "rgx") > 0 /\ Rate(csv[i], "hs") > 0)
               /\ Rate(csv[i], "rgx") + Rate(csv[i], "hs") = IF Valid(csv[i].vals) THEN 1 ELSE 0
    <3>1. csv[i].cfg \in Configs
      BY <2>1 DEF RowsOf
    <3>2. /\ Enabled(csv[i].cfg, "rgx") <=> ~Enabled(csv[i].cfg, "hs")
          /\ \A e \in {"rgx", "hs"} : Enabled(csv[i].cfg, e) <=> Engine(csv[i].cfg) = e
      BY <2>1, <3>1, OneEngine
    <3>3. csv[i].vals \cap {"rgx", "hs"} \subseteq {Engine(csv[i].cfg)}
      BY DEF MarkedInv, Marked
    <3>4. CASE Enabled(csv[i].cfg, "rgx")
      <4>1. Engine(csv[i].cfg) = "rgx" /\ ~Enabled(csv[i].cfg, "hs") /\ "hs" \notin csv[i].vals
        BY <3>2, <3>3, <3>4
      <4>2. Rate(csv[i], "hs") = 0 /\ Rate(csv[i], "rgx") = IF Valid(csv[i].vals) THEN 1 ELSE 0
        BY <3>4, <4>1 DEF Rate, Valid
      <4> QED
        BY <3>2, <4>2
    <3>5. CASE Enabled(csv[i].cfg, "hs")
      <4>1. Engine(csv[i].cfg) = "hs" /\ ~Enabled(csv[i].cfg, "rgx") /\ "rgx" \notin csv[i].vals
        BY <3>2, <3>3, <3>5
      <4>2. Rate(csv[i], "rgx") = 0 /\ Rate(csv[i], "hs") = IF Valid(csv[i].vals) THEN 1 ELSE 0
        BY <3>5, <4>1 DEF Rate, Valid
      <4> QED
        BY <3>2, <4>2
    <3> QED
      BY <3>2, <3>4, <3>5
  <2>3. Concat(csv) = [k \in 1 .. Len(csv) |-> k] /\ DOMAIN csv = 1 .. Len(csv)
    BY <2>1, <2>2, ConcatIs
  <2> QED
    BY <2>2, <2>3 DEF TwoRates, Processed
<1>2. Init => MarkedInv
  BY DEF Init, MarkedInv, Marked
<1> QED
  BY <1>1, <1>2, MarkedStep, SeriesInvariant, PTL DEF Spec

-----------------------------------------------------------------------------
(* The parameters of a configuration.                                      *)

\* A combination has a value for every parameter, and for nothing else.
LEMMA ProductNames ==
    ASSUME NEW ps, Len(ps) \in Nat, \A k \in 1 .. Len(ps) : Len(ps[k][2]) \in Nat
    PROVE  \A i \in DOMAIN Product(ps) : DOMAIN Product(ps)[i] = {ps[k][1] : k \in 1 .. Len(ps)}
<1>1. PICK f : IsProduct(f, ps, Len(ps)) /\ Product(ps) = f[Len(ps)]
  BY ProductDefined
<1> DEFINE Names(m) == {ps[k][1] : k \in 1 .. m}
           C == {m \in Nat : m <= Len(ps) =>
                    IsList(f[m]) /\ \A i \in 1 .. Len(f[m]) : DOMAIN f[m][i] = Names(m)}
<1>2. \A k \in 0 .. Len(ps) : f[k] = IF k = 0 THEN << <<>> >> ELSE Combined(ps, f[k - 1], k)
  BY <1>1 DEF IsProduct
<1>3. 0 \in C
  <2>1. f[0] = << <<>> >>
    BY <1>2
  <2>2. Len(f[0]) = 1 /\ IsList(f[0]) /\ f[0][1] = <<>>
    BY <2>1 DEF IsList
  <2>3. DOMAIN <<>> = {} /\ Names(0) = {}
    OBVIOUS
  <2> QED
    BY <2>2, <2>3
<1>4. ASSUME NEW m \in Nat, m \in C
      PROVE  m + 1 \in C
  <2> SUFFICES ASSUME m + 1 <= Len(ps)
               PROVE  IsList(f[m + 1]) /\ \A i \in 1 .. Len(f[m + 1]) : DOMAIN f[m + 1][i] = Names(m + 1)
    OBVIOUS
  <2>0. m <= Len(ps)
    OBVIOUS
  <2>1. IsList(f[m]) /\ \A i \in 1 .. Len(f[m]) : DOMAIN f[m][i] = Names(m)
    BY <1>4, <2>0
  <2>2. m + 1 \in 1 .. Len(ps) /\ m + 1 \in 0 .. Len(ps) /\ m + 1 # 0 /\ m + 1 - 1 = m
    OBVIOUS
  <2>3. f[m + 1] = Combined(ps, f[m], m + 1)
    BY <1>2, <2>2
  <2> DEFINE n == Len(ps[m + 1][2])
             l == Len(f[m])
  <2>4. l \in Nat /\ n \in Nat
    BY <2>1, <2>2 DEF IsList
  <2>5. f[m + 1] = [i \in 1 .. l * n |->
                      Put(f[m][((i - 1) \div n) + 1], ps[m + 1][1], ps[m + 1][2][((i - 1) % n) + 1])]
    BY <2>3 DEF Combined
  <2>6. Names(m + 1) = Names(m) \cup {ps[m + 1][1]}
    <3>1. 1 .. m + 1 = 1 .. m \cup {m + 1}
      OBVIOUS
    <3> QED
      BY <3>1
  <2> HIDE DEF n, l, Names
  <2>7. l * n \in Nat /\ l * n = n * l
    BY <2>4
  <2>8. IsList(f[m + 1]) /\ Len(f[m + 1]) = l * n
    BY <2>5, <2>7 DEF IsList
  <2>9. ASSUME NEW i \in 1 .. l * n
        PROVE  DOMAIN f[m + 1][i] = Names(m + 1)
    <3>1. ((i - 1) \div n) + 1 \in 1 .. l
      <4>1. i \in 1 .. n * l
        BY <2>7
      <4> QED
        BY <2>4, <4>1, QuotientBelow
    <3> DEFINE g == f[m][((i - 1) \div n) + 1]
    <3>2. DOMAIN g = Names(m)
      BY <2>1, <3>1 DEF l
    <3>3. f[m + 1][i] = Put(g, ps[m + 1][1], ps[m + 1][2][((i - 1) % n) + 1])
      BY <2>5
    <3> HIDE DEF g
    <3> QED
      BY <2>6, <3>2, <3>3 DEF Put
  <2> QED
    BY <2>8, <2>9
<1>5. Len(ps) \in C
  <2> HIDE DEF C
  <2>1. Nat \subseteq C
    BY <1>3, <1>4, SetOfNumbers
  <2> QED
    BY <2>1
<1>6. IsList(f[Len(ps)]) /\ \A i \in 1 .. Len(f[Len(ps)]) : DOMAIN f[Len(ps)][i] = Names(Len(ps))
  BY <1>5
<1> HIDE DEF Names
<1>7. DOMAIN f[Len(ps)] = 1 .. Len(f[Len(ps)])
  BY <1>6, ListIsSeq
<1> QED
  BY <1>1, <1>6, <1>7 DEF Names

\* A configuration of a file has its parameters, and the filters admit it.
LEMMA ConfigIs ==
    ASSUME NEW f \in Files, NEW c \in Said[f].configs
    PROVE  /\ DOMAIN c = {f.params[k][1] : k \in DOMAIN f.params}
           /\ Admitted(f, c)
<1> DEFINE all == Product(f.params)
           K   == {i \in DOMAIN all : Admitted(f, all[i])}
           S   == {all[i] : i \in DOMAIN all}
           A   == Combinations(f)
           r   == f.reps
           n   == Len(A)
<1>1. /\ Len(f.params) \in Nat /\ DOMAIN f.params = 1 .. Len(f.params)
      /\ \A k \in 1 .. Len(f.params) : Len(f.params[k][2]) \in Nat
  BY FilesAssumption
<1>2. IsList(all)
  BY <1>1, ProductIsList
<1>3. \A i \in DOMAIN all : DOMAIN all[i] = {f.params[k][1] : k \in DOMAIN f.params}
  BY <1>1, ProductNames
<1>4. PICK i \in DOMAIN PlanOf(f) : c = PlanOf(f)[i]
  BY DEF Said
<1>5. i \in 1 .. r * n /\ c = A[((i - 1) \div r) + 1]
  BY <1>4 DEF PlanOf
<1>6. A = Select(all, K)
  BY DEF Combinations
<1> HIDE DEF all, A
<1>7. all \in Seq(S) /\ K \subseteq DOMAIN all
  BY <1>2 DEF IsList
<1> HIDE DEF K, S
<1>8. A \in Seq(S) /\ IsFiniteSet(K) /\ K \subseteq Nat /\ n = Cardinality(K)
  BY <1>6, <1>7, SelectType
<1>9. r \in Nat /\ n \in Nat
  <2>1. r \in Nat
    BY FilesAssumption
  <2>2. n \in Nat
    BY <1>8
  <2> QED
    BY <2>1, <2>2
<1> DEFINE q == ((i - 1) \div r) + 1
<1>10. q \in 1 .. n
  <2> HIDE DEF r, n
  <2> QED
    BY <1>5, <1>9, QuotientBelow
<1> HIDE DEF q
<1>11. c = all[Nth(K, q)] /\ Nth(K, q) \in K
  <2>1. Nth(K, q) \in K
    BY <1>8, <1>10, NthIs
  <2>2. A[q] = all[Nth(K, q)]
    BY <1>6, <1>8, <1>10 DEF Select
  <2> QED
    BY <1>5, <2>1, <2>2 DEF q
<1> QED
  BY <1>3, <1>7, <1>11 DEF K

-----------------------------------------------------------------------------
(* The order of the commands of a script.                                  *)

\* The commands a script has.
Asked(c) ==
    { <<"clean">> } \cup {<<a, k>> : a \in {"uniq", "grep", "append"}, k \in Kw(c)}
    \cup (IF Kw(c) = {} THEN {}
          ELSE IF c.rgx_enabled = 1 THEN { <<"number">>, <<"find">>, <<"rxpc">>, <<"use">> }
          ELSE IF c.hs_enabled = 1 THEN { <<"convert">> } ELSE {})

\* The commands that are left.
Left(todo) == {todo[i] : i \in DOMAIN todo}

\* Their order.
Stage(k) == IF k = "content" THEN 0 ELSE 3

Rank(cmd) ==
    CASE cmd[1] = "clean"  -> 0
      [] cmd[1] = "uniq"   -> 1 + Stage(cmd[2])
      [] cmd[1] = "grep"   -> 2 + Stage(cmd[2])
      [] cmd[1] = "append" -> 3 + Stage(cmd[2])
      [] cmd[1] \in {"number", "convert"} -> 7
      [] cmd[1] = "find"   -> 8
      [] cmd[1] = "rxpc"   -> 9
      [] cmd[1] = "use"    -> 10

\* s has the commands of A, in their order, with ranks from lo to below hi.
Ordered(s, A, lo, hi) ==
    /\ s \in Seq(Commands) /\ Left(s) = A
    /\ \A i \in DOMAIN s : Rank(s[i]) \in lo .. hi - 1
    /\ \A i, j \in DOMAIN s : i < j => Rank(s[i]) < Rank(s[j])

LEMMA OrderedConcat ==
    ASSUME NEW s, NEW t, NEW A, NEW B, NEW lo \in Nat, NEW mid \in Nat, NEW hi \in Nat,
           Ordered(s, A, lo, mid), Ordered(t, B, mid, hi), lo <= mid, mid <= hi
    PROVE  Ordered(s \o t, A \cup B, lo, hi)
<1> DEFINE u == s \o t
           m == Len(s)
           n == Len(t)
<1>1. s \in Seq(Commands) /\ t \in Seq(Commands)
  BY DEF Ordered
<1>2. /\ u \in Seq(Commands) /\ m \in Nat /\ n \in Nat
      /\ DOMAIN s = 1 .. m /\ DOMAIN t = 1 .. n /\ DOMAIN u = 1 .. m + n
      /\ \A i \in 1 .. m : u[i] = s[i]
      /\ \A i \in m + 1 .. m + n : u[i] = t[i - m]
  BY <1>1
<1> HIDE DEF u, m, n
<1>3. \A i \in 1 .. m + n : i \in 1 .. m \/ (i \in m + 1 .. m + n /\ i - m \in 1 .. n)
  BY <1>2
<1>3a. \A i \in 1 .. n : i + m \in m + 1 .. m + n /\ (i + m) - m = i
  BY <1>2
<1>3b. \A i \in 1 .. m : i \in 1 .. m + n
  BY <1>2
<1>3c. \A i \in m + 1 .. m + n : i \in 1 .. m + n
  BY <1>2
<1>4. Left(u) = A \cup B
  <2>1. Left(s) = A /\ Left(t) = B
    BY DEF Ordered
  <2>2. ASSUME NEW x \in Left(u)
        PROVE  x \in Left(s) \cup Left(t)
    <3>1. PICK i \in 1 .. m + n : x = u[i]
      BY <1>2 DEF Left
    <3>2. (x = s[i] /\ i \in 1 .. m) \/ (x = t[i - m] /\ i - m \in 1 .. n)
      BY <1>2, <1>3, <3>1
    <3> QED
      BY <1>2, <3>2 DEF Left
  <2>3. ASSUME NEW x \in Left(s)
        PROVE  x \in Left(u)
    BY <1>2, <1>3b DEF Left
  <2>4. ASSUME NEW x \in Left(t)
        PROVE  x \in Left(u)
    <3>1. PICK i \in 1 .. n : x = t[i]
      BY <1>2 DEF Left
    <3>2. i + m \in m + 1 .. m + n /\ u[i + m] = t[i]
      BY <1>2, <1>3a
    <3> QED
      BY <1>2, <1>3c, <3>1, <3>2 DEF Left
  <2> QED
    BY <2>1, <2>2, <2>3, <2>4
<1>5. /\ \A i \in 1 .. m : Rank(s[i]) \in lo .. mid - 1
      /\ \A i \in 1 .. n : Rank(t[i]) \in mid .. hi - 1
      /\ \A i, j \in 1 .. m : i < j => Rank(s[i]) < Rank(s[j])
      /\ \A i, j \in 1 .. n : i < j => Rank(t[i]) < Rank(t[j])
  BY <1>2 DEF Ordered
<1> HIDE DEF Rank
<1>6. ASSUME NEW i \in DOMAIN u
      PROVE  Rank(u[i]) \in lo .. hi - 1
  <2>1. i \in 1 .. m + n
    BY <1>2
  <2>2. CASE i \in 1 .. m
    BY <1>2, <1>5, <2>2
  <2>3. CASE i \in m + 1 .. m + n /\ i - m \in 1 .. n
    BY <1>2, <1>5, <2>3
  <2> QED
    BY <1>3, <2>1, <2>2, <2>3
<1>7. ASSUME NEW i \in DOMAIN u, NEW j \in DOMAIN u, i < j
      PROVE  Rank(u[i]) < Rank(u[j])
  <2>1. i \in 1 .. m + n /\ j \in 1 .. m + n
    BY <1>2
  <2>2. CASE i \in 1 .. m /\ j \in 1 .. m
    BY <1>2, <1>5, <1>7, <2>2
  <2>3. CASE i \in 1 .. m /\ j \in m + 1 .. m + n /\ j - m \in 1 .. n
    <3>1. Rank(s[i]) \in lo .. mid - 1 /\ Rank(t[j - m]) \in mid .. hi - 1
      BY <1>5, <2>3
    <3>2. u[i] = s[i] /\ u[j] = t[j - m]
      BY <1>2, <2>3
    <3> QED
      BY <3>1, <3>2
  <2>4. CASE i \in m + 1 .. m + n /\ i - m \in 1 .. n /\ j \in m + 1 .. m + n /\ j - m \in 1 .. n
    <3>1. i - m < j - m
      BY <1>2, <1>7, <2>4
    <3>2. u[i] = t[i - m] /\ u[j] = t[j - m]
      BY <1>2, <2>4
    <3> QED
      BY <1>5, <2>4, <3>1, <3>2
  <2>5. CASE i \in m + 1 .. m + n /\ j \in 1 .. m
    BY <1>2, <1>7, <2>5
  <2> QED
    BY <1>3, <2>1, <2>2, <2>3, <2>4, <2>5
<1> QED
  BY <1>2, <1>4, <1>6, <1>7 DEF Ordered, u

LEMMA OrderedEmpty == ASSUME NEW lo \in Nat, NEW hi \in Nat PROVE Ordered(<<>>, {}, lo, hi)
<1>1. <<>> \in Seq(Commands) /\ DOMAIN <<>> = {}
  OBVIOUS
<1>2. Left(<<>>) = {}
  BY <1>1 DEF Left
<1> HIDE DEF Rank
<1> QED
  BY <1>1, <1>2 DEF Ordered

LEMMA ExtractionOrder ==
    ASSUME NEW k \in Keywords
    PROVE  Ordered(Extraction(k), {<<a, k>> : a \in {"uniq", "grep", "append"}}, 1 + Stage(k), 4 + Stage(k))
<1> DEFINE s == Extraction(k)
           A == {<<a, k>> : a \in {"uniq", "grep", "append"}}
<1>1. s = << <<"uniq", k>>, <<"grep", k>>, <<"append", k>> >>
  BY DEF Extraction
<1>2. Stage(k) \in {0, 3}
  BY DEF Stage
<1> HIDE DEF s
<1>3. /\ DOMAIN s = 1 .. 3 /\ s[1] = <<"uniq", k>> /\ s[2] = <<"grep", k>> /\ s[3] = <<"append", k>>
      /\ s \in Seq(Commands)
  BY <1>1 DEF Commands
<1>4. Left(s) = {s[1], s[2], s[3]}
  <2>1. 1 .. 3 = {1, 2, 3}
    OBVIOUS
  <2> QED
    BY <1>3, <2>1 DEF Left
<1>5. Left(s) = A
  BY <1>3, <1>4
<1>6. Rank(s[1]) = 1 + Stage(k) /\ Rank(s[2]) = 2 + Stage(k) /\ Rank(s[3]) = 3 + Stage(k)
  BY <1>3 DEF Rank
<1> HIDE DEF Rank, Stage, A
<1>7. \A i \in 1 .. 3 : Rank(s[i]) = i + Stage(k)
  BY <1>6
<1>8. /\ \A i \in 1 .. 3 : Rank(s[i]) \in 1 + Stage(k) .. (4 + Stage(k)) - 1
      /\ \A i, j \in 1 .. 3 : i < j => Rank(s[i]) < Rank(s[j])
  BY <1>2, <1>7
<1>8a. DOMAIN s = 1 .. 3 /\ s \in Seq(Commands)
  BY <1>3
<1> HIDE <1>3
<1>9. Ordered(s, A, 1 + Stage(k), 4 + Stage(k))
  <2>1. \A i \in DOMAIN s : Rank(s[i]) \in 1 + Stage(k) .. (4 + Stage(k)) - 1
    BY <1>8, <1>8a
  <2>2. \A i, j \in DOMAIN s : i < j => Rank(s[i]) < Rank(s[j])
    BY <1>8, <1>8a
  <2> QED
    BY <1>5, <1>8a, <2>1, <2>2 DEF Ordered
<1> QED
  BY <1>9 DEF A, s

LEMMA SingleOrder ==
    ASSUME NEW cmd \in Commands, NEW lo \in Nat, NEW hi \in Nat, Rank(cmd) \in lo .. hi - 1
    PROVE  Ordered(<<cmd>>, {cmd}, lo, hi)
<1> DEFINE s == <<cmd>>
<1>1. s \in Seq(Commands) /\ DOMAIN s = {1} /\ s[1] = cmd
  OBVIOUS
<1> HIDE DEF s, Rank
<1>2. Left(s) = {cmd}
  BY <1>1 DEF Left
<1>3. ~(1 < 1)
  OBVIOUS
<1>4. Ordered(s, {cmd}, lo, hi)
  BY <1>1, <1>2, <1>3 DEF Ordered
<1> QED
  BY <1>4 DEF s

LEMMA CompileOrder ==
    Ordered(<< <<"number">>, <<"find">>, <<"rxpc">>, <<"use">> >>,
            { <<"number">>, <<"find">>, <<"rxpc">>, <<"use">> }, 7, 11)
<1> DEFINE s == << <<"number">>, <<"find">>, <<"rxpc">>, <<"use">> >>
           A == { <<"number">>, <<"find">>, <<"rxpc">>, <<"use">> }
<1>1. /\ s \in Seq(Commands) /\ DOMAIN s = 1 .. 4
      /\ s[1] = <<"number">> /\ s[2] = <<"find">> /\ s[3] = <<"rxpc">> /\ s[4] = <<"use">>
  BY DEF Commands
<1> HIDE DEF s
<1>2. Left(s) = A
  <2>1. 1 .. 4 = {1, 2, 3, 4}
    OBVIOUS
  <2>2. Left(s) = {s[1], s[2], s[3], s[4]}
    BY <1>1, <2>1 DEF Left
  <2> QED
    BY <1>1, <2>2
<1>3. Rank(s[1]) = 7 /\ Rank(s[2]) = 8 /\ Rank(s[3]) = 9 /\ Rank(s[4]) = 10
  BY <1>1 DEF Rank
<1> HIDE DEF Rank, A
<1>4. \A i \in 1 .. 4 : Rank(s[i]) = i + 6
  BY <1>3
<1>5. /\ \A i \in 1 .. 4 : Rank(s[i]) \in 7 .. 11 - 1
      /\ \A i, j \in 1 .. 4 : i < j => Rank(s[i]) < Rank(s[j])
  BY <1>4
<1>6. Ordered(s, A, 7, 11)
  BY <1>1, <1>2, <1>5 DEF Ordered
<1> QED
  BY <1>6 DEF s, A

\* A script has the commands its configuration asks for, in their order.
LEMMA ScriptOrder == ASSUME NEW c PROVE Ordered(Script(c), Asked(c), 0, 11)
<1> DEFINE E(k) == {<<a, k>> : a \in {"uniq", "grep", "append"}}
           X(k) == IF k \in Kw(c) THEN Extraction(k) ELSE <<>>
           Y(k) == IF k \in Kw(c) THEN E(k) ELSE {}
           Z == IF Kw(c) = {} THEN <<>>
                ELSE IF c.rgx_enabled = 1
                     THEN << <<"number">>, <<"find">>, <<"rxpc">>, <<"use">> >>
                     ELSE IF c.hs_enabled = 1 THEN << <<"convert">> >> ELSE <<>>
           W == IF Kw(c) = {} THEN {}
                ELSE IF c.rgx_enabled = 1 THEN { <<"number">>, <<"find">>, <<"rxpc">>, <<"use">> }
                     ELSE IF c.hs_enabled = 1 THEN { <<"convert">> } ELSE {}
<1>1. Kw(c) \subseteq {"content", "pcre"} /\ "content" \in Keywords /\ "pcre" \in Keywords
  BY DEF Kw, Keywords
<1>2. Stage("content") = 0 /\ Stage("pcre") = 3
  BY DEF Stage
<1>3. Ordered(<< <<"clean">> >>, { <<"clean">> }, 0, 1)
  <2>1. <<"clean">> \in Commands /\ Rank(<<"clean">>) = 0
    BY DEF Commands, Rank
  <2> QED
    BY <2>1, SingleOrder
<1>4. Ordered(X("content"), Y("content"), 1, 4)
  <2>1. CASE "content" \in Kw(c)
    <3>1. Ordered(Extraction("content"), E("content"), 1 + Stage("content"), 4 + Stage("content"))
      BY <1>1, ExtractionOrder
    <3>2. 1 + Stage("content") = 1 /\ 4 + Stage("content") = 4
      BY <1>2
    <3> HIDE DEF E
    <3> QED
      BY <2>1, <3>1, <3>2
  <2>2. CASE "content" \notin Kw(c)
    BY <2>2, OrderedEmpty
  <2> QED
    BY <2>1, <2>2
<1>5. Ordered(X("pcre"), Y("pcre"), 4, 7)
  <2>1. CASE "pcre" \in Kw(c)
    <3>1. Ordered(Extraction("pcre"), E("pcre"), 1 + Stage("pcre"), 4 + Stage("pcre"))
      BY <1>1, ExtractionOrder
    <3>2. 1 + Stage("pcre") = 4 /\ 4 + Stage("pcre") = 7
      BY <1>2
    <3> HIDE DEF E
    <3> QED
      BY <2>1, <3>1, <3>2
  <2>2. CASE "pcre" \notin Kw(c)
    BY <2>2, OrderedEmpty
  <2> QED
    BY <2>1, <2>2
<1>6. Ordered(Z, W, 7, 11)
  <2>1. Ordered(<< <<"convert">> >>, { <<"convert">> }, 7, 11)
    <3>1. <<"convert">> \in Commands /\ Rank(<<"convert">>) = 7
      BY DEF Commands, Rank
    <3> QED
      BY <3>1, SingleOrder
  <2>2. Ordered(<<>>, {}, 7, 11)
    BY OrderedEmpty
  <2>3. CASE Kw(c) = {}
    BY <2>2, <2>3
  <2>4. CASE Kw(c) # {} /\ c.rgx_enabled = 1
    BY <2>4, CompileOrder
  <2>5. CASE Kw(c) # {} /\ c.rgx_enabled # 1 /\ c.hs_enabled = 1
    BY <2>1, <2>5
  <2>6. CASE Kw(c) # {} /\ c.rgx_enabled # 1 /\ c.hs_enabled # 1
    BY <2>2, <2>6
  <2> QED
    BY <2>3, <2>4, <2>5, <2>6
<1>7. Script(c) = << <<"clean">> >> \o X("content") \o X("pcre") \o Z
  BY DEF Script
<1>8. Asked(c) = { <<"clean">> } \cup Y("content") \cup Y("pcre") \cup W
  <2>1. {<<a, k>> : a \in {"uniq", "grep", "append"}, k \in Kw(c)} = Y("content") \cup Y("pcre")
    BY <1>1
  <2> HIDE DEF W, Y
  <2> QED
    BY <2>1 DEF Asked, W
<1> HIDE DEF X, Y, Z, W
<1>9. Ordered(<< <<"clean">> >> \o X("content"), { <<"clean">> } \cup Y("content"), 0, 4)
  BY <1>3, <1>4, OrderedConcat
<1> DEFINE P == << <<"clean">> >> \o X("content")
           Q == { <<"clean">> } \cup Y("content")
<1> HIDE DEF P, Q
<1>10. Ordered(P \o X("pcre"), Q \cup Y("pcre"), 0, 7)
  <2>1. Ordered(P, Q, 0, 4)
    BY <1>9 DEF P, Q
  <2> QED
    BY <1>5, <2>1, OrderedConcat
<1> DEFINE R == P \o X("pcre")
           S == Q \cup Y("pcre")
<1> HIDE DEF R, S
<1>11. Ordered(R \o Z, S \cup W, 0, 11)
  <2>1. Ordered(R, S, 0, 7)
    BY <1>10 DEF R, S
  <2> QED
    BY <1>6, <2>1, OrderedConcat
<1>12. Script(c) = R \o Z /\ Asked(c) = S \cup W
  BY <1>7, <1>8 DEF P, Q, R, S
<1> QED
  BY <1>11, <1>12

\* At every moment what is left are the commands from that of the next rank on.
Unfinished(c, t) ==
    t # <<>> /\ \E n \in 0 .. Len(Script(c)) : t = SubSeq(Script(c), n + 1, Len(Script(c)))

LEMMA LeftIs ==
    ASSUME NEW c, NEW t, Unfinished(c, t)
    PROVE  /\ Head(t) \in Asked(c)
           /\ Left(t) = {x \in Asked(c) : Rank(x) >= Rank(Head(t))}
           /\ Left(Tail(t)) = {x \in Asked(c) : Rank(x) > Rank(Head(t))}
<1> DEFINE s == Script(c)
           l == Len(s)
<1>1. /\ s \in Seq(Commands) /\ Left(s) = Asked(c)
      /\ \A i \in DOMAIN s : Rank(s[i]) \in 0 .. 11 - 1
      /\ \A i, j \in DOMAIN s : i < j => Rank(s[i]) < Rank(s[j])
  BY ScriptOrder DEF Ordered
<1>0. PICK n \in 0 .. l : t = SubSeq(s, n + 1, l)
  BY DEF Unfinished
<1>0a. t # <<>>
  BY DEF Unfinished
<1>2. l \in Nat /\ DOMAIN s = 1 .. l /\ n \in 0 .. l /\ t = SubSeq(s, n + 1, l)
  BY <1>0, <1>1
<1> HIDE DEF s, l, Rank
<1>2a. s \in Seq(Commands) /\ l = Len(s)
  BY <1>1 DEF l
<1>3. n + 1 \in 1 .. l
  BY <1>0a, <1>2, <1>2a
<1>4. /\ t \in Seq(Commands) /\ DOMAIN t = 1 .. l - n /\ \A i \in 1 .. l - n : t[i] = s[n + i]
      /\ Head(t) = s[n + 1]
      /\ DOMAIN Tail(t) = 1 .. l - n - 1 /\ \A i \in 1 .. l - n - 1 : Tail(t)[i] = s[n + 1 + i]
  <2>1. t \in Seq(Commands) /\ Len(t) = l - n /\ \A i \in 1 .. l - n : t[i] = s[n + i]
    BY <1>2, <1>2a, <1>3
  <2>2. Head(t) = s[n + 1] /\ DOMAIN t = 1 .. l - n
    BY <1>2, <1>3, <2>1
  <2>3. Len(t) \in Nat \ {0}
    BY <1>2, <1>3, <2>1
  <2>4. DOMAIN Tail(t) = 1 .. Len(t) - 1 /\ \A i \in 1 .. Len(t) - 1 : Tail(t)[i] = t[i + 1]
    BY <2>1, <2>3
  <2>5. \A i \in 1 .. l - n - 1 : i + 1 \in 1 .. l - n /\ n + (i + 1) = n + 1 + i
    BY <1>2, <1>3
  <2> QED
    BY <2>1, <2>2, <2>4, <2>5
<1>5. ASSUME NEW i \in 1 .. l
      PROVE  /\ Rank(s[i]) >= Rank(s[n + 1]) <=> i >= n + 1
             /\ Rank(s[i]) > Rank(s[n + 1]) <=> i > n + 1
  <2>0. i \in DOMAIN s /\ n + 1 \in DOMAIN s
    BY <1>2, <1>3
  <2>1. Rank(s[i]) \in Nat /\ Rank(s[n + 1]) \in Nat
    <3>1. Rank(s[i]) \in 0 .. 11 - 1 /\ Rank(s[n + 1]) \in 0 .. 11 - 1
      BY <1>1, <2>0
    <3> QED
      BY <3>1
  <2>2. i < n + 1 => Rank(s[i]) < Rank(s[n + 1])
    BY <1>1, <1>2, <1>3
  <2>3. n + 1 < i => Rank(s[n + 1]) < Rank(s[i])
    BY <1>1, <1>2, <1>3
  <2>4. i < n + 1 \/ i = n + 1 \/ n + 1 < i
    BY <1>2
  <2> QED
    BY <1>2, <2>1, <2>2, <2>3, <2>4
<1>6. Asked(c) = {s[i] : i \in 1 .. l}
  BY <1>1, <1>2 DEF Left
<1>7. Left(t) = {s[i] : i \in n + 1 .. l}
  <2>1. ASSUME NEW i \in 1 .. l - n
        PROVE  n + i \in n + 1 .. l
    BY <1>2
  <2>2. ASSUME NEW i \in n + 1 .. l
        PROVE  i - n \in 1 .. l - n /\ n + (i - n) = i
    BY <1>2
  <2>3. \A i \in 1 .. l - n : t[i] = s[n + i]
    BY <1>4
  <2>4. Left(t) = {t[i] : i \in 1 .. l - n}
    BY <1>4 DEF Left
  <2>5. \A x \in Left(t) : \E i \in n + 1 .. l : x = s[i]
    BY <2>1, <2>3, <2>4
  <2>6. \A i \in n + 1 .. l : s[i] \in Left(t)
    <3> SUFFICES ASSUME NEW i \in n + 1 .. l
                 PROVE  s[i] \in Left(t)
      OBVIOUS
    <3>1. t[i - n] = s[i]
      BY <2>2, <2>3
    <3> QED
      BY <2>2, <2>4, <3>1
  <2> QED
    BY <2>5, <2>6
<1>8. Left(Tail(t)) = {s[i] : i \in n + 2 .. l}
  <2>1. ASSUME NEW i \in 1 .. l - n - 1
        PROVE  n + 1 + i \in n + 2 .. l
    BY <1>2
  <2>2. ASSUME NEW i \in n + 2 .. l
        PROVE  i - n - 1 \in 1 .. l - n - 1 /\ n + 1 + (i - n - 1) = i
    BY <1>2
  <2> DEFINE v == Tail(t)
  <2>0. DOMAIN v = 1 .. l - n - 1 /\ \A i \in 1 .. l - n - 1 : v[i] = s[n + 1 + i]
    BY <1>4
  <2> HIDE DEF v
  <2>3. \A i \in 1 .. l - n - 1 : v[i] = s[n + 1 + i]
    BY <2>0
  <2>4. Left(v) = {v[i] : i \in 1 .. l - n - 1}
    BY <2>0 DEF Left
  <2>5. \A x \in Left(v) : \E i \in n + 2 .. l : x = s[i]
    BY <2>1, <2>3, <2>4
  <2>6. \A i \in n + 2 .. l : s[i] \in Left(v)
    <3> SUFFICES ASSUME NEW i \in n + 2 .. l
                 PROVE  s[i] \in Left(v)
      OBVIOUS
    <3>1. v[i - n - 1] = s[i]
      BY <2>2, <2>3
    <3> QED
      BY <2>2, <2>4, <3>1
  <2> QED
    BY <2>5, <2>6 DEF v
<1>9. /\ \A i \in 1 .. l : i \in n + 1 .. l <=> i >= n + 1
      /\ \A i \in 1 .. l : i \in n + 2 .. l <=> i > n + 1
      /\ n + 1 .. l \subseteq 1 .. l /\ n + 2 .. l \subseteq 1 .. l
  BY <1>2
<1>10. Left(t) = {x \in Asked(c) : Rank(x) >= Rank(s[n + 1])}
  BY <1>5, <1>6, <1>7, <1>9
<1>11. Left(Tail(t)) = {x \in Asked(c) : Rank(x) > Rank(s[n + 1])}
  BY <1>5, <1>6, <1>8, <1>9
<1> QED
  BY <1>3, <1>4, <1>6, <1>10, <1>11

-----------------------------------------------------------------------------
(* What a script that runs alone leaves behind.                            *)

Compiles(c) == Kw(c) # {} /\ c.rgx_enabled = 1
Converts(c) == Kw(c) # {} /\ c.rgx_enabled # 1 /\ c.hs_enabled = 1

\* The lists of patterns, when the commands of L are left.
Gathered(d, c, L) ==
    /\ <<"clean">> \notin L =>
          Read(d.regexes) = {<<k, c.n_rules>> : k \in {x \in Kw(c) : <<"append", x>> \notin L}}
    /\ \A k \in Kw(c) : <<"uniq", k>> \notin L => d.tmp[k] = {<<k, c.n_rules>>}
    /\ \A k \in Kw(c) : <<"grep", k>> \notin L => d.list[k] = {<<k, c.n_rules>>}

\* What was made of them; under a name in S others have compiled, too.
Made(d, c, L, S) ==
    /\ Compiles(c) /\ <<"number">> \notin L => d.rxpc = PatternsOf(c)
    /\ Compiles(c) /\ <<"rxpc">> \notin L /\ CurrId(c) \notin S =>
          At(d.precompiled, CurrId(c)) = PatternsOf(c)
    /\ Compiles(c) /\ <<"use">> \notin L /\ CurrId(c) \notin S => d.current = PatternsOf(c)
    /\ Converts(c) /\ <<"convert">> \notin L => d.hyperscan = PatternsOf(c)

\* The compiled rules that were put aside under other names than those in S.
Kept(d, S) ==
    \A id \in DOMAIN d.precompiled \ S : d.precompiled[id] = {<<k, id[1]>> : k \in id[2]}

LEMMA RankOnce ==
    ASSUME NEW c
    PROVE  /\ \A x \in Asked(c) : Rank(x) \in Nat
           /\ \A x, y \in Asked(c) : Rank(x) = Rank(y) => x = y
<1> DEFINE s == Script(c)
<1>1. /\ s \in Seq(Commands) /\ Left(s) = Asked(c)
      /\ \A i \in DOMAIN s : Rank(s[i]) \in 0 .. 11 - 1
      /\ \A i, j \in DOMAIN s : i < j => Rank(s[i]) < Rank(s[j])
  BY ScriptOrder DEF Ordered
<1> HIDE DEF s, Rank
<1>2. DOMAIN s \subseteq Nat
  BY <1>1
<1>3. \A x \in Asked(c) : \E i \in DOMAIN s : x = s[i]
  BY <1>1 DEF Left
<1>4. ASSUME NEW x \in Asked(c), NEW y \in Asked(c), Rank(x) = Rank(y)
      PROVE  x = y
  <2>1. PICK i \in DOMAIN s, j \in DOMAIN s : x = s[i] /\ y = s[j]
    BY <1>3
  <2>2. i \in Nat /\ j \in Nat /\ Rank(x) \in Nat
    BY <1>1, <1>2, <2>1
  <2>3. ~(i < j) /\ ~(j < i)
    BY <1>1, <1>4, <2>1, <2>2
  <2>4. i = j
    BY <2>2, <2>3
  <2> QED
    BY <2>1, <2>4
<1>5. ASSUME NEW x \in Asked(c)
      PROVE  Rank(x) \in Nat
  BY <1>1, <1>3
<1> QED
  BY <1>4, <1>5

LEMMA RankIs ==
    /\ Rank(<<"clean">>) = 0 /\ Rank(<<"number">>) = 7 /\ Rank(<<"convert">>) = 7
    /\ Rank(<<"find">>) = 8 /\ Rank(<<"rxpc">>) = 9 /\ Rank(<<"use">>) = 10
BY DEF Rank

LEMMA RankOf ==
    ASSUME NEW k \in Keywords
    PROVE  /\ Rank(<<"clean">>) < Rank(<<"uniq", k>>)
           /\ Rank(<<"clean">>) < Rank(<<"append", k>>)
           /\ Rank(<<"uniq", k>>) < Rank(<<"grep", k>>)
           /\ Rank(<<"grep", k>>) < Rank(<<"append", k>>)
           /\ Rank(<<"uniq", k>>) < 7 /\ Rank(<<"grep", k>>) < 7 /\ Rank(<<"append", k>>) < 7
           /\ Rank(<<"uniq", k>>) \in Nat /\ Rank(<<"grep", k>>) \in Nat /\ Rank(<<"append", k>>) \in Nat
<1>1. /\ Rank(<<"uniq", k>>) = 1 + Stage(k) /\ Rank(<<"grep", k>>) = 2 + Stage(k)
      /\ Rank(<<"append", k>>) = 3 + Stage(k) /\ Rank(<<"clean">>) = 0
  BY DEF Rank
<1>2. Stage(k) \in {0, 3}
  BY DEF Stage
<1> HIDE DEF Rank, Stage
<1> QED
  BY <1>1, <1>2

\* The files are those of the configuration, as far as its script has got.
LEMMA EffectIsRight ==
    ASSUME NEW d, GoodDir(d), NEW c, \A F \in SUBSET PatternsOf(c) : F # NOFILE, NEW S,
           NEW cmd \in Asked(c), NEW L, NEW M,
           L = {x \in Asked(c) : Rank(x) >= Rank(cmd)},
           M = {x \in Asked(c) : Rank(x) > Rank(cmd)},
           Gathered(d, c, L), Made(d, c, L, S), Kept(d, S)
    PROVE  /\ Gathered(Effect(d, c, cmd), c, M)
           /\ Made(Effect(d, c, cmd), c, M, S)
           /\ cmd = <<"find">> /\ At(d.precompiled, CurrId(c)) # NOFILE =>
                 Gathered(Effect(d, c, cmd), c, {}) /\ Made(Effect(d, c, cmd), c, {}, S)
           /\ Kept(Effect(d, c, cmd), S)
<1> DEFINE P  == PatternsOf(c)
           id == CurrId(c)
           e  == Effect(d, c, cmd)
           Q(K) == {<<k, c.n_rules>> : k \in {x \in Kw(c) : <<"append", x>> \notin K}}
<1>1. /\ Kw(c) \subseteq Keywords /\ P = {<<k, id[1]>> : k \in id[2]}
      /\ P = {<<k, c.n_rules>> : k \in Kw(c)}
  BY DEF PatternsOf, CurrId, Kw
<1>2. /\ \A k \in Kw(c) : <<"uniq", k>> \in Asked(c) /\ <<"grep", k>> \in Asked(c) /\ <<"append", k>> \in Asked(c)
      /\ Compiles(c) => {<<"number">>, <<"find">>, <<"rxpc">>, <<"use">>} \subseteq Asked(c)
      /\ Converts(c) => <<"convert">> \in Asked(c)
      /\ <<"clean">> \in Asked(c)
  BY DEF Asked, Compiles, Converts
<1>3. /\ \A x \in Asked(c) : x \notin L <=> Rank(x) < Rank(cmd)
      /\ \A x \in Asked(c) : x \notin M <=> Rank(x) <= Rank(cmd)
      /\ \A x : x # cmd => (x \in L <=> x \in M)
      /\ cmd \in L /\ cmd \notin M
  BY RankOnce
<1>4. \A F \in SUBSET P : F # NOFILE /\ Read(F) = F
  BY DEF Read
<1>5. /\ d = [tmp |-> d.tmp, list |-> d.list, regexes |-> d.regexes, rxpc |-> d.rxpc,
              precompiled |-> d.precompiled, current |-> d.current, hyperscan |-> d.hyperscan]
      /\ d.tmp = [k \in Keywords |-> d.tmp[k]] /\ d.list = [k \in Keywords |-> d.list[k]]
  BY DEF GoodDir
<1>6. \A K : Q(K) \subseteq P /\ Read(Q(K)) = Q(K)
  BY <1>1, <1>4
<1>7. /\ cmd \in {<<"clean">>, <<"number">>, <<"find">>, <<"rxpc">>, <<"use">>, <<"convert">>}
         \/ \E k \in Kw(c) : cmd \in {<<"uniq", k>>, <<"grep", k>>, <<"append", k>>}
      /\ cmd \in {<<"number">>, <<"find">>, <<"rxpc">>, <<"use">>} => Compiles(c)
      /\ cmd = <<"convert">> => Converts(c)
  BY DEF Asked, Compiles, Converts
<1>8. /\ <<"clean">> \notin L => Read(d.regexes) = Q(L)
      /\ \A k \in Kw(c) : <<"uniq", k>> \notin L => d.tmp[k] = {<<k, c.n_rules>>}
      /\ \A k \in Kw(c) : <<"grep", k>> \notin L => d.list[k] = {<<k, c.n_rules>>}
  BY DEF Gathered
<1> HIDE DEF P, id, e, Q
<1>9. CASE cmd = <<"clean">>
  <2>1. e = [d EXCEPT !.regexes = NOFILE]
    BY <1>9 DEF Effect, e
  <2>2. e.regexes = NOFILE /\ e.tmp = d.tmp /\ e.list = d.list /\ e.rxpc = d.rxpc
        /\ e.precompiled = d.precompiled /\ e.current = d.current /\ e.hyperscan = d.hyperscan
    BY <1>5, <2>1
  <2>3. Read(NOFILE) = {}
    BY DEF Read
  <2>4. \A k \in Kw(c) : <<"append", k>> \in M
    <3>1. ASSUME NEW k \in Kw(c)
          PROVE  Rank(<<"append", k>>) > Rank(cmd)
      BY <1>1, <1>9, RankOf
    <3> QED
      BY <1>2, <3>1
  <2>5. Q(M) = {}
    BY <2>4 DEF Q
  <2>6. Gathered(e, c, M)
    <3>1. \A k \in Kw(c) : <<"uniq", k>> # cmd /\ <<"grep", k>> # cmd
      BY <1>9
    <3> QED
      BY <1>3, <1>8, <2>2, <2>3, <2>5, <3>1 DEF Gathered, Q
  <2>7. Made(e, c, M, S)
    <3>1. cmd \notin {<<"number">>, <<"rxpc">>, <<"use">>, <<"convert">>}
      BY <1>9
    <3> QED
      BY <1>3, <2>2, <3>1 DEF Made
  <2>8. Kept(e, S) /\ cmd # <<"find">>
    BY <1>9, <2>2 DEF Kept
  <2> QED
    BY <2>6, <2>7, <2>8 DEF e
<1>10. ASSUME NEW k \in Kw(c), cmd = <<"uniq", k>>
       PROVE  Gathered(e, c, M) /\ Made(e, c, M, S) /\ Kept(e, S) /\ cmd # <<"find">>
  <2>1. e = [d EXCEPT !.tmp[k] = {<<k, c.n_rules>>}]
    BY <1>10 DEF Effect, e
  <2>2. e.regexes = d.regexes /\ e.list = d.list /\ e.rxpc = d.rxpc
        /\ e.precompiled = d.precompiled /\ e.current = d.current /\ e.hyperscan = d.hyperscan
        /\ e.tmp[k] = {<<k, c.n_rules>>} /\ \A x \in Keywords \ {k} : e.tmp[x] = d.tmp[x]
    BY <1>1, <1>5, <2>1
  <2>3. Q(M) = Q(L)
    <3>1. \A x \in Kw(c) : <<"append", x>> # cmd
      BY <1>10
    <3> QED
      BY <1>3, <3>1 DEF Q
  <2>4. ASSUME NEW x \in Kw(c)
        PROVE  /\ <<"uniq", x>> \notin M => e.tmp[x] = {<<x, c.n_rules>>}
               /\ <<"grep", x>> \notin M => e.list[x] = {<<x, c.n_rules>>}
    <3>1. CASE x = k
      <4>1. <<"grep", x>> # cmd
        BY <1>10
      <4> QED
        BY <1>3, <1>8, <2>2, <3>1, <4>1
    <3>2. CASE x # k
      <4>1. <<"grep", x>> # cmd /\ <<"uniq", x>> # cmd /\ x \in Keywords
        BY <1>1, <1>10, <3>2
      <4> QED
        BY <1>3, <1>8, <2>2, <3>2, <4>1
    <3> QED
      BY <3>1, <3>2
  <2>5. cmd \notin {<<"clean">>, <<"number">>, <<"rxpc">>, <<"use">>, <<"convert">>, <<"find">>}
    BY <1>10
  <2>6. Gathered(e, c, M)
    BY <1>3, <1>8, <2>2, <2>3, <2>4, <2>5 DEF Gathered, Q
  <2>7. Made(e, c, M, S)
    BY <1>3, <2>2, <2>5 DEF Made
  <2>8. Kept(e, S)
    BY <2>2 DEF Kept
  <2> QED
    BY <2>5, <2>6, <2>7, <2>8
<1>11. ASSUME NEW k \in Kw(c), cmd = <<"grep", k>>
       PROVE  Gathered(e, c, M) /\ Made(e, c, M, S) /\ Kept(e, S) /\ cmd # <<"find">>
  <2>1. e = [d EXCEPT !.list[k] = Read(d.tmp[k])]
    BY <1>11 DEF Effect, e
  <2>2. e.regexes = d.regexes /\ e.tmp = d.tmp /\ e.rxpc = d.rxpc
        /\ e.precompiled = d.precompiled /\ e.current = d.current /\ e.hyperscan = d.hyperscan
        /\ e.list[k] = Read(d.tmp[k]) /\ \A x \in Keywords \ {k} : e.list[x] = d.list[x]
    BY <1>1, <1>5, <2>1
  <2>3. e.list[k] = {<<k, c.n_rules>>}
    <3>1. Rank(<<"uniq", k>>) < Rank(cmd)
      BY <1>1, <1>11, RankOf
    <3>2. d.tmp[k] = {<<k, c.n_rules>>}
      BY <1>2, <1>3, <1>8, <3>1
    <3>3. {<<k, c.n_rules>>} \in SUBSET P
      BY <1>1
    <3> QED
      BY <1>4, <2>2, <3>2, <3>3
  <2>4. Q(M) = Q(L)
    <3>1. \A x \in Kw(c) : <<"append", x>> # cmd
      BY <1>11
    <3> QED
      BY <1>3, <3>1 DEF Q
  <2>5. ASSUME NEW x \in Kw(c)
        PROVE  /\ <<"uniq", x>> \notin M => e.tmp[x] = {<<x, c.n_rules>>}
               /\ <<"grep", x>> \notin M => e.list[x] = {<<x, c.n_rules>>}
    <3>1. <<"uniq", x>> # cmd
      BY <1>11
    <3>2. CASE x = k
      BY <1>3, <1>8, <2>2, <2>3, <3>1, <3>2
    <3>3. CASE x # k
      <4>1. <<"grep", x>> # cmd /\ x \in Keywords
        BY <1>1, <1>11, <3>3
      <4> QED
        BY <1>3, <1>8, <2>2, <3>1, <3>3, <4>1
    <3> QED
      BY <3>2, <3>3
  <2>6. cmd \notin {<<"clean">>, <<"number">>, <<"rxpc">>, <<"use">>, <<"convert">>, <<"find">>}
    BY <1>11
  <2>7. Gathered(e, c, M)
    BY <1>3, <1>8, <2>2, <2>4, <2>5, <2>6 DEF Gathered, Q
  <2>8. Made(e, c, M, S)
    BY <1>3, <2>2, <2>6 DEF Made
  <2>9. Kept(e, S)
    BY <2>2 DEF Kept
  <2> QED
    BY <2>6, <2>7, <2>8, <2>9
<1>12. ASSUME NEW k \in Kw(c), cmd = <<"append", k>>
       PROVE  Gathered(e, c, M) /\ Made(e, c, M, S) /\ Kept(e, S) /\ cmd # <<"find">>
  <2>1. e = [d EXCEPT !.regexes = Read(d.regexes) \cup Read(d.list[k])]
    BY <1>12 DEF Effect, e
  <2>2. e.regexes = Read(d.regexes) \cup Read(d.list[k]) /\ e.tmp = d.tmp /\ e.list = d.list
        /\ e.rxpc = d.rxpc /\ e.precompiled = d.precompiled /\ e.current = d.current
        /\ e.hyperscan = d.hyperscan
    BY <1>5, <2>1
  <2>3. d.list[k] = {<<k, c.n_rules>>} /\ Read(d.regexes) = Q(L)
    <3>1. Rank(<<"grep", k>>) < Rank(cmd) /\ Rank(<<"clean">>) < Rank(cmd)
      BY <1>1, <1>12, RankOf
    <3> QED
      BY <1>2, <1>3, <1>8, <3>1
  <2>4. Q(M) = Q(L) \cup {<<k, c.n_rules>>}
    <3>1. \A x \in Kw(c) : x # k => <<"append", x>> # cmd
      BY <1>12
    <3>2. \A x \in Kw(c) : <<"append", x>> \notin M <=> (<<"append", x>> \notin L \/ x = k)
      BY <1>3, <1>12, <3>1
    <3> QED
      BY <3>2 DEF Q
  <2>5. Read(e.regexes) = Q(M)
    <3>1. {<<k, c.n_rules>>} \in SUBSET P
      BY <1>1
    <3>2. e.regexes = Q(M)
      BY <1>4, <2>2, <2>3, <2>4, <3>1
    <3> QED
      BY <1>6, <3>2
  <2>6. \A x \in Kw(c) : <<"uniq", x>> # cmd /\ <<"grep", x>> # cmd
    BY <1>12
  <2>7. cmd \notin {<<"clean">>, <<"number">>, <<"rxpc">>, <<"use">>, <<"convert">>, <<"find">>}
    BY <1>12
  <2>8. Gathered(e, c, M)
    BY <1>3, <1>8, <2>2, <2>5, <2>6 DEF Gathered, Q
  <2>9. Made(e, c, M, S)
    BY <1>3, <2>2, <2>7 DEF Made
  <2>10. Kept(e, S)
    BY <2>2 DEF Kept
  <2> QED
    BY <2>7, <2>8, <2>9, <2>10
<1>13. cmd \in {<<"number">>, <<"find">>, <<"rxpc">>, <<"use">>, <<"convert">>} =>
          /\ Q(L) = P /\ Q(M) = P /\ Q({}) = P
          /\ Read(d.regexes) = P
          /\ \A k \in Kw(c) : d.tmp[k] = {<<k, c.n_rules>>} /\ d.list[k] = {<<k, c.n_rules>>}
  <2> SUFFICES ASSUME cmd \in {<<"number">>, <<"find">>, <<"rxpc">>, <<"use">>, <<"convert">>}
               PROVE  /\ Q(L) = P /\ Q(M) = P /\ Q({}) = P
                      /\ Read(d.regexes) = P
                      /\ \A k \in Kw(c) : d.tmp[k] = {<<k, c.n_rules>>} /\ d.list[k] = {<<k, c.n_rules>>}
    OBVIOUS
  <2>1. Rank(cmd) \in {7, 8, 9, 10}
    BY RankIs
  <2>2. ASSUME NEW k \in Kw(c)
        PROVE  /\ <<"uniq", k>> \notin L /\ <<"grep", k>> \notin L /\ <<"append", k>> \notin L
               /\ <<"append", k>> \notin M
    <3>1. /\ Rank(<<"uniq", k>>) < Rank(cmd) /\ Rank(<<"grep", k>>) < Rank(cmd)
          /\ Rank(<<"append", k>>) < Rank(cmd) /\ Rank(<<"append", k>>) <= Rank(cmd)
      BY <1>1, <2>1, RankOf
    <3> QED
      BY <1>2, <1>3, <3>1
  <2>3. <<"clean">> \notin L
    <3>1. Rank(<<"clean">>) < Rank(cmd)
      BY <2>1, RankIs
    <3> QED
      BY <1>2, <1>3, <3>1
  <2>4. Q(L) = P /\ Q(M) = P /\ Q({}) = P
    BY <1>1, <2>2 DEF Q
  <2> QED
    BY <1>8, <2>2, <2>3, <2>4
\* Once the lists are complete they stay so.
<1>14. ASSUME cmd \in {<<"number">>, <<"find">>, <<"rxpc">>, <<"use">>, <<"convert">>},
              e.regexes = d.regexes, e.tmp = d.tmp, e.list = d.list
       PROVE  Gathered(e, c, M) /\ Gathered(e, c, {})
  BY <1>13, <1>14 DEF Gathered, Q
<1>15. CASE cmd = <<"number">>
  <2>1. e = [d EXCEPT !.rxpc = Read(d.regexes)]
    BY <1>15 DEF Effect, e
  <2>2. e.regexes = d.regexes /\ e.tmp = d.tmp /\ e.list = d.list /\ e.rxpc = P
        /\ e.precompiled = d.precompiled /\ e.current = d.current /\ e.hyperscan = d.hyperscan
    BY <1>5, <1>13, <1>15, <2>1
  <2>3. Gathered(e, c, M)
    BY <1>14, <1>15, <2>2
  <2>4. Made(e, c, M, S)
    <3>1. cmd \notin {<<"rxpc">>, <<"use">>, <<"convert">>}
      BY <1>15
    <3> QED
      BY <1>3, <2>2, <3>1 DEF Made, P
  <2>5. Kept(e, S) /\ cmd # <<"find">>
    BY <1>15, <2>2 DEF Kept
  <2> QED
    BY <2>3, <2>4, <2>5 DEF e
<1>16. Compiles(c) => P # {} /\ ~Converts(c)
  BY <1>1 DEF Compiles, Converts
\* From here on the numbered list is that of the configuration.
<1>17. cmd \in {<<"find">>, <<"rxpc">>, <<"use">>} => d.rxpc = P
  <2> SUFFICES ASSUME cmd \in {<<"find">>, <<"rxpc">>, <<"use">>}
               PROVE  d.rxpc = P
    OBVIOUS
  <2>1. Rank(<<"number">>) < Rank(cmd)
    BY RankIs
  <2>2. Compiles(c)
    BY <1>7
  <2> QED
    BY <1>2, <1>3, <2>1, <2>2 DEF Made, P
<1>18. CASE cmd = <<"find">>
  <2> DEFINE F == At(d.precompiled, id)
  <2>1. e = IF F = NOFILE THEN d ELSE [d EXCEPT !.current = F]
    BY <1>18 DEF Effect, e, id
  <2> HIDE DEF F
  <2>2. e.regexes = d.regexes /\ e.tmp = d.tmp /\ e.list = d.list /\ e.rxpc = d.rxpc
        /\ e.precompiled = d.precompiled /\ e.hyperscan = d.hyperscan
        /\ e.current = IF F = NOFILE THEN d.current ELSE F
    BY <1>5, <2>1
  <2>3. Gathered(e, c, M) /\ Gathered(e, c, {})
    BY <1>14, <1>18, <2>2
  <2>4. Compiles(c) /\ ~Converts(c) /\ d.rxpc = P
    BY <1>7, <1>16, <1>17, <1>18
  <2>5. <<"rxpc">> \in M /\ <<"use">> \in M
    BY <1>2, <1>18, <2>4, RankIs
  <2>6. Made(e, c, M, S)
    BY <2>2, <2>4, <2>5 DEF Made, P
  <2>7. F # NOFILE /\ id \notin S => F = P
    <3>1. F # NOFILE => id \in DOMAIN d.precompiled /\ F = d.precompiled[id]
      BY DEF F, At
    <3> QED
      BY <1>1, <3>1 DEF Kept
  <2>8. F # NOFILE => Made(e, c, {}, S)
    <3> SUFFICES ASSUME F # NOFILE
                 PROVE  Made(e, c, {}, S)
      OBVIOUS
    <3>1. id \notin S => At(e.precompiled, id) = P /\ e.current = P
      BY <2>2, <2>7 DEF F
    <3> QED
      BY <2>2, <2>4, <3>1 DEF Made, P, id
  <2>9. Kept(e, S)
    BY <2>2 DEF Kept
  <2> QED
    BY <2>3, <2>6, <2>8, <2>9 DEF e, F, id
<1>19. CASE cmd = <<"rxpc">>
  <2>1. Compiles(c) /\ ~Converts(c) /\ d.rxpc = P /\ P # {}
    BY <1>7, <1>16, <1>17, <1>19
  <2>2. Read(d.rxpc) # {}
    BY <1>4, <2>1
  <2>3. e = [d EXCEPT !.precompiled = Put(d.precompiled, id, P)]
    BY <1>19, <2>1, <2>2 DEF Effect, e, id
  <2>4. e.regexes = d.regexes /\ e.tmp = d.tmp /\ e.list = d.list /\ e.rxpc = d.rxpc
        /\ e.precompiled = Put(d.precompiled, id, P) /\ e.current = d.current /\ e.hyperscan = d.hyperscan
    BY <1>5, <2>3
  <2>5. Gathered(e, c, M)
    BY <1>14, <1>19, <2>4
  <2>6. At(e.precompiled, id) = P
    BY <2>4 DEF At, Put
  <2>7. <<"use">> \in M
    BY <1>2, <1>19, <2>1, RankIs
  <2>8. Made(e, c, M, S)
    BY <2>1, <2>4, <2>6, <2>7 DEF Made, P, id
  <2>9. Kept(e, S)
    <3>1. ASSUME NEW x \in DOMAIN e.precompiled \ S
          PROVE  e.precompiled[x] = {<<k, x[1]>> : k \in x[2]}
      <4>1. CASE x = id
        BY <1>1, <2>4, <4>1 DEF Put
      <4>2. CASE x # id
        BY <2>4, <4>2 DEF Put, Kept
      <4> QED
        BY <4>1, <4>2
    <3> QED
      BY <3>1 DEF Kept
  <2>10. cmd # <<"find">>
    BY <1>19
  <2> QED
    BY <2>5, <2>8, <2>9, <2>10 DEF e
<1>20. CASE cmd = <<"use">>
  <2> DEFINE F == At(d.precompiled, id)
  <2>1. e = IF F = NOFILE THEN d ELSE [d EXCEPT !.current = F]
    BY <1>20 DEF Effect, e, id
  <2> HIDE DEF F
  <2>2. e.regexes = d.regexes /\ e.tmp = d.tmp /\ e.list = d.list /\ e.rxpc = d.rxpc
        /\ e.precompiled = d.precompiled /\ e.hyperscan = d.hyperscan
        /\ e.current = IF F = NOFILE THEN d.current ELSE F
    BY <1>5, <2>1
  <2>3. Gathered(e, c, M)
    BY <1>14, <1>20, <2>2
  <2>4. Compiles(c) /\ ~Converts(c) /\ d.rxpc = P
    BY <1>7, <1>16, <1>17, <1>20
  <2>5. id \notin S => F = P
    <3>1. Rank(<<"rxpc">>) < Rank(cmd)
      BY <1>20, RankIs
    <3>2. <<"rxpc">> \notin L
      BY <1>2, <1>3, <2>4, <3>1
    <3> QED
      BY <2>4, <3>2 DEF Made, P, F, id
  <2>6. P # NOFILE
    BY <1>4
  <2>7. Made(e, c, M, S)
    <3>1. id \notin S => At(e.precompiled, id) = P /\ e.current = P
      BY <2>2, <2>5, <2>6 DEF F
    <3> QED
      BY <2>2, <2>4, <3>1 DEF Made, P, id
  <2>8. Kept(e, S) /\ cmd # <<"find">>
    BY <1>20, <2>2 DEF Kept
  <2> QED
    BY <2>3, <2>7, <2>8 DEF e
<1>21. CASE cmd = <<"convert">>
  <2>1. e = [d EXCEPT !.hyperscan = Read(d.regexes)]
    BY <1>21 DEF Effect, e
  <2>2. e.regexes = d.regexes /\ e.tmp = d.tmp /\ e.list = d.list /\ e.rxpc = d.rxpc
        /\ e.precompiled = d.precompiled /\ e.current = d.current /\ e.hyperscan = P
    BY <1>5, <1>13, <1>21, <2>1
  <2>3. Gathered(e, c, M)
    BY <1>14, <1>21, <2>2
  <2>4. ~Compiles(c)
    BY <1>7, <1>16, <1>21
  <2>5. Made(e, c, M, S)
    BY <2>2, <2>4 DEF Made, P
  <2>6. Kept(e, S) /\ cmd # <<"find">>
    BY <1>21, <2>2 DEF Kept
  <2> QED
    BY <2>3, <2>5, <2>6 DEF e
<1>22. CASE cmd \in {<<"clean">>, <<"number">>, <<"find">>, <<"rxpc">>, <<"use">>, <<"convert">>}
  BY <1>9, <1>15, <1>18, <1>19, <1>20, <1>21, <1>22
<1>23. CASE \E k \in Kw(c) : cmd \in {<<"uniq", k>>, <<"grep", k>>, <<"append", k>>}
  BY <1>10, <1>11, <1>12, <1>23 DEF e
<1> QED
  BY <1>7, <1>22, <1>23

-----------------------------------------------------------------------------
(* The rules of a run.                                                     *)

\* A script that runs alone has got as far as it should; the others compile under
\* names that are known to be shared.
RulesInv ==
    /\ \A j \in DOMAIN jobs : jobs[j].cfg \in Ruled(file)
    /\ Len(jobs) = 1 => /\ Gathered(dir, jobs[1].cfg, Left(jobs[1].todo))
                        /\ Made(dir, jobs[1].cfg, Left(jobs[1].todo), shared)
    /\ Len(jobs) # 1 => \A j \in DOMAIN jobs : jobs[j].todo # <<>> => CurrId(jobs[j].cfg) \in shared
    /\ Kept(dir, shared)
    /\ shared \subseteq {CurrId(c) : c \in Ruled(file)}

\* The rules of one are those of the other.
Alike(c, e) == CurrId(c) = CurrId(e) /\ c.rgx_enabled = e.rgx_enabled /\ c.hs_enabled = e.hs_enabled

\* The script the callback started alone is for the rules of the last configuration.
PreparedInv ==
    prepared =>
        /\ pc \in {"next", "run", "export", "save", "done"}
        /\ pc # "done" =>
              /\ Len(jobs) = 1 /\ prev \in Configs
              /\ Said[file].varied \cap RuleParams \subseteq Triggers => Alike(jobs[1].cfg, prev)

LEMMA FreshJob ==
    ASSUME NEW c, NEW d, NEW S
    PROVE  /\ NewJob(c).cfg = c /\ NewJob(c).todo # <<>>
           /\ Gathered(d, c, Left(NewJob(c).todo)) /\ Made(d, c, Left(NewJob(c).todo), S)
<1>1. NewJob(c).cfg = c /\ NewJob(c).todo = Script(c)
  BY DEF NewJob
<1>2. Left(Script(c)) = Asked(c)
  BY ScriptOrder DEF Ordered
<1>3. /\ \A k \in Kw(c) : <<"uniq", k>> \in Asked(c) /\ <<"grep", k>> \in Asked(c)
      /\ Compiles(c) => {<<"number">>, <<"rxpc">>, <<"use">>} \subseteq Asked(c)
      /\ Converts(c) => <<"convert">> \in Asked(c)
      /\ <<"clean">> \in Asked(c)
  BY DEF Asked, Compiles, Converts
<1>4. Gathered(d, c, Asked(c)) /\ Made(d, c, Asked(c), S)
  BY <1>3 DEF Gathered, Made
<1>5. Left(<<>>) = {}
  BY DEF Left
<1> QED
  BY <1>1, <1>2, <1>3, <1>4, <1>5

\* Several scripts at once.
LEMMA CompanyIs ==
    ASSUME NEW s, IsList(s), \A j \in DOMAIN s : s[j].todo # <<>>
    PROVE  /\ Company(s) \subseteq {CurrId(s[j].cfg) : j \in DOMAIN s}
           /\ Len(s) # 1 => \A j \in DOMAIN s : CurrId(s[j].cfg) \in Company(s)
<1> DEFINE busy == {j \in DOMAIN s : s[j].todo # <<>>}
<1>1. busy = DOMAIN s /\ DOMAIN s = 1 .. Len(s) /\ Len(s) \in Nat
  BY ListIsSeq DEF IsList
<1>2. Company(s) = IF \E i, j \in DOMAIN s : i # j THEN {CurrId(s[j].cfg) : j \in DOMAIN s} ELSE {}
  BY <1>1 DEF Company
<1>3. ASSUME Len(s) # 1, NEW j \in DOMAIN s
      PROVE  \E i, k \in DOMAIN s : i # k
  <2>1. 1 \in DOMAIN s /\ 2 \in DOMAIN s /\ 1 # 2
    BY <1>1, <1>3
  <2> QED
    BY <2>1
<1> QED
  BY <1>2, <1>3

LEMMA RunningIs ==
    ASSUME IsList(jobs)
    PROVE  Running \in Seq({jobs[j] : j \in {i \in DOMAIN jobs : jobs[i].todo # <<>>}})
<1> DEFINE S == {jobs[i] : i \in DOMAIN jobs}
           K == {i \in DOMAIN jobs : jobs[i].todo # <<>>}
           T == {jobs[j] : j \in K}
<1>1. jobs \in Seq(S) /\ K \subseteq DOMAIN jobs
  BY ListIsSeq
<1> HIDE DEF S, K
<1>2. IsFiniteSet(K) /\ K \subseteq Nat
  BY <1>1, SelectType
<1>3. Cardinality(K) \in Nat /\ \A n \in 1 .. Cardinality(K) : Nth(K, n) \in K
  BY <1>2, NthIs
<1>4. Select(jobs, K) \in Seq(T)
  BY <1>3 DEF Select
<1> QED
  BY <1>4 DEF Running, K

\* A script of another name leaves what was put aside.
LEMMA EffectElsewhere ==
    ASSUME NEW d, GoodDir(d), NEW c, NEW cmd \in Commands, NEW S, CurrId(c) \in S, Kept(d, S)
    PROVE  Kept(Effect(d, c, cmd), S)
<1> DEFINE id == CurrId(c)
           e  == Effect(d, c, cmd)
<1>1. d = [tmp |-> d.tmp, list |-> d.list, regexes |-> d.regexes, rxpc |-> d.rxpc,
           precompiled |-> d.precompiled, current |-> d.current, hyperscan |-> d.hyperscan]
  BY DEF GoodDir
<1>2. e.precompiled \in {d.precompiled, Put(d.precompiled, id, d.rxpc)}
  <2>1. CASE cmd = <<"clean">>
    BY <1>1, <2>1 DEF Effect
  <2>2. ASSUME NEW k \in Keywords, cmd = <<"uniq", k>>
        PROVE  e.precompiled = d.precompiled
    BY <1>1, <2>2 DEF Effect
  <2>3. ASSUME NEW k \in Keywords, cmd = <<"grep", k>>
        PROVE  e.precompiled = d.precompiled
    BY <1>1, <2>3 DEF Effect
  <2>4. ASSUME NEW k \in Keywords, cmd = <<"append", k>>
        PROVE  e.precompiled = d.precompiled
    BY <1>1, <2>4 DEF Effect
  <2>5. CASE cmd = <<"number">>
    BY <1>1, <2>5 DEF Effect
  <2>6. CASE cmd \in {<<"find">>, <<"use">>}
    BY <1>1, <2>6 DEF Effect
  <2>7. CASE cmd = <<"rxpc">>
    BY <1>1, <2>7 DEF Effect
  <2>8. CASE cmd = <<"convert">>
    BY <1>1, <2>8 DEF Effect
  <2> HIDE DEF e
  <2> QED
    BY <2>1, <2>2, <2>3, <2>4, <2>5, <2>6, <2>7, <2>8 DEF Commands
<1> HIDE DEF e, id
<1>3. ASSUME NEW x \in DOMAIN e.precompiled \ S
      PROVE  x \in DOMAIN d.precompiled \ S /\ e.precompiled[x] = d.precompiled[x]
  <2>1. x # id
    BY DEF id
  <2> QED
    BY <1>2, <2>1 DEF Put
<1>4. Kept(e, S)
  BY <1>3 DEF Kept
<1> QED
  BY <1>4 DEF e

LEMMA JobStepIsRight ==
    ASSUME SeriesInv, PrepInv, RulesInv, NEW j \in DOMAIN jobs, JobStep(j), UNCHANGED <<file, shared>>
    PROVE  /\ RulesInv'
           /\ Len(jobs') = Len(jobs) /\ \A i \in DOMAIN jobs : jobs'[i].cfg = jobs[i].cfg
<1> DEFINE c == jobs[j].cfg
           t == jobs[j].todo
           u == Rest(dir, c, t)
<1>1. /\ IsList(jobs) /\ GoodJob(jobs[j]) /\ jobs[j] = [cfg |-> c, todo |-> t]
      /\ DOMAIN jobs = 1 .. Len(jobs) /\ Len(jobs) \in Nat /\ GoodDir(dir)
  BY ListIsSeq DEF PrepInv, GoodJobs, GoodJob, IsList
<1>2. PICK n \in 0 .. Len(Script(c)) : t = SubSeq(Script(c), n + 1, Len(Script(c)))
  BY <1>1 DEF GoodJob
<1>3. t # <<>> /\ dir' = Effect(dir, c, Head(t)) /\ jobs' = [jobs EXCEPT ![j].todo = u]
  BY DEF JobStep
<1> HIDE DEF c, t, u
<1>4. jobs' = [i \in 1 .. Len(jobs) |-> IF i = j THEN [cfg |-> c, todo |-> u] ELSE jobs[i]]
  <2>1. jobs = [i \in 1 .. Len(jobs) |-> jobs[i]]
    BY <1>1 DEF IsList
  <2>2. [jobs[j] EXCEPT !.todo = u] = [cfg |-> c, todo |-> u]
    BY <1>1
  <2> QED
    BY <1>3, <2>1, <2>2
<1>5. /\ DOMAIN jobs' = 1 .. Len(jobs) /\ Len(jobs') = Len(jobs)
      /\ jobs'[j] = [cfg |-> c, todo |-> u] /\ \A i \in 1 .. Len(jobs) : i # j => jobs'[i] = jobs[i]
  BY <1>1, <1>4
<1>6. \A i \in DOMAIN jobs : jobs'[i].cfg = jobs[i].cfg
  BY <1>1, <1>5 DEF c
<1>7. c \in Ruled(file) /\ Kept(dir, shared) /\ file \in Files
  BY DEF RulesInv, c, SeriesInv, Types
<1>8. /\ Head(t) \in Asked(c)
      /\ Left(t) = {x \in Asked(c) : Rank(x) >= Rank(Head(t))}
      /\ Left(Tail(t)) = {x \in Asked(c) : Rank(x) > Rank(Head(t))}
  <2>1. Unfinished(c, t)
    BY <1>2, <1>3 DEF Unfinished
  <2> QED
    BY <2>1, LeftIs
<1>9. Head(t) \in Commands
  <2>1. \A x \in Asked(c) : x \in Commands
    <3>1. Script(c) \in Seq(Commands) /\ Left(Script(c)) = Asked(c)
      BY ScriptOrder DEF Ordered
    <3> HIDE DEF Commands
    <3> QED
      BY <3>1 DEF Left
  <2> QED
    BY <1>8, <2>1
<1>10. \A i \in DOMAIN jobs' : jobs'[i].cfg \in Ruled(file')
  BY <1>1, <1>5, <1>6 DEF RulesInv
<1>11. CASE Len(jobs) = 1
  <2>1. j = 1 /\ jobs[1].cfg = c /\ jobs[1].todo = t
    BY <1>1, <1>11 DEF c, t
  <2>2. Gathered(dir, c, Left(t)) /\ Made(dir, c, Left(t), shared)
    BY <1>11, <2>1 DEF RulesInv
  <2>3. \A F \in SUBSET PatternsOf(c) : F # NOFILE
    BY <1>7, NoFileAssumption DEF AllRuled
  <2>4. /\ Gathered(dir', c, Left(Tail(t)))
        /\ Made(dir', c, Left(Tail(t)), shared)
        /\ Head(t) = <<"find">> /\ At(dir.precompiled, CurrId(c)) # NOFILE =>
              Gathered(dir', c, {}) /\ Made(dir', c, {}, shared)
        /\ Kept(dir', shared)
    BY <1>1, <1>3, <1>7, <1>8, <2>2, <2>3, EffectIsRight
  <2>5. Gathered(dir', c, Left(u)) /\ Made(dir', c, Left(u), shared)
    <3>1. CASE t[1][1] = "find" /\ At(dir.precompiled, CurrId(c)) # NOFILE
      <4>1. u = <<>> /\ Left(u) = {}
        BY <3>1 DEF u, Rest, Left
      <4>2. Head(t) = <<"find">>
        <5>1. Head(t) = t[1]
          BY <1>3
        <5> QED
          BY <1>9, <3>1, <5>1 DEF Commands
      <4> QED
        BY <2>4, <3>1, <4>1, <4>2
    <3>2. CASE ~(t[1][1] = "find" /\ At(dir.precompiled, CurrId(c)) # NOFILE)
      <4>1. u = Tail(t)
        BY <3>2 DEF u, Rest
      <4> QED
        BY <2>4, <4>1
    <3> QED
      BY <3>1, <3>2
  <2>6. jobs'[1].cfg = c /\ jobs'[1].todo = u /\ Len(jobs') = 1 /\ shared' = shared
    BY <1>5, <1>11, <2>1
  <2>7. RulesInv'
    BY <1>10, <2>4, <2>5, <2>6 DEF RulesInv
  <2> QED
    BY <1>5, <1>6, <2>7
<1>12. CASE Len(jobs) # 1
  <2>1. \A i \in DOMAIN jobs : jobs[i].todo # <<>> => CurrId(jobs[i].cfg) \in shared
    BY <1>12 DEF RulesInv
  <2>2. CurrId(c) \in shared
    BY <1>3, <2>1 DEF c, t
  <2>3. Kept(dir', shared)
    BY <1>1, <1>3, <1>7, <1>9, <2>2, EffectElsewhere
  <2>4. \A i \in DOMAIN jobs' : jobs'[i].todo # <<>> => CurrId(jobs'[i].cfg) \in shared'
    BY <1>1, <1>5, <2>1, <2>2
  <2>5. RulesInv'
    BY <1>5, <1>10, <1>12, <2>3, <2>4 DEF RulesInv
  <2> QED
    BY <1>5, <1>6, <2>5
<1> QED
  BY <1>11, <1>12

\* Without a trigger the rules asked for stay the same, when no other parameter of
\* theirs varies.
LEMMA SameRules ==
    ASSUME file \in Files, NEW p \in Configs, NEW c \in Configs,
           {k \in DOMAIN p : p[k] # c[k]} \cap Triggers = {},
           Said[file].varied \cap RuleParams \subseteq Triggers
    PROVE  Alike(p, c)
<1> DEFINE Names == {file.params[k][1] : k \in DOMAIN file.params}
<1>1. /\ DOMAIN p = Names /\ DOMAIN c = Names /\ Admitted(file, p) /\ Admitted(file, c)
      /\ Needed \subseteq Names
  BY ConfigIs, FilesAssumption DEF Configs
<1>2. {p, c} \subseteq AllConfigs
  BY DEF Configs, AllConfigs
<1>3. ASSUME NEW k \in Names, k \in RuleParams
      PROVE  p[k] = c[k]
  <2>1. CASE k \in Said[file].varied
    BY <1>1, <1>3, <2>1
  <2>2. CASE k \notin Said[file].varied
    <3> DEFINE P == PlanOf(file)
               V == {P[i][k] : i \in DOMAIN P}
    <3>1. ~(Cardinality(V) > 1)
      BY <1>3, <2>2 DEF Said, Varied
    <3>2. p[k] \in V /\ c[k] \in V
      BY DEF Configs, Said
    <3>3. IsFiniteSet(V)
      <4>0. P \in Seq({P[i] : i \in DOMAIN P})
        BY PlanRepeats
      <4> HIDE DEF P
      <4>1. DOMAIN P = 1 .. Len(P) /\ Len(P) \in Nat
        BY <4>0
      <4>2. IsFiniteSet(DOMAIN P)
        BY <4>1, FS_Interval
      <4> DEFINE g == [i \in DOMAIN P |-> P[i][k]]
      <4>3. g \in Surjection(DOMAIN P, V)
        BY DEF Surjection
      <4> HIDE DEF V, g
      <4> QED
        BY <4>2, <4>3, FS_Surjection
    <3> HIDE DEF V
    <3>4. SUFFICES ASSUME p[k] # c[k]
                   PROVE  FALSE
      OBVIOUS
    <3> DEFINE x == p[k]
               y == c[k]
    <3> HIDE DEF x, y
    <3>5. x # y /\ {x, y} \subseteq V
      BY <3>2, <3>4 DEF x, y
    <3>6. Cardinality({x, y}) = 2
      <4>1. IsFiniteSet({x}) /\ Cardinality({x}) = 1
        BY FS_Singleton
      <4>2. Cardinality({x} \cup {y}) = Cardinality({x}) + 1
        BY <3>5, <4>1, FS_AddElement
      <4>3. {x} \cup {y} = {x, y}
        OBVIOUS
      <4> QED
        BY <4>1, <4>2, <4>3
    <3>7. Cardinality({x, y}) <= Cardinality(V) /\ Cardinality(V) \in Nat
      BY <3>3, <3>5, FS_Subset, FS_CardinalityType
    <3> QED
      BY <3>1, <3>6, <3>7
  <2> QED
    BY <2>1, <2>2
<1>4. /\ p["n_rules"] = c["n_rules"] /\ p["rgx_enabled"] = c["rgx_enabled"]
      /\ p["rules_use_content_kw"] = c["rules_use_content_kw"]
      /\ p["rules_use_pcre_kw"] = c["rules_use_pcre_kw"]
  BY <1>1, <1>3 DEF Needed, RuleParams
<1>5. Ratio(p) = Ratio(c)
  <2>1. CASE "rule_subset_ratio" \in Names
    <3>1. p["rule_subset_ratio"] = c["rule_subset_ratio"]
      BY <1>3, <2>1 DEF RuleParams
    <3> QED
      BY <1>1, <2>1, <3>1 DEF Ratio
  <2>2. CASE "rule_subset_ratio" \notin Names
    BY <1>1, <2>2 DEF Ratio
  <2> QED
    BY <2>1, <2>2
<1>6. Kw(p) = Kw(c)
  BY <1>4 DEF Kw
<1>7. CurrId(p) = CurrId(c)
  BY <1>4, <1>5, <1>6 DEF CurrId
<1>8. p.hs_enabled = c.hs_enabled
  <2>1. /\ p.rgx_enabled \in {0, 1} /\ p.hs_enabled \in {0, 1}
        /\ c.rgx_enabled \in {0, 1} /\ c.hs_enabled \in {0, 1}
    BY <1>2, FlagsAssumption
  <2>2. p.rgx_enabled + p.hs_enabled = 1 /\ c.rgx_enabled + c.hs_enabled = 1
    BY <1>1 DEF Admitted
  <2> QED
    BY <1>4, <2>1, <2>2
<1> QED
  BY <1>4, <1>7, <1>8 DEF Alike

\* The callback, whether it starts a script or not.
LEMMA NextParamsIsRight ==
    ASSUME SeriesInv, PrepInv, RulesInv, PreparedInv, NextParams
    PROVE  RulesInv' /\ PreparedInv'
<1> DEFINE c == Head(sets)
           s == Append(Running, NewJob(c))
           R == {jobs[j] : j \in {i \in DOMAIN jobs : jobs[i].todo # <<>>}}
           T == R \cup {NewJob(c)}
<1>1. /\ file \in Files /\ file' = file /\ dir' = dir
      /\ pc = "next" /\ pc' = "run"
      /\ sets \in Seq(Configs) /\ sets # <<>> /\ prev' = c
  BY DEF NextParams, PopParams, ProcessParameters, SeriesInv, Types
<1>2. c \in Configs /\ Configs \subseteq Ruled(file)
  BY <1>1 DEF Configs, Ruled
<1>3. NewJob(c).cfg = c /\ NewJob(c).todo # <<>>
  BY FreshJob
<1>4. Running \in Seq(R)
  BY RunningIs DEF PrepInv, GoodJobs
<1>5. \A x \in T : x.todo # <<>> /\ x.cfg \in Ruled(file)
  BY <1>2, <1>3 DEF RulesInv
<1> HIDE DEF R
<1>6. s \in Seq(T) /\ Len(s) = Len(Running) + 1 /\ Len(Running) \in Nat
  BY <1>4
<1>7. Running = <<>> => s[1] = NewJob(c)
  OBVIOUS
<1>8. Len(s) = 1 <=> Running = <<>>
  BY <1>4, <1>6
<1> HIDE DEF T, s, c
<1>9. IsList(s) /\ \A j \in DOMAIN s : s[j].todo # <<>> /\ s[j].cfg \in Ruled(file)
  <2>1. IsList(s) /\ \A j \in DOMAIN s : s[j] \in T
    BY <1>6, SeqIsList
  <2> QED
    BY <1>5, <2>1
<1>10. CASE ParamDiff(c) \cap Triggers # {}
  <2>1. jobs' = s /\ prepared' = (Running = <<>>) /\ shared' = shared \cup Company(s)
    BY <1>10 DEF NextParams, ProcessParameters, c, s
  <2>2. /\ Company(s) \subseteq {CurrId(s[j].cfg) : j \in DOMAIN s}
        /\ Len(s) # 1 => \A j \in DOMAIN s : CurrId(s[j].cfg) \in Company(s)
    BY <1>9, CompanyIs
  <2>3. Company(s) \subseteq {CurrId(e) : e \in Ruled(file)}
    BY <1>9, <2>2
  <2>4. Kept(dir', shared')
    BY <1>1, <2>1 DEF Kept, RulesInv
  <2>5. ASSUME Len(s) = 1
        PROVE  /\ Gathered(dir', s[1].cfg, Left(s[1].todo))
               /\ Made(dir', s[1].cfg, Left(s[1].todo), shared')
    <3>1. s[1] = NewJob(c)
      BY <1>7, <1>8, <2>5
    <3> QED
      BY <1>3, <3>1, FreshJob
  <2>6. \A j \in DOMAIN jobs' : jobs'[j].cfg \in Ruled(file')
    BY <1>1, <1>9, <2>1
  <2>7. shared' \subseteq {CurrId(e) : e \in Ruled(file')}
    BY <1>1, <2>1, <2>3 DEF RulesInv
  <2>8. Len(s) # 1 => \A j \in DOMAIN s : CurrId(s[j].cfg) \in shared'
    BY <2>1, <2>2
  <2>9. RulesInv'
    BY <2>1, <2>4, <2>5, <2>6, <2>7, <2>8 DEF RulesInv
  <2>10. PreparedInv'
    <3> SUFFICES ASSUME prepared'
                 PROVE  Len(s) = 1 /\ prev' \in Configs' /\ Alike(s[1].cfg, prev')
      BY <1>1, <2>1 DEF PreparedInv
    <3>1. Running = <<>>
      BY <2>1
    <3>2. Len(s) = 1 /\ s[1].cfg = c
      BY <1>3, <1>7, <1>8, <3>1
    <3>3. prev' = c /\ c \in Configs'
      BY <1>1, <1>2, SameFile
    <3> QED
      BY <3>2, <3>3 DEF Alike
  <2> QED
    BY <2>9, <2>10
<1>11. CASE ParamDiff(c) \cap Triggers = {}
  <2>1. UNCHANGED <<jobs, prepared, shared>>
    BY <1>11 DEF NextParams, ProcessParameters, c
  <2>2. RulesInv'
    BY <1>1, <2>1 DEF RulesInv
  <2>3. PreparedInv'
    <3> SUFFICES ASSUME prepared
                 PROVE  /\ Len(jobs) = 1 /\ prev' \in Configs'
                        /\ Said[file].varied \cap RuleParams \subseteq Triggers => Alike(jobs[1].cfg, prev')
      BY <1>1, <2>1 DEF PreparedInv
    <3>1. /\ Len(jobs) = 1 /\ prev \in Configs
          /\ Said[file].varied \cap RuleParams \subseteq Triggers => Alike(jobs[1].cfg, prev)
      BY <1>1 DEF PreparedInv
    <3>2. prev # NONE
      BY <1>1, <3>1, NoneAssumption DEF AllConfigs, Configs
    <3>3. {k \in DOMAIN prev : prev[k] # c[k]} \cap Triggers = {}
      BY <1>11, <3>2 DEF ParamDiff
    <3>4. Said[file].varied \cap RuleParams \subseteq Triggers => Alike(prev, c)
      BY <1>1, <1>2, <3>1, <3>3, SameRules
    <3>5. prev' = c /\ c \in Configs'
      BY <1>1, <1>2, SameFile
    <3> QED
      BY <3>1, <3>4, <3>5 DEF Alike
  <2> QED
    BY <2>2, <2>3
<1> QED
  BY <1>10, <1>11

\* setup() has killed the scripts and removed the directory.
NewDir == pc = "precompile" => jobs = <<>> /\ DOMAIN dir.precompiled = {}

LEMMA PrecompileIsRight ==
    ASSUME SeriesInv, PrepInv, RulesInv, PreparedInv, NewDir, Precompile
    PROVE  RulesInv' /\ PreparedInv'
<1> DEFINE s == [j \in DOMAIN Precompiled |-> NewJob(Precompiled[j])]
<1>1. /\ file \in Files /\ file' = file /\ dir' = dir /\ prepared' = prepared
      /\ pc = "precompile" /\ jobs' = s /\ shared' = Company(s)
  BY DEF Precompile, memory, SeriesInv, Types
<1>2. IsList(Precompiled) /\ DOMAIN Precompiled = 1 .. Len(Precompiled) /\ Len(Precompiled) \in Nat
  BY <1>1, PrecompiledIs, ListIsSeq DEF IsList
<1>3. \A j \in DOMAIN Precompiled : Precompiled[j] \in Ruled(file)
  BY DEF Precompiled, Ruled
<1> HIDE DEF Precompiled
<1>4. /\ IsList(s) /\ DOMAIN s = DOMAIN Precompiled
      /\ \A j \in DOMAIN s : s[j] = NewJob(Precompiled[j])
  BY <1>2 DEF IsList
<1> HIDE DEF s
<1>5. \A j \in DOMAIN s : s[j].todo # <<>> /\ s[j].cfg \in Ruled(file)
  BY <1>3, <1>4, FreshJob
<1>6. /\ Company(s) \subseteq {CurrId(s[j].cfg) : j \in DOMAIN s}
      /\ Len(s) # 1 => \A j \in DOMAIN s : CurrId(s[j].cfg) \in Company(s)
  BY <1>4, <1>5, CompanyIs
<1>7. Company(s) \subseteq {CurrId(e) : e \in Ruled(file)}
  BY <1>5, <1>6
<1>8. ASSUME Len(s) = 1
      PROVE  /\ Gathered(dir', s[1].cfg, Left(s[1].todo))
             /\ Made(dir', s[1].cfg, Left(s[1].todo), shared')
  <2>1. 1 \in DOMAIN s
    BY <1>4, <1>8, ListIsSeq
  <2> QED
    BY <1>4, <2>1, FreshJob
\* The directory is new: nothing has been put aside.
<1>9. Kept(dir', shared')
  BY <1>1 DEF NewDir, Kept
<1>10. RulesInv'
  BY <1>1, <1>5, <1>6, <1>7, <1>8, <1>9 DEF RulesInv
<1>11. PreparedInv'
  BY <1>1 DEF PreparedInv
<1> QED
  BY <1>10, <1>11

LEMMA RulesStep ==
    ASSUME SeriesInv, PrepInv, RulesInv, PreparedInv, NewDir, [Next]_vars
    PROVE  RulesInv' /\ PreparedInv' /\ NewDir'
<1>1. CASE LoadFile \/ RunFails \/ Ended \/ UNCHANGED vars
  <2>1. /\ UNCHANGED <<file, prev, prepared, shared, dir, jobs>>
        /\ pc' = pc \/ (pc = "off" /\ pc' = "refused")
    BY <1>1 DEF LoadFile, RunFails, Ended, vars, memory, ghosts, prepVars
  <2>2. RulesInv'
    BY <2>1 DEF RulesInv
  <2>3. PreparedInv' /\ NewDir'
    BY <2>1, SameFile DEF PreparedInv, NewDir
  <2> QED
    BY <2>2, <2>3
<1>2. CASE Start
  <2>1. UNCHANGED <<file, shared, dir, jobs>> /\ ~prepared' /\ pc' = "setup"
    BY <1>2 DEF Start, prepVars
  <2>2. RulesInv'
    BY <2>1 DEF RulesInv
  <2> QED
    BY <2>1, <2>2 DEF PreparedInv, NewDir
<1>3. CASE Setup
  <2>1. /\ pc = "setup" /\ file' = file /\ prepared' = prepared
        /\ jobs' = <<>> /\ dir' = EmptyDir /\ shared' = {}
    BY <1>3 DEF Setup, StopPanes, CleanDir, memory
  <2>2. DOMAIN jobs' = {} /\ Len(jobs') # 1
    BY <2>1
  <2>3. DOMAIN dir'.precompiled = {}
    BY <2>1 DEF EmptyDir
  <2>4. RulesInv'
    BY <2>1, <2>2, <2>3 DEF RulesInv, Kept
  <2> QED
    BY <2>1, <2>3, <2>4 DEF PreparedInv, NewDir
<1>4. CASE Precompile
  <2>1. pc' = "next"
    BY <1>4 DEF Precompile
  <2> QED
    BY <1>4, <2>1, PrecompileIsRight DEF NewDir
<1>5. CASE NextParams
  <2>1. pc' = "run"
    BY <1>5 DEF NextParams
  <2> QED
    BY <1>5, <2>1, NextParamsIsRight DEF NewDir
<1>6. CASE RunInvalid \/ RunValid \/ ExportCsv \/ SaveState
  <2>1. /\ UNCHANGED <<file, prev, prepared, shared, dir, jobs>>
        /\ pc \in {"run", "export", "save"} /\ pc' \in {"run", "export", "save", "next"}
    BY <1>6 DEF RunInvalid, RunValid, ExportCsv, SaveState, memory, ghosts, prepVars
  <2>2. RulesInv'
    BY <2>1 DEF RulesInv
  <2>3. PreparedInv'
    BY <2>1, SameFile DEF PreparedInv
  <2>4. NewDir'
    BY <2>1 DEF NewDir
  <2> QED
    BY <2>2, <2>3, <2>4
<1>7. CASE Finish
  <2>1. /\ UNCHANGED <<file, prev, prepared, shared, dir>> /\ jobs' = <<>>
        /\ pc = "next" /\ pc' = "done"
    BY <1>7 DEF Finish, StopPanes, memory, ghosts
  <2>2. DOMAIN jobs' = {} /\ Len(jobs') # 1
    BY <2>1
  <2>3. RulesInv'
    BY <2>1, <2>2 DEF RulesInv
  <2> QED
    BY <2>1, <2>3 DEF PreparedInv, NewDir
<1>8. CASE Shell
  <2>1. PICK j \in DOMAIN jobs : JobStep(j)
    BY <1>8 DEF Shell
  <2>2. UNCHANGED <<file, pc, prev, prepared, shared>>
    BY <1>8 DEF Shell, memory, ghosts
  <2>3. /\ RulesInv'
        /\ Len(jobs') = Len(jobs) /\ \A i \in DOMAIN jobs : jobs'[i].cfg = jobs[i].cfg
    BY <2>1, <2>2, JobStepIsRight
  <2>4. Len(jobs) = 1 => jobs'[1].cfg = jobs[1].cfg
    BY <2>3, ListIsSeq DEF PrepInv, GoodJobs
  <2>5. PreparedInv'
    BY <2>2, <2>3, <2>4, SameFile DEF PreparedInv
  <2>6. NewDir'
    BY <2>1, <2>2 DEF NewDir
  <2> QED
    BY <2>3, <2>5, <2>6
<1>9. CASE Crash \/ UploadFails \/ BuildFails
  <2>1. UNCHANGED <<file, shared, dir>> /\ jobs' = <<>> /\ ~prepared' /\ pc' = "off"
    BY <1>9 DEF Crash, UploadFails, BuildFails, Stop
  <2>2. DOMAIN jobs' = {} /\ Len(jobs') # 1
    BY <2>1
  <2>3. RulesInv'
    BY <2>1, <2>2 DEF RulesInv
  <2> QED
    BY <2>1, <2>3 DEF PreparedInv, NewDir
<1> QED
  BY <1>1, <1>2, <1>3, <1>4, <1>5, <1>6, <1>7, <1>8, <1>9 DEF Next, Main

THEOREM RulesInvariant == Spec => [](RulesInv /\ PreparedInv /\ NewDir)
<1>1. Init => RulesInv /\ PreparedInv /\ NewDir
  <2> SUFFICES ASSUME Init
               PROVE  RulesInv /\ PreparedInv /\ NewDir
    OBVIOUS
  <2>1. dir = EmptyDir /\ jobs = <<>> /\ shared = {} /\ pc = "off" /\ ~prepared
    BY DEF Init, PrepInit
  <2>2. DOMAIN jobs = {} /\ Len(jobs) # 1 /\ DOMAIN dir.precompiled = {}
    BY <2>1 DEF EmptyDir
  <2> QED
    BY <2>1, <2>2 DEF RulesInv, Kept, PreparedInv, NewDir
<1>2. SeriesInv /\ PrepInv /\ RulesInv /\ PreparedInv /\ NewDir /\ [Next]_vars
      => RulesInv' /\ PreparedInv' /\ NewDir'
  BY RulesStep
<1> QED
  BY <1>1, <1>2, SeriesInvariant, PrepInvariant, PTL DEF Spec

\* The columns, files, counters and commands always have the values the code gives
\* them: the configurations in memory, in the rows and in the saved state are those of
\* the parameter file, every file of the rules holds patterns, every script that runs is
\* at one of its commands, and compiles under a name of the file's.
THEOREM TypeCorrect == Spec => []TypeOK
<1>1. SeriesInv /\ PrepInv /\ RulesInv => TypeOK
  <2> SUFFICES ASSUME SeriesInv, PrepInv, RulesInv
               PROVE  TypeOK
    OBVIOUS
  <2>1. PrepTypeOK
    BY DEF PrepInv, GoodDir, GoodFile, GoodJobs, GoodJob, PrepTypeOK
  <2>2. pc \in {"run", "export", "save"} => curr # NONE /\ prev = curr
    BY SavedIsSome DEF SeriesInv, Types
  <2>3. shared \subseteq {CurrId(c) : c \in Ruled(file)}
    BY DEF RulesInv
  <2> QED
    BY <2>1, <2>2, <2>3 DEF SeriesInv, Types, TypeOK
<1> QED
  BY <1>1, SeriesInvariant, PrepInvariant, RulesInvariant, PTL

\* Once the callback has prepared rules with no precompilation left running, every run
\* finds the rules of its own parameters until the next change, unless another script
\* has compiled under the name of its configuration: for any parameter files whose
\* series change no parameter of the rules that the callback is not registered for
\* (ParameterEventManager, prep_rules.sh).
THEOREM RulesAreOwn == Spec => []OwnRules
<1>1. SeriesInv /\ PrepInv /\ RulesInv /\ PreparedInv => OwnRules
  <2> SUFFICES ASSUME SeriesInv, PrepInv, RulesInv, PreparedInv,
                      pc = "run", Prompt, prepared,
                      curr.rgx_enabled = 1 => CurrId(curr) \notin shared,
                      Said[file].varied \cap RuleParams \subseteq Triggers
               PROVE  RulesInPlace(curr) = PatternsOf(curr)
    BY DEF OwnRules
  <2> DEFINE c == jobs[1].cfg
  <2>1. Len(jobs) = 1 /\ Alike(c, curr)
    BY DEF PreparedInv, SeriesInv, Types
  <2>2. jobs[1].todo = <<>>
    <3>1. jobs # <<>>
      BY <2>1
    <3>2. Last(jobs) = jobs[1]
      BY <2>1 DEF Last
    <3> QED
      BY <3>1, <3>2 DEF Prompt
  <2>3. Left(jobs[1].todo) = {}
    BY <2>2 DEF Left
  <2>4. Made(dir, c, {}, shared)
    BY <2>1, <2>3 DEF RulesInv
  <2>5. file \in Files /\ curr \in Configs
    BY DEF SeriesInv, Types
  <2>6. Admitted(file, curr) /\ curr \in AllConfigs
    BY <2>5, ConfigIs DEF Configs, AllConfigs
  <2>7. /\ curr.rgx_enabled \in {0, 1} /\ curr.hs_enabled \in {0, 1}
        /\ curr.rules_use_content_kw \in {0, 1} /\ curr.rules_use_pcre_kw \in {0, 1}
    BY <2>6, FlagsAssumption
  <2>8. Kw(curr) # {}
    <3>1. curr.rules_use_content_kw + curr.rules_use_pcre_kw > 0
      BY <2>6 DEF Admitted
    <3>2. curr.rules_use_content_kw = 1 \/ curr.rules_use_pcre_kw = 1
      BY <2>7, <3>1
    <3> QED
      BY <3>2 DEF Kw, Keywords
  <2>9. Kw(c) = Kw(curr) /\ PatternsOf(c) = PatternsOf(curr) /\ CurrId(c) = CurrId(curr)
    BY <2>1 DEF Alike, CurrId, PatternsOf
  <2>10. c.rgx_enabled = curr.rgx_enabled /\ c.hs_enabled = curr.hs_enabled
    BY <2>1 DEF Alike
  <2> HIDE DEF c
  <2>11. CASE curr.rgx_enabled = 1
    <3>1. Compiles(c)
      BY <2>8, <2>9, <2>10, <2>11 DEF Compiles
    <3>2. dir.current = PatternsOf(c)
      BY <2>4, <2>9, <2>11, <3>1 DEF Made
    <3> QED
      BY <2>9, <2>11, <3>2 DEF RulesInPlace
  <2>12. CASE curr.rgx_enabled # 1
    <3>1. curr.hs_enabled = 1
      BY <2>6, <2>7, <2>12 DEF Admitted
    <3>2. Converts(c)
      BY <2>8, <2>9, <2>10, <2>12, <3>1 DEF Converts
    <3>3. dir.hyperscan = PatternsOf(c)
      BY <2>4, <3>2 DEF Made
    <3> QED
      BY <2>9, <2>12, <3>3 DEF RulesInPlace
  <2> QED
    BY <2>11, <2>12
<1> QED
  BY <1>1, SeriesInvariant, PrepInvariant, RulesInvariant, PTL
=============================================================================
