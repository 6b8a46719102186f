---------------------------- MODULE RulesProofs ----------------------------
(***************************************************************************)
(* Theorems about the rules: the tools that select them (RuleTools with    *)
(* DocaRules) and the database they are compiled to (HsDbCache).           *)
(***************************************************************************)
EXTENDS HsDbCache, RuleTools, DataTheorems, SequenceTheorems

-----------------------------------------------------------------------------
(* The database: for any number of processes, rules and flags.             *)
(*                                                                         *)
(* DbOfRules is not inductive: that the database a process loads is the    *)
(* right one rests on CacheSound and on the name it has computed, and that *)
(* the file it writes is right rests on the rules not having changed since *)
(* it compiled them.  InitInv states, for every point of hs_init_db, which *)
(* of the process's values are up to date.                                 *)

Current(p) == <<rules, expr_flags[p]>>

\* Between its start and the end of hs_init_db a process sees one rules file.
InInit == {"hash", "lookup", "compile", "rehash", "open", "write"}

InitInv ==
    \A p \in Procs :
        /\ pc[p] \in InInit => started[p] = rules
        /\ pc[p] \in {"lookup", "open", "write"} => key[p] = Current(p)
        /\ pc[p] \in {"rehash", "open", "write"} => hs_db[p] = Current(p)

\* The inductive invariant.
CacheInv == TypeOK /\ CacheSound /\ InitInv /\ DbOfRules

-----------------------------------------------------------------------------
LEMMA InitCache == Init => CacheInv
BY NoneAssumption DEF Init, CacheInv, TypeOK, CacheSound, InitInv, DbOfRules, InInit,
                      Files, NoFile, Keys, Databases

LEMMA StartCache ==
    ASSUME CacheInv, NEW p \in Procs, Start(p)
    PROVE  CacheInv'
<1> USE DEF CacheInv, Start, Goto
<1>1. PICK f \in Flags : expr_flags' = [expr_flags EXCEPT ![p] = f]
  OBVIOUS
<1>2. TypeOK'
  BY <1>1 DEF TypeOK
<1>3. CacheSound'
  BY DEF CacheSound, Keys
<1>4. InitInv' /\ DbOfRules'
  BY <1>1 DEF TypeOK, InitInv, DbOfRules, InInit, Current
<1> QED
  BY <1>2, <1>3, <1>4

LEMMA HashCache ==
    ASSUME CacheInv, NEW p \in Procs, Hash(p)
    PROVE  CacheInv'
<1> USE DEF CacheInv, Hash, Goto, FilePath
<1>1. TypeOK'
  BY DEF TypeOK, Keys
<1>2. CacheSound'
  BY DEF CacheSound, Keys
<1>3. InitInv' /\ DbOfRules'
  BY DEF TypeOK, InitInv, DbOfRules, InInit, Current
<1> QED
  BY <1>1, <1>2, <1>3

LEMMA LookupCache ==
    ASSUME CacheInv, NEW p \in Procs, Lookup(p)
    PROVE  CacheInv'
<1> USE DEF CacheInv, Lookup, Goto
<1>1. key[p] = Current(p) /\ Current(p) \in Keys
  BY DEF InitInv, TypeOK, Current, Keys
<1>2. cache[key[p]].whole => cache[key[p]].db = Current(p)
  BY <1>1 DEF CacheSound
<1>3. Current(p) \in Databases /\ Current(p) # NONE
  BY <1>1, NoneAssumption DEF Keys, Databases
<1>4. TypeOK'
  BY <1>2, <1>3 DEF TypeOK
<1>5. CacheSound'
  BY DEF CacheSound, Keys
<1>6. InitInv' /\ DbOfRules'
  BY <1>2 DEF TypeOK, InitInv, DbOfRules, InInit, Current
<1> QED
  BY <1>4, <1>5, <1>6

LEMMA CompileCache ==
    ASSUME CacheInv, NEW p \in Procs, Compile(p)
    PROVE  CacheInv'
<1> USE DEF CacheInv, Compile, Goto
<1>1. TypeOK'
  BY DEF TypeOK, Databases
<1>2. CacheSound'
  BY DEF CacheSound, Keys
<1>3. InitInv' /\ DbOfRules'
  BY DEF TypeOK, InitInv, DbOfRules, InInit, Current
<1> QED
  BY <1>1, <1>2, <1>3

LEMMA RehashCache ==
    ASSUME CacheInv, NEW p \in Procs, Rehash(p)
    PROVE  CacheInv'
<1> USE DEF CacheInv, Rehash, Goto, FilePath
<1>1. TypeOK'
  BY DEF TypeOK, Keys
<1>2. CacheSound'
  BY DEF CacheSound, Keys
<1>3. InitInv' /\ DbOfRules'
  BY DEF TypeOK, InitInv, DbOfRules, InInit, Current
<1> QED
  BY <1>1, <1>2, <1>3

LEMMA OpenCacheCache ==
    ASSUME CacheInv, NEW p \in Procs, OpenCache(p)
    PROVE  CacheInv'
<1> USE DEF CacheInv, OpenCache, Goto
<1>1. Truncated \in Files /\ ~ Truncated.whole
  BY DEF Truncated, Files
<1>2. TypeOK'
  <2>1. cache' \in [Keys -> Files]
    BY <1>1 DEF TypeOK
  <2> QED
    BY <2>1 DEF TypeOK
<1>3. CacheSound'
  <2> SUFFICES ASSUME NEW k \in Keys, cache'[k].whole
               PROVE  cache'[k].db = k
    BY DEF CacheSound, Keys
  <2>1. cache'[k] = cache[k]
    BY <1>1 DEF TypeOK
  <2> QED
    BY <2>1 DEF CacheSound
<1>4. InitInv' /\ DbOfRules'
  BY DEF TypeOK, InitInv, DbOfRules, InInit, Current
<1> QED
  BY <1>2, <1>3, <1>4

LEMMA WriteCacheCache ==
    ASSUME CacheInv, NEW p \in Procs, WriteCache(p)
    PROVE  CacheInv'
<1> USE DEF CacheInv, WriteCache, Goto
<1> DEFINE file == WholeFile(hs_db[p])
<1>1. key[p] = hs_db[p] /\ hs_db[p] = Current(p) /\ hs_db[p] \in Databases
  BY DEF InitInv, TypeOK, Current, Databases
<1>2. file \in Files /\ file.db = key[p] /\ hs_db[p] # NONE
  BY <1>1, NoneAssumption DEF Files, WholeFile, Databases
<1>3. TypeOK'
  <2>1. cache' \in [Keys -> Files]
    BY <1>2 DEF TypeOK
  <2> QED
    BY <2>1, <1>2 DEF TypeOK
<1>4. CacheSound'
  <2> SUFFICES ASSUME NEW k \in Keys, cache'[k].whole
               PROVE  cache'[k].db = k
    BY DEF CacheSound, Keys
  <2>1. cache'[k] = cache[k] \/ (k = key[p] /\ cache'[k] = file)
    BY DEF TypeOK
  <2> QED
    BY <2>1, <1>2 DEF CacheSound
<1>5. InitInv' /\ DbOfRules'
  BY <1>1 DEF TypeOK, InitInv, DbOfRules, InInit, Current
<1> QED
  BY <1>3, <1>4, <1>5

LEMMA ExitCache ==
    ASSUME CacheInv, NEW p \in Procs, Exit(p)
    PROVE  CacheInv'
<1> USE DEF CacheInv, Exit, Goto
<1>1. TypeOK'
  BY DEF TypeOK
<1>2. CacheSound'
  BY DEF CacheSound, Keys
<1>3. InitInv' /\ DbOfRules'
  BY DEF TypeOK, InitInv, DbOfRules, InInit, Current
<1> QED
  BY <1>1, <1>2, <1>3

LEMMA ReplaceRulesCache ==
    ASSUME CacheInv, ReplaceRules
    PROVE  CacheInv'
<1> USE DEF CacheInv, ReplaceRules
<1>1. TypeOK'
  BY DEF TypeOK
<1>2. CacheSound'
  BY DEF CacheSound, Keys
<1>3. InitInv' /\ DbOfRules'
  BY DEF TypeOK, InitInv, DbOfRules, InInit
<1> QED
  BY <1>1, <1>2, <1>3

LEMMA StepCache == CacheInv /\ [Next]_vars => CacheInv'
<1> SUFFICES ASSUME CacheInv, [Next]_vars
             PROVE  CacheInv'
  OBVIOUS
<1>1. CASE \E p \in Procs :
             \/ Start(p) \/ Hash(p) \/ Lookup(p) \/ Compile(p) \/ Rehash(p)
             \/ OpenCache(p) \/ WriteCache(p) \/ Exit(p)
  BY <1>1, StartCache, HashCache, LookupCache, CompileCache, RehashCache,
     OpenCacheCache, WriteCacheCache, ExitCache
<1>2. CASE ReplaceRules
  BY <1>2, ReplaceRulesCache
<1>3. CASE UNCHANGED vars
  BY <1>3 DEF vars, CacheInv, TypeOK, CacheSound, Keys, InitInv, DbOfRules, InInit,
              Current
<1> QED
  BY <1>1, <1>2, <1>3 DEF Next

LEMMA CacheInvariant == Spec => []CacheInv
BY InitCache, StepCache, PTL DEF Spec

\* The files and the variables of the processes have the values of the code; a process
\* that runs has a database (hs_init_db).
THEOREM CacheTypes == Spec => []TypeOK
<1>1. CacheInv => TypeOK
  BY DEF CacheInv
<1> QED
  BY <1>1, CacheInvariant, PTL

\* Every process that runs scans with the rules that were in the file when it
\* started and with its flags (hs_init_db).
THEOREM RightDatabase == Spec => []DbOfRules
<1>1. CacheInv => DbOfRules
  BY DEF CacheInv
<1> QED
  BY <1>1, CacheInvariant, PTL

\* A cache file that can be loaded holds the database its name stands for
\* (hs_db_cache_construct_fpath and the end of hs_init_db).
THEOREM CacheIsSound == Spec => []CacheSound
<1>1. CacheInv => CacheSound
  BY DEF CacheInv
<1> QED
  BY <1>1, CacheInvariant, PTL

-----------------------------------------------------------------------------
(* Lists put together.                                                     *)

LEMMA ListConcat ==
    ASSUME NEW s, IsList(s), NEW t, IsList(t)
    PROVE  /\ IsList(s \o t) /\ Len(s \o t) = Len(s) + Len(t)
           /\ \A k \in 1 .. Len(s) : (s \o t)[k] = s[k]
           /\ \A k \in 1 .. Len(t) : (s \o t)[Len(s) + k] = t[k]
<1> DEFINE A == {s[i] : i \in DOMAIN s}
           B == {t[i] : i \in DOMAIN t}
           S == A \cup B
           u == s \o t
<1>1. s \in Seq(S) /\ t \in Seq(S)
  <2>1. s \in Seq(A) /\ t \in Seq(B)
    BY ListIsSeq
  <2>2. A \subseteq S /\ B \subseteq S
    OBVIOUS
  <2> HIDE DEF A, B, S
  <2> QED
    BY <2>1, <2>2, SeqMonotonic
<1> HIDE DEF S, u
<1>2. /\ u \in Seq(S) /\ Len(u) = Len(s) + Len(t)
      /\ \A k \in 1 .. Len(s) + Len(t) : u[k] = IF k <= Len(s) THEN s[k] ELSE t[k - Len(s)]
  BY <1>1, ConcatProperties DEF u
<1>3. Len(s) \in Nat /\ Len(t) \in Nat
  BY DEF IsList
<1>4. IsList(u)
  BY <1>2, SeqIsList
<1>5. \A k \in 1 .. Len(s) : u[k] = s[k]
  BY <1>2, <1>3
<1>6. ASSUME NEW k \in 1 .. Len(t)
      PROVE  u[Len(s) + k] = t[k]
  <2>1. Len(s) + k \in 1 .. Len(s) + Len(t) /\ ~(Len(s) + k <= Len(s)) /\ (Len(s) + k) - Len(s) = k
    BY <1>3
  <2> QED
    BY <1>2, <2>1
<1> QED
  BY <1>2, <1>4, <1>5, <1>6 DEF u

Lens(ss) == [i \in DOMAIN ss |-> Len(ss[i])]

\* The number of elements of the lists in front of the i-th.
Offset(ss, i) == SumFunctionOnSet(Lens(ss), 1 .. (i - 1))

\* u has the elements of the first m lists, one list behind the other.
Joins(u, ss, m) ==
    /\ IsList(u) /\ Len(u) = SumFunctionOnSet(Lens(ss), 1 .. m)
    /\ \A i \in 1 .. m : \A j \in 1 .. Len(ss[i]) :
          Offset(ss, i) + j \in 1 .. Len(u) /\ u[Offset(ss, i) + j] = ss[i][j]
    /\ \A k \in 1 .. Len(u) : \E i \in 1 .. m : \E j \in 1 .. Len(ss[i]) : k = Offset(ss, i) + j

Lists(ss) == IsList(ss) /\ \A i \in DOMAIN ss : IsList(ss[i])

LEMMA OffsetIs ==
    ASSUME NEW ss, Lists(ss)
    PROVE  /\ Len(ss) \in Nat /\ DOMAIN ss = 1 .. Len(ss) /\ Numbers(Lens(ss), 1 .. Len(ss))
           /\ \A i \in 1 .. Len(ss) :
                 /\ Offset(ss, i) \in Nat /\ Len(ss[i]) \in Nat
                 /\ SumFunctionOnSet(Lens(ss), 1 .. i) = Offset(ss, i) + Len(ss[i])
           /\ SumFunctionOnSet(Lens(ss), 1 .. 0) = 0
<1>1. Len(ss) \in Nat /\ DOMAIN ss = 1 .. Len(ss) /\ \A i \in DOMAIN ss : Len(ss[i]) \in Nat
  BY DEF Lists, IsList
<1>2. Numbers(Lens(ss), 1 .. Len(ss)) /\ \A i \in 1 .. Len(ss) : Lens(ss)[i] = Len(ss[i])
  BY <1>1 DEF Numbers, Lens
<1>3. ASSUME NEW i \in 1 .. Len(ss)
      PROVE  /\ Offset(ss, i) \in Nat
             /\ SumFunctionOnSet(Lens(ss), 1 .. i) = Offset(ss, i) + Len(ss[i])
  <2> DEFINE f == Lens(ss)
  <2>1. Numbers(f, 1 .. Len(ss)) /\ f[i] = Len(ss[i])
    BY <1>2
  <2> HIDE DEF f
  <2>2. /\ SumFunctionOnSet(f, 1 .. i) = SumFunctionOnSet(f, 1 .. (i - 1)) + f[i]
        /\ SumFunctionOnSet(f, 1 .. (i - 1)) \in Nat
    BY <1>1, <2>1, SumNext
  <2> QED
    BY <2>1, <2>2 DEF f, Offset
<1>4. 1 .. 0 = {}
  OBVIOUS
<1> QED
  BY <1>1, <1>2, <1>3, <1>4, SumEmpty

LEMMA JoinsNext ==
    ASSUME NEW ss, Lists(ss), NEW m \in 1 .. Len(ss), NEW u, Joins(u, ss, m - 1)
    PROVE  Joins(u \o ss[m], ss, m)
<1> DEFINE w == u \o ss[m]
           t == ss[m]
           a == Len(u)
           b == Len(t)
<1>1. IsList(t) /\ b \in Nat
  BY OffsetIs DEF Lists, IsList
<1>2. IsList(u) /\ a \in Nat /\ a = Offset(ss, m)
  BY DEF Joins, Offset, IsList
<1>3. /\ IsList(w) /\ Len(w) = a + b
      /\ \A k \in 1 .. a : w[k] = u[k]
      /\ \A k \in 1 .. b : w[a + k] = t[k]
  <2> HIDE DEF t
  <2>1. /\ IsList(u \o t) /\ Len(u \o t) = Len(u) + Len(t)
        /\ \A k \in 1 .. Len(u) : (u \o t)[k] = u[k]
        /\ \A k \in 1 .. Len(t) : (u \o t)[Len(u) + k] = t[k]
    <3>1. IsList(u) /\ IsList(t)
      BY <1>1, <1>2
    <3> HIDE DEF a, b, w
    <3> QED
      BY <3>1, ListConcat
  <2> QED
    BY <2>1 DEF t
<1>4. Len(w) = SumFunctionOnSet(Lens(ss), 1 .. m)
  BY <1>2, <1>3, OffsetIs
<1>5. \A i \in 1 .. m : i \in 1 .. (m - 1) \/ i = m
  OBVIOUS
<1> HIDE DEF w, a, b, t
<1>6. ASSUME NEW i \in 1 .. m, NEW j \in 1 .. Len(ss[i])
      PROVE  Offset(ss, i) + j \in 1 .. Len(w) /\ w[Offset(ss, i) + j] = ss[i][j]
  <2>1. CASE i \in 1 .. (m - 1)
    <3>1. Offset(ss, i) + j \in 1 .. a /\ u[Offset(ss, i) + j] = ss[i][j]
      BY <2>1 DEF Joins, a
    <3> QED
      BY <1>1, <1>2, <1>3, <3>1
  <2>2. CASE i = m
    <3>1. j \in 1 .. b /\ w[a + j] = t[j] /\ a + j \in 1 .. Len(w)
      BY <1>1, <1>2, <1>3, <2>2 DEF b, t
    <3> QED
      BY <1>2, <2>2, <3>1 DEF t
  <2> QED
    BY <1>5, <2>1, <2>2
<1>7. ASSUME NEW k \in 1 .. Len(w)
      PROVE  \E i \in 1 .. m : \E j \in 1 .. Len(ss[i]) : k = Offset(ss, i) + j
  <2>1. CASE k <= a
    <3>1. k \in 1 .. a
      BY <2>1, <1>2
    <3>2. PICK i \in 1 .. (m - 1) : \E j \in 1 .. Len(ss[i]) : k = Offset(ss, i) + j
      BY <3>1 DEF Joins, a
    <3>3. i \in 1 .. m
      OBVIOUS
    <3> QED
      BY <3>2, <3>3
  <2>2. CASE ~(k <= a)
    <3>1. k - a \in 1 .. b /\ k = a + (k - a)
      BY <1>1, <1>2, <1>3, <2>2
    <3>2. m \in 1 .. m /\ k - a \in 1 .. Len(ss[m]) /\ k = Offset(ss, m) + (k - a)
      BY <1>2, <3>1 DEF b, t
    <3> QED
      BY <3>2
  <2> QED
    BY <2>1, <2>2
<1> QED
  BY <1>3, <1>4, <1>6, <1>7 DEF Joins, w, t

IsFlatten(f, ss, m) == f = [i \in 1 .. m |-> IF i = 1 THEN ss[i] ELSE f[i - 1] \o ss[i]]

LEMMA FlattenDefined ==
    ASSUME NEW ss, NEW n \in Nat
    PROVE  \E f : IsFlatten(f, ss, n)
<1> DEFINE C == {m \in Nat : \E f : IsFlatten(f, ss, m)}
<1>1. 0 \in C
  <2>1. IsFlatten([i \in 1 .. 0 |-> <<>>], ss, 0)
    BY DEF IsFlatten
  <2> QED
    BY <2>1
<1>2. ASSUME NEW m \in Nat, m \in C
      PROVE  m + 1 \in C
  <2>1. PICK f : IsFlatten(f, ss, m)
    BY <1>2
  <2> DEFINE h == [i \in 1 .. m + 1 |-> IF i = 1 THEN ss[i] ELSE f[i - 1] \o ss[i]]
  <2>2. \A i \in 1 .. m : f[i] = IF i = 1 THEN ss[i] ELSE f[i - 1] \o ss[i]
    BY <2>1 DEF IsFlatten
  <2>3. \A i \in 1 .. m : h[i] = f[i]
    BY <2>2
  <2>4. ASSUME NEW i \in 1 .. m + 1
        PROVE  h[i] = IF i = 1 THEN ss[i] ELSE h[i - 1] \o ss[i]
    <3>1. CASE i = 1
      BY <3>1
    <3>2. CASE i # 1
      <4>1. h[i] = f[i - 1] \o ss[i]
        BY <3>2
      <4>2. i - 1 \in 1 .. m
        BY <3>2
      <4> HIDE DEF h
      <4>3. h[i - 1] = f[i - 1]
        BY <2>3, <4>2
      <4> QED
        BY <3>2, <4>1, <4>3
    <3> QED
      BY <3>1, <3>2
  <2>5. IsFlatten(h, ss, m + 1)
    BY <2>4 DEF IsFlatten
  <2> QED
    BY <2>5
<1> HIDE DEF C
<1>3. Nat \subseteq C
  BY <1>1, <1>2, SetOfNumbers
<1> QED
  BY <1>3 DEF C

LEMMA FlattenIs ==
    ASSUME NEW ss, Lists(ss)
    PROVE  Joins(FlattenSeq(ss), ss, Len(ss))
<1> DEFINE n == Len(ss)
           g == CHOOSE f : IsFlatten(f, ss, n)
<1>1. n \in Nat /\ DOMAIN ss = 1 .. n
  BY OffsetIs
<1>2. FlattenSeq(ss) = IF n = 0 THEN ss ELSE g[n]
  BY DEF FlattenSeq, IsFlatten
<1>3. IsFlatten(g, ss, n)
  BY <1>1, FlattenDefined
<1>4. \A i \in 1 .. n : g[i] = IF i = 1 THEN ss[i] ELSE g[i - 1] \o ss[i]
  BY <1>3 DEF IsFlatten
<1> HIDE DEF g
<1>5. CASE n = 0
  <2>1. IsList(ss) /\ SumFunctionOnSet(Lens(ss), 1 .. 0) = 0
    BY OffsetIs DEF Lists
  <2> QED
    BY <1>2, <1>5, <2>1 DEF Joins
<1>6. CASE n # 0
  <2> DEFINE C == {m \in Nat : m \in 1 .. n => Joins(g[m], ss, m)}
  <2>1. 0 \in C
    OBVIOUS
  <2>2. ASSUME NEW m \in Nat, m \in C, m + 1 \in 1 .. n
        PROVE  Joins(g[m + 1], ss, m + 1)
    <3>1. CASE m = 0
      <4>1. 1 \in 1 .. n /\ m + 1 = 1 /\ 1 .. 0 = 1 .. (1 - 1)
        BY <2>2, <3>1
      <4>2. g[1] = ss[1] /\ IsList(ss[1])
        BY <1>1, <1>4, <4>1 DEF Lists
      <4>3. /\ SumFunctionOnSet(Lens(ss), 1 .. 1) = Offset(ss, 1) + Len(ss[1])
            /\ Offset(ss, 1) = 0 /\ Len(ss[1]) \in Nat
        BY <4>1, OffsetIs DEF Offset
      <4>4. \A i \in 1 .. 1 : i = 1
        OBVIOUS
      <4> DEFINE v == g[1]
      <4>5. IsList(v) /\ Len(v) = SumFunctionOnSet(Lens(ss), 1 .. 1)
        BY <4>2, <4>3
      <4>6. v = ss[1]
        BY <4>2
      <4> HIDE DEF v
      <4>7. \A i \in 1 .. 1 : \A j \in 1 .. Len(ss[i]) :
               Offset(ss, i) + j \in 1 .. Len(v) /\ v[Offset(ss, i) + j] = ss[i][j]
        BY <4>3, <4>4, <4>6
      <4>8. ASSUME NEW k \in 1 .. Len(v)
            PROVE  \E i \in 1 .. 1 : \E j \in 1 .. Len(ss[i]) : k = Offset(ss, i) + j
        <5>1. 1 \in 1 .. 1 /\ k \in 1 .. Len(ss[1]) /\ k = Offset(ss, 1) + k
          BY <4>3, <4>6
        <5> QED
          BY <5>1
      <4>9. Joins(v, ss, 1)
        BY <4>5, <4>7, <4>8 DEF Joins
      <4> QED
        BY <4>1, <4>9 DEF v
    <3>2. CASE m # 0
      <4>1. m \in 1 .. n /\ Joins(g[m], ss, m)
        BY <1>1, <2>2, <3>2
      <4>2. (m + 1) - 1 = m /\ m + 1 # 1
        BY <3>2
      <4>3. g[m + 1] = g[m] \o ss[m + 1]
        BY <1>4, <2>2, <4>2
      <4>4. Joins(g[m] \o ss[m + 1], ss, m + 1)
        <5> DEFINE k == m + 1
        <5>1. k \in 1 .. Len(ss) /\ Joins(g[m], ss, k - 1)
          BY <2>2, <4>1, <4>2
        <5> HIDE DEF k
        <5>2. Joins(g[m] \o ss[k], ss, k)
          BY <5>1, JoinsNext
        <5> QED
          BY <5>2 DEF k
      <4> QED
        BY <4>3, <4>4
    <3> QED
      BY <3>1, <3>2
  <2> HIDE DEF C
  <2>3. Nat \subseteq C
    <3>1. ASSUME NEW m \in Nat, m \in C
          PROVE  m + 1 \in C
      <4>1. m + 1 \in Nat
        OBVIOUS
      <4>2. CASE m + 1 \in 1 .. n
        <5>1. Joins(g[m + 1], ss, m + 1)
          BY <2>2, <3>1, <4>2
        <5> QED
          BY <4>1, <5>1 DEF C
      <4>3. CASE m + 1 \notin 1 .. n
        BY <4>1, <4>3 DEF C
      <4> QED
        BY <4>2, <4>3
    <3> QED
      BY <2>1, <3>1, SetOfNumbers
  <2>4. Joins(g[n], ss, n)
    BY <1>1, <1>6, <2>3 DEF C
  <2> QED
    BY <1>2, <1>6, <2>4
<1> QED
  BY <1>5, <1>6

\* The elements of the joined list are those of the lists.
LEMMA FlattenRange ==
    ASSUME NEW ss, Lists(ss)
    PROVE  /\ IsList(FlattenSeq(ss)) /\ DOMAIN FlattenSeq(ss) = 1 .. Len(FlattenSeq(ss))
           /\ Range(FlattenSeq(ss)) = UNION {Range(ss[i]) : i \in DOMAIN ss}
<1> DEFINE u == FlattenSeq(ss)
<1>1. Joins(u, ss, Len(ss)) /\ DOMAIN ss = 1 .. Len(ss)
  BY FlattenIs, OffsetIs
<1> HIDE DEF u
<1>2. IsList(u) /\ DOMAIN u = 1 .. Len(u)
  BY <1>1, ListIsSeq DEF Joins
<1>3. \A i \in DOMAIN ss : DOMAIN ss[i] = 1 .. Len(ss[i])
  BY ListIsSeq DEF Lists
<1>4. Range(u) = UNION {Range(ss[i]) : i \in DOMAIN ss}
  <2>1. ASSUME NEW k \in 1 .. Len(u)
        PROVE  \E i \in DOMAIN ss : \E j \in DOMAIN ss[i] : u[k] = ss[i][j]
    <3>1. PICK i \in 1 .. Len(ss) : \E j \in 1 .. Len(ss[i]) : k = Offset(ss, i) + j
      BY <1>1 DEF Joins
    <3>2. PICK j \in 1 .. Len(ss[i]) : k = Offset(ss, i) + j
      BY <3>1
    <3>3. u[k] = ss[i][j]
      BY <1>1, <3>2 DEF Joins
    <3> QED
      BY <1>1, <1>3, <3>3
  <2>2. ASSUME NEW i \in DOMAIN ss, NEW j \in DOMAIN ss[i]
        PROVE  \E k \in 1 .. Len(u) : u[k] = ss[i][j]
    <3>1. i \in 1 .. Len(ss) /\ j \in 1 .. Len(ss[i])
      BY <1>1, <1>3
    <3>2. Offset(ss, i) + j \in 1 .. Len(u) /\ u[Offset(ss, i) + j] = ss[i][j]
      BY <1>1, <3>1 DEF Joins
    <3> QED
      BY <3>2
  <2> QED
    BY <1>2, <2>1, <2>2 DEF Range
<1> QED
  BY <1>2, <1>4 DEF u

-----------------------------------------------------------------------------
(* The working set.                                                        *)
(*                                                                         *)
(* WorkingSetExact is about the end of the iteration and is not inductive. *)
(* In between the file has some rules that do not compile, because rxpc    *)
(* need not name all of them.  So a round is compared with the rule base,  *)
(* of which the file has the rules at some positions K (Keeps), at least   *)
(* those that compile.  None of these is lost: a round reads it, since     *)
(* fewer rules have fewer patterns in front of it (AheadLess), and none of *)
(* the lines that rxpc names is its own, since sids are distinct           *)
(* (RoundKeeps).  When the summary counts nothing, rxpc had nothing to     *)
(* name, and K has no other rules.                                         *)

\* The rules of the rule base all of whose patterns compile.
Compiling(db) ==
    {i \in ReadRules(db) : Legal(db[i]) /\ \A p \in Range(Submitted(db[i])) : p.rxpc}

\* Those the first round leaves at most.
Admitted(db) == {i \in ReadRules(db) : Legal(db[i])}

Distinct(db) == \A i, j \in DOMAIN db : db[i].sid = db[j].sid => i = j

\* The filters keep a part of the rule base.
Keeps(K) ==
    /\ working = Select(base, K) /\ uncompiled \in Nat
    /\ Compiling(base) \subseteq K
    /\ K = DOMAIN base \/ K \subseteq Admitted(base)
    /\ tool # "rxpc" => K \subseteq Admitted(base)
    /\ tool = "summary" /\ uncompiled = 0 => K = Compiling(base)
    /\ tool = "hs" /\ iterative => K = Compiling(base)

FilterInv == 
    tool \in {"rxpc", "summary", "hs"} =>
        base \in RuleBases /\ \E K \in SUBSET DOMAIN base : Keeps(K)

\* All patterns of the rules compile.
AllCompile(db) == \A i \in DOMAIN db : \A p \in Range(db[i].content) \cup Range(db[i].pcre) : p.rxpc

\* The file of the working set; the subsets compile because it does.
WorkingInv ==
    /\ WellFormed(working)
    /\ iterative /\ Filtered => AllCompile(working)

\* The patterns of the sample that are asked for.
Asked == UNION {Range(sampled[j][k]) : j \in DOMAIN sampled, k \in kws}

SampledRight == IsList(sampled) /\ Range(sampled) \subseteq Range(working) /\ kws \subseteq Keywords

\* They are the lines of the run, each once.
RegexesRight ==
    /\ IsList(regexes) /\ Range(regexes) = {p \in Asked : p.long}
    /\ \A i, j \in DOMAIN regexes : regexes[i] = regexes[j] => i = j

\* What each tool of a run has been given by the one before it.
RunInv ==
    /\ tool \in {"extract", "number", "convert", "subsets"} \/ subsets # <<>> => SampledRight
    /\ tool \in {"number", "subsets"} \/ subsets # <<>> => RegexesRight
    /\ tool = "subsets" \/ subsets # <<>> =>
          numbered = [i \in DOMAIN regexes |-> <<i, regexes[i]>>] /\ ratio \in Ratios
    /\ subsets # <<>> =>
          tool = "done" /\ FlattenSeq(subsets) = numbered /\ Len(subsets) = Len(ratio)

-----------------------------------------------------------------------------
(* The operators of the filters.                                           *)

LEMMA ConcatRange ==
    ASSUME NEW s, IsList(s), NEW t, IsList(t)
    PROVE  Range(s \o t) = Range(s) \cup Range(t)
<1> DEFINE u == s \o t
           a == Len(s)
           b == Len(t)
<1>1. /\ IsList(u) /\ Len(u) = a + b
      /\ \A k \in 1 .. a : u[k] = s[k]
      /\ \A k \in 1 .. b : u[a + k] = t[k]
  BY ListConcat
<1>2. DOMAIN s = 1 .. a /\ DOMAIN t = 1 .. b /\ a \in Nat /\ b \in Nat
  BY DEF IsList
<1> HIDE DEF u, a, b
<1>3. DOMAIN u = 1 .. a + b
  BY <1>1, ListIsSeq
<1>4. ASSUME NEW k \in DOMAIN u
      PROVE  u[k] \in Range(s) \cup Range(t)
  <2>1. CASE k <= a
    BY <1>1, <1>2, <1>3, <2>1 DEF Range
  <2>2. CASE ~(k <= a)
    <3>1. k - a \in 1 .. b /\ k = a + (k - a)
      BY <1>2, <1>3, <2>2
    <3>2. u[k] = t[k - a]
      BY <1>1, <3>1
    <3> QED
      BY <1>2, <3>1, <3>2 DEF Range
  <2> QED
    BY <2>1, <2>2
<1>5. ASSUME NEW k \in DOMAIN s
      PROVE  s[k] \in Range(u)
  <2>1. k \in DOMAIN u /\ u[k] = s[k]
    BY <1>1, <1>2, <1>3
  <2> QED
    BY <2>1 DEF Range
<1>6. ASSUME NEW k \in DOMAIN t
      PROVE  t[k] \in Range(u)
  <2>1. a + k \in DOMAIN u /\ u[a + k] = t[k]
    BY <1>1, <1>2, <1>3
  <2> QED
    BY <2>1 DEF Range
<1>7. Range(u) \subseteq Range(s) \cup Range(t)
  BY <1>4 DEF Range
<1>8. Range(s) \subseteq Range(u) /\ Range(t) \subseteq Range(u)
  <2>1. \A x \in Range(s) : x \in Range(u)
    BY <1>5 DEF Range
  <2>2. \A x \in Range(t) : x \in Range(u)
    BY <1>6 DEF Range
  <2> QED
    BY <2>1, <2>2
<1> QED
  BY <1>7, <1>8 DEF u

\* What has been seen when the loop breaks is a list; all of it if it does not.
LEMMA BeforeIs ==
    ASSUME NEW s, IsList(s), NEW K, K \subseteq DOMAIN s
    PROVE  /\ IsList(Before(s, Earliest(K)))
           /\ Earliest(K) = 0 <=> K = {}
           /\ Earliest(K) = 0 => Before(s, Earliest(K)) = s
<1> DEFINE k == Earliest(K)
<1>1. DOMAIN s = 1 .. Len(s) /\ Len(s) \in Nat
  BY DEF IsList
<1>2. (K = {} => k = 0) /\ (K # {} => k \in K)
  BY <1>1, EarliestIs
<1> HIDE DEF k
<1>3. k = 0 <=> K = {}
  BY <1>1, <1>2
<1>4. k = 0 => Before(s, k) = s
  BY DEF Before
<1>5. ASSUME k # 0
      PROVE  IsList(Before(s, k))
  <2>1. k \in 1 .. Len(s)
    BY <1>1, <1>2, <1>5
  <2>2. Before(s, k) = SubSeq(s, 1, k - 1)
    BY <1>5 DEF Before
  <2> DEFINE S == {s[i] : i \in DOMAIN s}
  <2>3. s \in Seq(S)
    BY ListIsSeq
  <2> HIDE DEF S
  <2>4. SubSeq(s, 1, k - 1) \in Seq(S)
    BY <1>1, <2>1, <2>3
  <2> QED
    BY <2>2, <2>4, SeqIsList
<1> QED
  BY <1>3, <1>4, <1>5 DEF k

\* What is submitted of a rule; of a legal one it is all it has.
LEMMA SubmittedIs ==
    ASSUME NEW r, IsList(r.content), IsList(r.pcre)
    PROVE  /\ IsList(Submitted(r)) /\ Len(Submitted(r)) \in Nat
           /\ Legal(r) => Range(Submitted(r)) = Range(r.content) \cup Range(r.pcre)
<1>1. /\ IsList(Before(r.content, FirstNegated(r)))
      /\ FirstNegated(r) = 0 => Before(r.content, FirstNegated(r)) = r.content
  BY BeforeIs DEF FirstNegated
<1>2. /\ IsList(Before(r.pcre, FirstIllegal(r)))
      /\ FirstIllegal(r) = 0 => Before(r.pcre, FirstIllegal(r)) = r.pcre
  BY BeforeIs DEF FirstIllegal
<1>3. IsList(Submitted(r))
  BY <1>1, <1>2, ListConcat DEF Submitted
<1>4. Legal(r) => Range(Submitted(r)) = Range(r.content) \cup Range(r.pcre)
  BY <1>1, <1>2, ConcatRange DEF Submitted, Legal
<1> QED
  BY <1>3, <1>4 DEF IsList

\* The lines of a file: one for every pattern of every rule.
LEMMA LinesIs ==
    ASSUME NEW db, IsList(db), NEW P, DOMAIN P = DOMAIN db, \A i \in DOMAIN db : IsList(P[i])
    PROVE  /\ IsList(Lines(db, P)) /\ DOMAIN Lines(db, P) = 1 .. Len(Lines(db, P))
           /\ \A n \in DOMAIN Lines(db, P) : \E i \in DOMAIN db : \E j \in DOMAIN P[i] :
                 Lines(db, P)[n] = [sid |-> db[i].sid, pat |-> P[i][j]]
           /\ \A i \in DOMAIN db : \A j \in DOMAIN P[i] : \E n \in DOMAIN Lines(db, P) :
                 Lines(db, P)[n] = [sid |-> db[i].sid, pat |-> P[i][j]]
<1> DEFINE part(i) == [j \in DOMAIN P[i] |-> [sid |-> db[i].sid, pat |-> P[i][j]]]
           ss == [i \in DOMAIN db |-> part(i)]
<1>1. DOMAIN ss = DOMAIN db /\ \A i \in DOMAIN db : ss[i] = part(i)
  OBVIOUS
<1>2. IsList(ss)
  BY DEF IsList
<1>3. \A i \in DOMAIN db : IsList(part(i)) /\ DOMAIN part(i) = DOMAIN P[i]
  BY DEF IsList
<1>4. Lists(ss)
  <2> HIDE DEF ss, part
  <2> QED
    BY <1>1, <1>2, <1>3 DEF Lists
<1>5. Lines(db, P) = FlattenSeq(ss)
  BY DEF Lines
<1>6. \A i \in DOMAIN db : \A j \in DOMAIN P[i] : part(i)[j] = [sid |-> db[i].sid, pat |-> P[i][j]]
  OBVIOUS
<1> HIDE DEF ss, part
<1> DEFINE u == FlattenSeq(ss)
<1>7. /\ IsList(u) /\ DOMAIN u = 1 .. Len(u)
      /\ Range(u) = UNION {Range(ss[i]) : i \in DOMAIN ss}
  BY <1>4, FlattenRange
<1> HIDE DEF u
<1>8. ASSUME NEW n \in DOMAIN u
      PROVE  \E i \in DOMAIN db : \E j \in DOMAIN P[i] : u[n] = part(i)[j]
  <2>1. u[n] \in Range(u)
    BY DEF Range
  <2>2. PICK i \in DOMAIN ss : u[n] \in Range(ss[i])
    BY <1>7, <2>1
  <2>3. u[n] \in Range(part(i)) /\ i \in DOMAIN db
    BY <1>1, <2>2
  <2> QED
    BY <1>3, <2>3 DEF Range
<1>9. ASSUME NEW i \in DOMAIN db, NEW j \in DOMAIN P[i]
      PROVE  \E n \in DOMAIN u : u[n] = part(i)[j]
  <2>1. part(i)[j] \in Range(part(i))
    BY <1>3 DEF Range
  <2>2. part(i)[j] \in Range(u)
    BY <1>1, <1>7, <2>1
  <2> QED
    BY <2>2 DEF Range
<1>10. Lines(db, P) = u
  BY <1>5 DEF u
<1>11. ASSUME NEW n \in DOMAIN u
       PROVE  \E i \in DOMAIN db : \E j \in DOMAIN P[i] : u[n] = [sid |-> db[i].sid, pat |-> P[i][j]]
  <2>1. PICK i \in DOMAIN db : \E j \in DOMAIN P[i] : u[n] = part(i)[j]
    BY <1>8
  <2>2. PICK j \in DOMAIN P[i] : u[n] = part(i)[j]
    BY <2>1
  <2>3. u[n] = [sid |-> db[i].sid, pat |-> P[i][j]]
    BY <1>6, <2>2
  <2> QED
    BY <2>3
<1>12. ASSUME NEW i \in DOMAIN db, NEW j \in DOMAIN P[i]
       PROVE  \E n \in DOMAIN u : u[n] = [sid |-> db[i].sid, pat |-> P[i][j]]
  <2>1. PICK n \in DOMAIN u : u[n] = part(i)[j]
    BY <1>9
  <2>2. u[n] = [sid |-> db[i].sid, pat |-> P[i][j]]
    BY <1>6, <2>1
  <2> QED
    BY <2>2
<1> QED
  BY <1>7, <1>10, <1>11, <1>12

\* A part of a well-formed rule base is one.
LEMMA SelectWellFormed ==
    ASSUME NEW db, WellFormed(db), NEW K, K \subseteq DOMAIN db
    PROVE  /\ WellFormed(Select(db, K))
           /\ AllCompile(db) => AllCompile(Select(db, K))
           /\ Range(Select(db, K)) \subseteq Range(db)
<1> DEFINE s == Select(db, K)
<1>1. /\ IsList(s) /\ Range(s) = {db[i] : i \in K}
      /\ \A n \in DOMAIN s : \E i \in K : s[n] = db[i]
  <2>1. IsList(db)
    BY DEF WellFormed
  <2> QED
    BY <2>1, SelectIs
<1> HIDE DEF s
<1>2. \A n \in DOMAIN s : \E i \in DOMAIN db : s[n] = db[i]
  BY <1>1
<1>3. /\ \A i \in DOMAIN s : IsList(s[i].content) /\ IsList(s[i].pcre)
      /\ \A i, j \in DOMAIN s : Range(s[i].content) \cap Range(s[j].pcre) = {}
  BY <1>2 DEF WellFormed
<1>4. WellFormed(s)
  BY <1>1, <1>3 DEF WellFormed
<1>5. AllCompile(db) => AllCompile(s)
  BY <1>2 DEF AllCompile
<1>6. Range(s) \subseteq Range(db)
  BY <1>1 DEF Range
<1> QED
  BY <1>4, <1>5, <1>6 DEF s

\* A part of a part.
PartOf(K, J) == {Nth(K, n) : n \in J}

\* Of fewer rules fewer patterns are in front of one.
LEMMA AheadLess ==
    ASSUME NEW db, WellFormed(db), NEW K, K \subseteq DOMAIN db, NEW m \in 1 .. Cardinality(K)
    PROVE  /\ Ahead(Select(db, K), m) <= Ahead(db, Nth(K, m))
           /\ Ahead(Select(db, K), m) \in Nat /\ Ahead(db, Nth(K, m)) \in Nat
<1> DEFINE s == Select(db, K)
           c == Cardinality(K)
           f == [k \in DOMAIN s |-> Len(Submitted(s[k]))]
           h == [k \in DOMAIN db |-> Len(Submitted(db[k]))]
           A == 1 .. (m - 1)
           B == 1 .. (Nth(K, m) - 1)
           image == {Nth(K, k) : k \in A}
           g == [i \in B |-> IF i \in image THEN h[i] ELSE 0]
           go == [k \in A |-> Nth(K, k)]
<1>1. IsList(db) /\ DOMAIN db = 1 .. Len(db) /\ Len(db) \in Nat
  BY DEF WellFormed, IsList
<1>2. /\ IsFiniteSet(K) /\ K \subseteq Nat /\ c \in Nat /\ DOMAIN s = 1 .. c
      /\ \A n \in 1 .. c : Nth(K, n) \in K /\ s[n] = db[Nth(K, n)]
  BY <1>1, SelectIs
<1>3. \A i \in DOMAIN db : h[i] \in Nat
  BY SubmittedIs DEF WellFormed
<1>4. m \in Nat /\ Nth(K, m) \in DOMAIN db /\ A \subseteq 1 .. c
  BY <1>2
<1> HIDE DEF s, c
<1>5. \A k \in A : Nth(K, k) \in B
  <2> TAKE k \in A
  <2>1. k \in 1 .. c /\ k < m /\ m \in 1 .. c
    BY <1>4 DEF c
  <2>2. Nth(K, k) < Nth(K, m) /\ Nth(K, k) \in DOMAIN db
    BY <1>2, <2>1, NthAscends DEF c
  <2> QED
    BY <1>1, <1>4, <2>2
<1>6. B \subseteq DOMAIN db
  BY <1>1, <1>4
<1>7. \A k \in A : f[k] = h[Nth(K, k)] /\ f[k] \in Nat
  BY <1>2, <1>3, <1>4
<1>8. IsFiniteSet(A) /\ IsFiniteSet(B)
  <2>1. m - 1 \in Int /\ Nth(K, m) - 1 \in Int
    BY <1>1, <1>4
  <2> DEFINE p == m - 1
             q == Nth(K, m) - 1
  <2> HIDE DEF p, q
  <2>2. IsFiniteSet(1 .. p) /\ IsFiniteSet(1 .. q)
    BY <2>1, FS_Interval DEF p, q
  <2> QED
    BY <2>2 DEF p, q
<1>9. \A x, z \in A : x # z => go[x] # go[z]
  <2> TAKE x, z \in A
  <2>1. x \in 1 .. c /\ z \in 1 .. c
    BY <1>4
  <2> QED
    BY <1>2, <2>1, NthOnce DEF c
<1> HIDE DEF f, h
<1>10. /\ \A x \in A : go[x] \in B /\ g[go[x]] = f[x]
       /\ \A y \in B : (\A x \in A : go[x] # y) => g[y] = 0
       /\ Numbers(f, A) /\ Numbers(g, B) /\ Numbers(h, B)
       /\ \A y \in B : g[y] <= h[y]
  <2>1. \A x \in A : go[x] \in B /\ g[go[x]] = f[x]
    BY <1>5, <1>7
  <2>2. \A y \in B : (\A x \in A : go[x] # y) => g[y] = 0
    OBVIOUS
  <2>3. Numbers(f, A) /\ Numbers(h, B)
    BY <1>3, <1>6, <1>7 DEF Numbers
  <2>4. \A y \in B : g[y] \in Nat /\ g[y] <= h[y]
    BY <1>3, <1>6
  <2> QED
    BY <2>1, <2>2, <2>3, <2>4 DEF Numbers
<1> HIDE DEF A, B, g, go
<1>11. SumFunctionOnSet(f, A) = SumFunctionOnSet(g, B)
  BY <1>8, <1>9, <1>10, SumCarried
<1>12. SumFunctionOnSet(g, B) <= SumFunctionOnSet(h, B)
  BY <1>8, <1>10, SumMono
<1>13. SumFunctionOnSet(f, A) \in Nat /\ SumFunctionOnSet(h, B) \in Nat
  BY <1>8, <1>10, SumType
<1> QED
  BY <1>11, <1>12, <1>13 DEF Ahead, f, h, A, B, s

-----------------------------------------------------------------------------
(* A round of filter_rxpc on a part of a rule base.                        *)

\* The rules that are left when rxpc has named some lines.
Left(w, lines, reported) ==
    {k \in DOMAIN w : /\ w[k].sid \in {w[i].sid : i \in ReadRules(w)} /\ Legal(w[k])
                      /\ w[k].sid \notin {SidOf(lines, i) : i \in reported}}

\* A round of the filter leaves a part of the rule base, with every rule that compiles.
LEMMA RoundKeeps ==
    ASSUME NEW db, WellFormed(db), Distinct(db),
           NEW K, K \subseteq DOMAIN db, Compiling(db) \subseteq K,
           K = DOMAIN db \/ K \subseteq Admitted(db),
           NEW w, w = Select(db, K), NEW lines, lines = RxpcLines(Select(w, ReadRules(w))),
           NEW reported, reported \in Reports(lines)
    PROVE  \E K2 \in SUBSET DOMAIN db :
              /\ Select(w, Left(w, lines, reported)) = Select(db, K2)
              /\ Compiling(db) \subseteq K2 /\ K2 \subseteq Admitted(db)
              /\ Cardinality(reported) \in Nat
              /\ Cardinality(reported) = 0 => K2 = Compiling(db)
<1> DEFINE c == Cardinality(K)
           read == ReadRules(w)
           part == Select(w, read)
           J == Left(w, lines, reported)
           K2 == {Nth(K, m) : m \in J}
<1>1. /\ IsList(db) /\ IsFiniteSet(K) /\ K \subseteq Nat /\ c \in Nat
      /\ WellFormed(w) /\ IsList(w) /\ DOMAIN w = 1 .. c
      /\ \A n \in 1 .. c : Nth(K, n) \in K /\ w[n] = db[Nth(K, n)]
      /\ \A i \in K : \E n \in 1 .. c : Nth(K, n) = i
  <2>1. IsList(db)
    BY DEF WellFormed
  <2>2. WellFormed(w)
    BY SelectWellFormed
  <2>3. IsList(w)
    BY <2>2 DEF WellFormed
  <2> QED
    BY <2>1, <2>2, <2>3, SelectIs
<1>2. \A m, n \in 1 .. c : w[m].sid = w[n].sid => m = n
  <2> TAKE m, n \in 1 .. c
  <2> HAVE w[m].sid = w[n].sid
  <2>1. Nth(K, m) = Nth(K, n)
    BY <1>1 DEF Distinct
  <2> QED
    BY <1>1, <2>1, NthOnce DEF c
<1>3. read \subseteq DOMAIN w
  BY DEF ReadRules
<1>4. WellFormed(part) /\ IsList(part) /\ Range(part) = {w[i] : i \in read}
  <2> HIDE DEF read
  <2>1. WellFormed(part)
    BY <1>1, <1>3, SelectWellFormed
  <2>2. IsList(part) /\ Range(part) = {w[i] : i \in read}
    BY <1>1, <1>3, SelectIs
  <2> QED
    BY <2>1, <2>2
<1>5. J \subseteq 1 .. c /\ J \subseteq read
  <2>1. J \subseteq DOMAIN w
    BY DEF Left
  <2>2. ASSUME NEW k \in J
        PROVE  k \in read
    <3>1. PICK i \in read : w[k].sid = w[i].sid
      BY DEF Left
    <3> QED
      BY <1>1, <1>2, <1>3, <2>1, <3>1
  <2> HIDE DEF J, read
  <2> QED
    BY <1>1, <2>1, <2>2
<1> DEFINE P == [i \in DOMAIN part |-> Submitted(part[i])]
<1>6. /\ IsList(lines) /\ DOMAIN lines = 1 .. Len(lines)
      /\ \A n \in DOMAIN lines : \E i \in read : \E p \in Range(Submitted(w[i])) :
            lines[n] = [sid |-> w[i].sid, pat |-> p]
      /\ \A i \in read : \A p \in Range(Submitted(w[i])) : \E n \in DOMAIN lines :
            lines[n] = [sid |-> w[i].sid, pat |-> p]
  <2>1. \A i \in DOMAIN part : IsList(Submitted(part[i]))
    BY <1>4, SubmittedIs DEF WellFormed
  <2>2. lines = Lines(part, P)
    BY DEF RxpcLines
  <2>3. DOMAIN P = DOMAIN part /\ \A i \in DOMAIN part : P[i] = Submitted(part[i])
    OBVIOUS
  <2>4. \A i \in DOMAIN part : part[i] \in Range(part)
    BY DEF Range
  <2>5. \A i \in read : \E k \in DOMAIN part : part[k] = w[i]
    BY <1>4 DEF Range
  <2> HIDE DEF part, P, read
  <2>6. /\ IsList(lines) /\ DOMAIN lines = 1 .. Len(lines)
        /\ \A n \in DOMAIN lines : \E i \in DOMAIN part : \E j \in DOMAIN P[i] :
              lines[n] = [sid |-> part[i].sid, pat |-> P[i][j]]
        /\ \A i \in DOMAIN part : \A j \in DOMAIN P[i] : \E n \in DOMAIN lines :
              lines[n] = [sid |-> part[i].sid, pat |-> P[i][j]]
    BY <1>4, <2>1, <2>2, <2>3, LinesIs
  <2>7. ASSUME NEW n \in DOMAIN lines
        PROVE  \E i \in read : \E p \in Range(Submitted(w[i])) : lines[n] = [sid |-> w[i].sid, pat |-> p]
    <3>1. PICK k \in DOMAIN part : \E j \in DOMAIN P[k] :
             lines[n] = [sid |-> part[k].sid, pat |-> P[k][j]]
      BY <2>6
    <3>2. PICK j \in DOMAIN P[k] : lines[n] = [sid |-> part[k].sid, pat |-> P[k][j]]
      BY <3>1
    <3>3. PICK i \in read : part[k] = w[i]
      BY <1>4, <2>4
    <3>4. P[k][j] \in Range(Submitted(w[i]))
      BY <2>3, <3>2, <3>3 DEF Range
    <3> QED
      BY <3>2, <3>3, <3>4
  <2>8. ASSUME NEW i \in read, NEW p \in Range(Submitted(w[i]))
        PROVE  \E n \in DOMAIN lines : lines[n] = [sid |-> w[i].sid, pat |-> p]
    <3>1. PICK k \in DOMAIN part : part[k] = w[i]
      BY <2>5
    <3>2. PICK j \in DOMAIN P[k] : P[k][j] = p
      BY <2>3, <3>1 DEF Range
    <3>3. PICK n \in DOMAIN lines : lines[n] = [sid |-> part[k].sid, pat |-> P[k][j]]
      BY <2>6
    <3> QED
      BY <3>1, <3>2, <3>3
  <2> QED
    BY <2>6, <2>7, <2>8
<1>7. /\ reported \subseteq DOMAIN lines
      /\ \A n \in reported : ~lines[n].pat.rxpc
      /\ reported = {} => \A n \in DOMAIN lines : lines[n].pat.rxpc
  BY DEF Reports
<1>8. Select(w, J) = Select(db, K2) /\ K2 \subseteq K
  <2>1. J \subseteq 1 .. Cardinality(K) /\ IsList(db)
    BY <1>1, <1>5 DEF c
  <2> HIDE DEF J
  <2>2. /\ Select(Select(db, K), J) = Select(db, {Nth(K, m) : m \in J})
        /\ {Nth(K, m) : m \in J} \subseteq K
    BY <2>1, SelectTwice
  <2> QED
    BY <2>2
<1>9. K2 \subseteq Admitted(db)
  <2> SUFFICES ASSUME NEW k \in J
               PROVE  Nth(K, k) \in Admitted(db)
    OBVIOUS
  <2>1. Legal(w[k]) /\ k \in read /\ k \in 1 .. c
    BY <1>5 DEF Left
  <2>2. CASE K \subseteq Admitted(db)
    BY <1>1, <2>1, <2>2
  <2>3. CASE K = DOMAIN db
    <3>1. w = db
      BY <1>1, <2>3, SelectAll
    <3>2. k \in K
      BY <1>1, <2>1, <2>3, <3>1
    <3>3. w[Nth(K, k)].sid = w[k].sid /\ Nth(K, k) \in 1 .. c
      BY <1>1, <2>1, <2>3, <3>1
    <3>4. Nth(K, k) = k
      BY <1>2, <2>1, <3>3
    <3> QED
      BY <2>1, <3>1, <3>4 DEF Admitted
  <2> QED
    BY <2>2, <2>3
<1>10. Compiling(db) \subseteq K2
  <2> SUFFICES ASSUME NEW g \in Compiling(db)
               PROVE  g \in K2
    OBVIOUS
  <2>1. PICK m \in 1 .. c : Nth(K, m) = g
    BY <1>1
  <2>2. w[m] = db[g] /\ m \in DOMAIN w
    BY <1>1, <2>1
  <2>3. Ahead(db, g) + 1 < MaxRules /\ Legal(db[g]) /\ \A p \in Range(Submitted(db[g])) : p.rxpc
    BY DEF Compiling, ReadRules
  <2>4. Ahead(w, m) <= Ahead(db, g) /\ Ahead(w, m) \in Nat /\ Ahead(db, g) \in Nat
    BY <1>1, <2>1, AheadLess DEF c
  <2>5. MaxRules \in Nat
    BY ToolsAssumption
  <2>6. m \in read
    BY <2>2, <2>3, <2>4, <2>5 DEF ReadRules
  <2>7. \A n \in reported : lines[n].sid # w[m].sid
    <3> SUFFICES ASSUME NEW n \in reported, lines[n].sid = w[m].sid
                 PROVE  FALSE
      OBVIOUS
    <3>1. PICK i \in read : \E p \in Range(Submitted(w[i])) : lines[n] = [sid |-> w[i].sid, pat |-> p]
      BY <1>6, <1>7
    <3>2. PICK p \in Range(Submitted(w[i])) : lines[n] = [sid |-> w[i].sid, pat |-> p]
      BY <3>1
    <3>3. i = m
      BY <1>1, <1>2, <1>3, <3>2
    <3>4. p.rxpc /\ ~p.rxpc
      BY <1>7, <2>2, <2>3, <3>2, <3>3
    <3> QED
      BY <3>4
  <2>8. m \in J
    BY <2>2, <2>3, <2>6, <2>7 DEF Left, SidOf
  <2> QED
    BY <2>1, <2>8
<1>11. IsFiniteSet(reported) /\ Cardinality(reported) \in Nat
  <2>1. Len(lines) \in Nat
    BY <1>6 DEF IsList
  <2>2. IsFiniteSet(1 .. Len(lines))
    BY <2>1, FS_Interval
  <2>3. IsFiniteSet(reported)
    BY <1>6, <1>7, <2>2, FS_Subset
  <2> QED
    BY <2>3, FS_CardinalityType
<1>12. ASSUME Cardinality(reported) = 0
       PROVE  K2 \subseteq Compiling(db)
  <2>2. reported = {}
    BY <1>12, <1>11, FS_EmptySet
  <2> SUFFICES ASSUME NEW k \in J
               PROVE  Nth(K, k) \in Compiling(db)
    OBVIOUS
  <2>3. k \in read /\ k \in 1 .. c
    BY <1>5
  <2>4. \A p \in Range(Submitted(w[k])) : p.rxpc
    <3> TAKE p \in Range(Submitted(w[k]))
    <3>1. PICK n \in DOMAIN lines : lines[n] = [sid |-> w[k].sid, pat |-> p]
      BY <1>6, <2>3
    <3> QED
      BY <1>7, <2>2, <3>1
  <2>5. Nth(K, k) \in Admitted(db) /\ w[k] = db[Nth(K, k)]
    BY <1>1, <1>9, <2>3
  <2> QED
    BY <2>4, <2>5 DEF Admitted, Compiling
<1>13. K2 \in SUBSET DOMAIN db
  BY <1>8
<1> HIDE DEF K2, J
<1> QED
  BY <1>8, <1>9, <1>10, <1>12, <1>13, <1>11 DEF J

LEMMA FilterKept ==
    ASSUME FilterInv, FilterRxpc
    PROVE  FilterInv'
<1>1. base \in RuleBases /\ tool' = "summary" /\ base' = base /\ iterative' = iterative
  BY DEF FilterInv, FilterRxpc
<1>2. WellFormed(base) /\ Distinct(base)
  BY <1>1, BasesAssumption DEF Distinct
<1>3. PICK K \in SUBSET DOMAIN base : Keeps(K)
  BY DEF FilterInv, FilterRxpc
<1> DEFINE lines == RxpcLines(Select(working, ReadRules(working)))
<1>4. PICK reported \in Reports(lines) :
         /\ uncompiled' = Cardinality(reported)
         /\ working' = Select(working, Left(working, lines, reported))
  <2>1. \E read \in {ReadRules(working)} : \E m \in {RxpcLines(Select(working, read))} :
        \E reported \in Reports(m) :
          /\ uncompiled' = Cardinality(reported)
          /\ working' = Select(working, {k \in DOMAIN working :
                 /\ working[k].sid \in {working[i].sid : i \in read} /\ Legal(working[k])
                 /\ working[k].sid \notin {SidOf(m, i) : i \in reported}})
    BY DEF FilterRxpc, DbIn
  <2>2. PICK read \in {ReadRules(working)} : \E m \in {RxpcLines(Select(working, read))} :
        \E reported \in Reports(m) :
          /\ uncompiled' = Cardinality(reported)
          /\ working' = Select(working, {k \in DOMAIN working :
                 /\ working[k].sid \in {working[i].sid : i \in read} /\ Legal(working[k])
                 /\ working[k].sid \notin {SidOf(m, i) : i \in reported}})
    BY <2>1
  <2>3. PICK m \in {RxpcLines(Select(working, read))} : \E reported \in Reports(m) :
          /\ uncompiled' = Cardinality(reported)
          /\ working' = Select(working, {k \in DOMAIN working :
                 /\ working[k].sid \in {working[i].sid : i \in read} /\ Legal(working[k])
                 /\ working[k].sid \notin {SidOf(m, i) : i \in reported}})
    BY <2>2
  <2>4. PICK reported \in Reports(m) :
          /\ uncompiled' = Cardinality(reported)
          /\ working' = Select(working, {k \in DOMAIN working :
                 /\ working[k].sid \in {working[i].sid : i \in read} /\ Legal(working[k])
                 /\ working[k].sid \notin {SidOf(m, i) : i \in reported}})
    BY <2>3
  <2>5. read = ReadRules(working) /\ m = lines
    BY <2>2, <2>3 DEF lines
  <2> HIDE DEF lines
  <2> QED
    BY <2>4, <2>5 DEF Left
<1> HIDE DEF lines
<1>5. PICK K2 \in SUBSET DOMAIN base :
         /\ Select(working, Left(working, lines, reported)) = Select(base, K2)
         /\ Compiling(base) \subseteq K2 /\ K2 \subseteq Admitted(base)
         /\ Cardinality(reported) \in Nat
         /\ Cardinality(reported) = 0 => K2 = Compiling(base)
  <2>1. /\ working = Select(base, K) /\ Compiling(base) \subseteq K
        /\ K = DOMAIN base \/ K \subseteq Admitted(base)
    BY <1>3 DEF Keeps
  <2> QED
    BY <1>2, <2>1, RoundKeeps DEF lines
<1>6. Keeps(K2)'
  BY <1>1, <1>4, <1>5 DEF Keeps
<1> QED
  BY <1>1, <1>6 DEF FilterInv

LEMMA MadeRules ==
    ASSUME NEW patterns, IsList(patterns), NEW first,
           \A i \in DOMAIN patterns : \E text, length : patterns[i] = Simple(text, length)
    PROVE  WellFormed(RulesOf(patterns, first)) /\ AllCompile(RulesOf(patterns, first))
<1> DEFINE db == RulesOf(patterns, first)
<1>1. /\ DOMAIN db = DOMAIN patterns
      /\ \A i \in DOMAIN patterns : db[i].content = <<patterns[i]>> /\ db[i].pcre = <<>>
  BY DEF RulesOf
<1>2. IsList(db)
  BY DEF RulesOf, IsList
<1> HIDE DEF db
<1>3. Range(<<>>) = {} /\ IsList(<<>>)
  BY DEF Range, IsList
<1>4. \A p : Range(<<p>>) = {p} /\ IsList(<<p>>)
  BY DEF Range, IsList
<1>5. ASSUME NEW i \in DOMAIN db
      PROVE  /\ IsList(db[i].content) /\ IsList(db[i].pcre)
             /\ Range(db[i].content) = {patterns[i]} /\ Range(db[i].pcre) = {}
  <2>1. db[i].content = <<patterns[i]>> /\ db[i].pcre = <<>>
    BY <1>1
  <2> QED
    BY <1>3, <1>4, <2>1
<1>6. \A i \in DOMAIN patterns : patterns[i].rxpc
  BY DEF Simple
<1>7. WellFormed(db)
  BY <1>2, <1>5 DEF WellFormed
<1>8. AllCompile(db)
  BY <1>1, <1>5, <1>6 DEF AllCompile
<1> QED
  BY <1>7, <1>8 DEF db

LEMMA MadeWords ==
    ASSUME NEW words, NEW K, NEW n \in Nat, NEW first
    PROVE  /\ WellFormed(RulesOf(Contained(FirstOf(words, K, n)), first))
           /\ AllCompile(RulesOf(Contained(FirstOf(words, K, n)), first))
<1> DEFINE patterns == Contained(FirstOf(words, K, n))
<1>1. IsList(patterns)
  BY DEF Contained, FirstOf, IsList
<1>2. \A i \in DOMAIN patterns : \E text, length : patterns[i] = Simple(text, length)
  BY DEF Contained
<1> HIDE DEF patterns
<1>3. WellFormed(RulesOf(patterns, first)) /\ AllCompile(RulesOf(patterns, first))
  BY <1>1, <1>2, MadeRules
<1> QED
  BY <1>3 DEF patterns

\* A rule base that a generator made is well-formed, and all of it compiles.
LEMMA MadeWell ==
    ASSUME NEW db \in MadeBases
    PROVE  WellFormed(db) /\ AllCompile(db)
<1>1. MaxPrefixes \in Nat
  BY ToolsAssumption
<1>2. CASE db = RulesFromPatterns(GenPrefixes(WordSize, Letters, MaxPrefixes))
  BY <1>1, <1>2, MadeWords DEF RulesFromPatterns, GenPrefixes
<1>3. CASE db = RulesOf(Contained(GenWords(WordSize, Letters, MaxPrefixes)), 1)
  BY <1>1, <1>3, MadeWords DEF GenWords
<1>4. CASE db \in RandomRules(MaxPrefixes)
  <2>1. PICK patterns \in [1 .. MaxPrefixes -> RandomRegexes] : db = RulesOf(patterns, 1)
    BY <1>4 DEF RandomRules
  <2>2. IsList(patterns) /\ DOMAIN patterns = 1 .. MaxPrefixes
    BY <1>1, <2>1 DEF IsList
  <2>3. \A i \in DOMAIN patterns : patterns[i] \in RandomRegexes
    BY <2>1
  <2>4. ASSUME NEW r \in RandomRegexes
        PROVE  \E text, length : r = Simple(text, length)
    BY DEF RandomRegexes, Simple
  <2> QED
    BY <2>1, <2>2, <2>3, <2>4, MadeRules
<1> QED
  BY <1>2, <1>3, <1>4 DEF MadeBases

LEMMA EmptyWell == WellFormed(<<>>) /\ AllCompile(<<>>)
BY DEF WellFormed, AllCompile, IsList

LEMMA FilterStart ==
    ASSUME ToolsInit
    PROVE  FilterInv /\ WorkingInv
<1>1. CASE tool = "rxpc"
  <2>1. base \in RuleBases /\ working = base /\ uncompiled = 0 /\ ~Filtered
    BY <1>1 DEF ToolsInit, Filtered
  <2>2. WellFormed(base) /\ IsList(base)
    BY <2>1, BasesAssumption DEF WellFormed
  <2>3. Compiling(base) \subseteq DOMAIN base
    BY DEF Compiling, ReadRules
  <2>4. working = Select(base, DOMAIN base)
    BY <2>1, <2>2, SelectAll
  <2>5. Keeps(DOMAIN base)
    BY <1>1, <2>1, <2>3, <2>4 DEF Keeps
  <2> QED
    BY <2>1, <2>2, <2>5 DEF FilterInv, WorkingInv
<1>2. CASE tool # "rxpc"
  <2>1. tool \notin {"rxpc", "summary", "hs"} /\ working = base /\ (base \in MadeBases \/ base = <<>>)
    BY <1>2 DEF ToolsInit
  <2>2. WellFormed(working) /\ AllCompile(working)
    BY <2>1, MadeWell, EmptyWell
  <2> QED
    BY <2>1, <2>2 DEF FilterInv, WorkingInv
<1> QED
  BY <1>1, <1>2

\* What is left in the end has no pattern that does not compile.
LEMMA CompilingCompiles ==
    ASSUME NEW db, WellFormed(db)
    PROVE  AllCompile(Select(db, Compiling(db)))
<1> DEFINE s == Select(db, Compiling(db))
<1>1. Compiling(db) \subseteq DOMAIN db /\ IsList(db)
  BY DEF Compiling, ReadRules, WellFormed
<1>2. \A n \in DOMAIN s : \E i \in Compiling(db) : s[n] = db[i]
  <2> DEFINE K == Compiling(db)
  <2> HIDE DEF K
  <2>1. \A n \in DOMAIN Select(db, K) : \E i \in K : Select(db, K)[n] = db[i]
    <3>1. K \subseteq DOMAIN db
      BY <1>1 DEF K
    <3> QED
      BY <1>1, <3>1, SelectIs
  <2> QED
    BY <2>1 DEF K
<1> HIDE DEF s
<1>3. ASSUME NEW i \in Compiling(db), NEW p \in Range(db[i].content) \cup Range(db[i].pcre)
      PROVE  p.rxpc
  <2>1. i \in DOMAIN db /\ Legal(db[i]) /\ \A q \in Range(Submitted(db[i])) : q.rxpc
    BY <1>1 DEF Compiling
  <2>2. Range(Submitted(db[i])) = Range(db[i].content) \cup Range(db[i].pcre)
    BY <2>1, SubmittedIs DEF WellFormed
  <2> QED
    BY <2>1, <2>2
<1>4. AllCompile(s)
  BY <1>2, <1>3 DEF AllCompile
<1> QED
  BY <1>4 DEF s

LEMMA FilterStep ==
    ASSUME FilterInv, WorkingInv, [ToolsNext]_toolVars
    PROVE  FilterInv' /\ WorkingInv'
<1> USE DEF filtering, running, doca, toolVars
<1>1. CASE FilterRxpc
  <2>1. FilterInv'
    BY <1>1, FilterKept
  <2>2. ~Filtered'
    BY <1>1 DEF FilterRxpc, Filtered
  <2>3. WellFormed(working')
    <3>1. base \in RuleBases /\ base' = base /\ tool' = "summary"
      BY <1>1 DEF FilterRxpc, FilterInv
    <3>2. PICK K \in SUBSET DOMAIN base : working' = Select(base, K)
      BY <2>1, <3>1 DEF FilterInv, Keeps
    <3> QED
      BY <3>1, <3>2, BasesAssumption, SelectWellFormed
  <2> QED
    BY <2>1, <2>2, <2>3 DEF WorkingInv
<1>2. CASE Summary
  <2>1. base \in RuleBases /\ WellFormed(base)
    BY <1>2, BasesAssumption DEF Summary, FilterInv
  <2>2. /\ tool' = (IF iterative /\ uncompiled > 0 THEN "rxpc" ELSE "hs")
        /\ UNCHANGED <<base, iterative, working, uncompiled>> /\ tool = "summary"
    BY <1>2 DEF Summary
  <2>3. PICK K \in SUBSET DOMAIN base : Keeps(K)
    BY <2>2 DEF FilterInv
  <2>4. (iterative /\ uncompiled > 0) \/ ~iterative \/ uncompiled = 0
    BY <2>3 DEF Keeps
  <2>5. Keeps(K)'
    <3>1. CASE iterative /\ uncompiled > 0
      BY <2>2, <2>3, <3>1 DEF Keeps
    <3>2. CASE ~(iterative /\ uncompiled > 0)
      <4>1. tool' = "hs" /\ (iterative => uncompiled = 0)
        BY <2>2, <2>4, <3>2
      <4> QED
        BY <2>2, <2>3, <4>1 DEF Keeps
    <3> QED
      BY <3>1, <3>2
  <2>6. FilterInv'
    BY <2>1, <2>2, <2>5 DEF FilterInv
  <2>7. ASSUME iterative, tool' = "hs"
        PROVE  AllCompile(working')
    <3>1. working' = Select(base, Compiling(base))
      BY <2>2, <2>5, <2>7 DEF Keeps
    <3> QED
      BY <2>1, <3>1, CompilingCompiles
  <2>8. WorkingInv'
    BY <2>2, <2>7 DEF WorkingInv, Filtered
  <2> QED
    BY <2>6, <2>8
<1>3. CASE FilterHyperscan
  <2>1. tool' \in {"failed", "sample"} /\ tool = "hs" /\ iterative' = iterative
    BY <1>3 DEF FilterHyperscan
  <2>2. working' = working \/ \E K \in SUBSET DOMAIN working : working' = Select(working, K)
    BY <1>3 DEF FilterHyperscan
  <2>3. /\ WellFormed(working')
        /\ AllCompile(working) => AllCompile(working')
    BY <2>2, SelectWellFormed DEF WorkingInv
  <2> QED
    BY <2>1, <2>3 DEF FilterInv, WorkingInv, Filtered
<1>4. ASSUME tool' \notin {"rxpc", "summary", "hs"}, Filtered, UNCHANGED <<working, iterative>>
      PROVE  FilterInv' /\ WorkingInv'
  BY <1>4 DEF FilterInv, WorkingInv, Filtered
<1>5. CASE Sample
  BY <1>4, <1>5 DEF Sample, Filtered
<1>6. CASE Extract
  BY <1>4, <1>6 DEF Extract, Filtered
<1>7. CASE Number
  BY <1>4, <1>7 DEF Number, Filtered
<1>8. CASE RulesToSubsets
  BY <1>4, <1>8 DEF RulesToSubsets, Filtered
<1>9. CASE ToHyperscan
  BY <1>4, <1>9 DEF ToHyperscan, Filtered
<1>10. CASE CleanFix
  BY <1>4, <1>10 DEF CleanFix, Filtered
<1>11. CASE DocaFilter
  BY <1>4, <1>11 DEF DocaFilter, Filtered
<1>12. CASE UNCHANGED toolVars
  BY <1>12 DEF FilterInv, Keeps, WorkingInv, Filtered
<1> QED
  BY <1>1, <1>2, <1>3, <1>5, <1>6, <1>7, <1>8, <1>9, <1>10, <1>11, <1>12 DEF ToolsNext, Ended

LEMMA FilterAlways == ToolsSpec => [](FilterInv /\ WorkingInv)
<1>1. ToolsInit => FilterInv /\ WorkingInv
  BY FilterStart
<1>2. FilterInv /\ WorkingInv /\ [ToolsNext]_toolVars => (FilterInv /\ WorkingInv)'
  BY FilterStep
<1> QED
  BY <1>1, <1>2, PTL DEF ToolsSpec

\* The iterated filter keeps exactly the rules of the rule base all of whose patterns
\* rxpc takes, for any rule bases with a sid of its own for every rule, any limit and
\* whatever rxpc chooses to name (filter_rxpc, full_rxpc_filter).
THEOREM WorkingSetIsExact == ToolsSpec => []WorkingSetExact
<1>1. FilterInv => WorkingSetExact
  BY DEF FilterInv, Keeps, WorkingSetExact, Compiling
<1> QED
  BY <1>1, FilterAlways, PTL

-----------------------------------------------------------------------------
(* The patterns of a run.                                                  *)
(*                                                                         *)
(* Each tool passes its list on, so the invariant follows it from file to  *)
(* file (RunInv).  The pipeline writes every pattern once (ExtractRight);  *)
(* whatever rounding does, the last subset makes the counts add up         *)
(* (DealtTotal), and cuts one behind the other are the list (CutsJoin).    *)

LEMMA FiniteRange ==
    ASSUME NEW s, IsList(s)
    PROVE  IsFiniteSet(Range(s))
<1>1. DOMAIN s = 1 .. Len(s) /\ Len(s) \in Nat /\ s = [i \in 1 .. Len(s) |-> s[i]]
  BY DEF IsList
<1> DEFINE n == Len(s)
<1> HIDE DEF n
<1>2. s \in Surjection(1 .. n, Range(s))
  BY <1>1 DEF Surjection, Range, n
<1>3. IsFiniteSet(1 .. n)
  BY <1>1, FS_Interval DEF n
<1> QED
  BY <1>2, <1>3, FS_Surjection

\* No element twice.
Once(s) == \A i, j \in DOMAIN s : s[i] = s[j] => i = j

\* SetToSeq lists a finite set, each element once.
LEMMA SetToSeqIs ==
    ASSUME NEW S, IsFiniteSet(S)
    PROVE  IsList(SetToSeq(S)) /\ Range(SetToSeq(S)) = S /\ Once(SetToSeq(S))
<1> DEFINE n == Cardinality(S)
           g == SetToSeq(S)
<1>1. n \in Nat /\ ExistsBijection(1 .. n, S)
  BY FS_CardinalityType
<1>2. \E f \in [1 .. n -> S] : IsInjective(f)
  BY <1>1 DEF ExistsBijection, Bijection, Injection
<1>3. g \in [1 .. n -> S] /\ IsInjective(g)
  BY <1>2 DEF SetToSeq
<1>4. g \in Injection(1 .. n, S)
  BY <1>3 DEF Injection
<1> HIDE DEF g
<1>5. g \in Surjection(1 .. n, S)
  <2>1. Cardinality(1 .. n) = n
    <3> HIDE DEF n
    <3> QED
      BY <1>1, FS_Interval
  <2> DEFINE D == 1 .. n
  <2>2. Cardinality(D) = Cardinality(S) /\ g \in Injection(D, S)
    BY <1>4, <2>1
  <2> HIDE DEF D
  <2>3. g \in Surjection(D, S)
    BY <2>2, FS_Injection
  <2> QED
    BY <2>3 DEF D
<1>6. IsList(g)
  BY <1>1, <1>3 DEF IsList
<1>7. Range(g) = S
  BY <1>3, <1>5 DEF Range, Surjection
<1>8. Once(g)
  BY <1>3 DEF Once, IsInjective
<1> QED
  BY <1>6, <1>7, <1>8 DEF g

LEMMA ConcatOnce ==
    ASSUME NEW s, IsList(s), Once(s), NEW t, IsList(t), Once(t), Range(s) \cap Range(t) = {}
    PROVE  Once(s \o t)
<1> DEFINE u == s \o t
           a == Len(s)
           b == Len(t)
<1>1. /\ IsList(u) /\ Len(u) = a + b
      /\ \A k \in 1 .. a : u[k] = s[k]
      /\ \A k \in 1 .. b : u[a + k] = t[k]
  BY ListConcat
<1>2. DOMAIN s = 1 .. a /\ DOMAIN t = 1 .. b /\ a \in Nat /\ b \in Nat
  BY DEF IsList
<1> HIDE DEF u, a, b
<1>3. DOMAIN u = 1 .. a + b
  BY <1>1, ListIsSeq
<1>4. \A k \in 1 .. a : u[k] = s[k] /\ u[k] \in Range(s) /\ k \in DOMAIN s
  BY <1>1, <1>2 DEF Range
<1>5. ASSUME NEW k \in DOMAIN u, ~(k <= a)
      PROVE  u[k] = t[k - a] /\ u[k] \in Range(t) /\ k - a \in DOMAIN t
  <2>1. k - a \in 1 .. b /\ k = a + (k - a)
    BY <1>2, <1>3, <1>5
  <2>2. u[k] = t[k - a]
    BY <1>1, <2>1
  <2> QED
    BY <1>2, <2>1, <2>2 DEF Range
<1>6. ASSUME NEW i \in DOMAIN u, NEW j \in DOMAIN u, u[i] = u[j]
      PROVE  i = j
  <2>1. i \in Nat /\ j \in Nat /\ (i <= a => i \in 1 .. a) /\ (j <= a => j \in 1 .. a)
    BY <1>2, <1>3
  <2>2. CASE i <= a /\ j <= a
    BY <1>4, <1>6, <2>1, <2>2 DEF Once
  <2>3. CASE ~(i <= a) /\ ~(j <= a)
    <3>1. i - a = j - a
      BY <1>5, <1>6, <2>3 DEF Once
    <3> QED
      BY <1>2, <2>1, <3>1
  <2>4. CASE (i <= a /\ ~(j <= a)) \/ (~(i <= a) /\ j <= a)
    BY <1>4, <1>5, <1>6, <2>1, <2>4
  <2> QED
    BY <2>2, <2>3, <2>4
<1> QED
  BY <1>6 DEF Once, u

\* The counts of the subsets are numbers and make the total, however they were rounded.
LEMMA DealtTotal ==
    ASSUME NEW r \in Seq(Nat), Total(r) = 10, NEW total \in Nat,
           NEW counts \in [DOMAIN r -> 0 .. total],
           \A i \in DOMAIN r : counts[i] \in Counts(r[i], total)
    PROVE  LET dealt == Dealt(counts, total)
           IN  /\ DOMAIN dealt = 1 .. Len(r) /\ Len(r) \in Nat
               /\ Numbers(dealt, 1 .. Len(r))
               /\ SumFunctionOnSet(dealt, 1 .. Len(r)) = total
<1> DEFINE n == Len(r)
           S == 1 .. n
           dealt == Dealt(counts, total)
<1>1. n \in Nat /\ DOMAIN r = S /\ DOMAIN counts = S /\ Len(counts) = n /\ IsFiniteSet(S)
  <2>1. n \in Nat /\ DOMAIN r = S
    OBVIOUS
  <2>2. counts \in [S -> 0 .. total]
    BY <2>1
  <2>3. DOMAIN counts = S /\ Len(counts) = n
    BY <2>1, <2>2
  <2>4. IsFiniteSet(S)
    <3> HIDE DEF n
    <3> QED
      BY <2>1, FS_Interval
  <2> QED
    BY <2>1, <2>3, <2>4
<1>2. n # 0
  <2> SUFFICES ASSUME n = 0
               PROVE  FALSE
    OBVIOUS
  <2>1. DOMAIN r = {}
    BY <1>1
  <2> QED
    BY <2>1, SumEmpty DEF Total
<1>3. n \in S
  BY <1>1, <1>2
<1>4. Numbers(counts, S) /\ Numbers(r, S)
  BY <1>1 DEF Numbers
<1>5. \A x \in S : 10 * counts[x] <= r[x] * total
  BY <1>1 DEF Counts
<1>6. SumFunctionOnSet(r, S) = 10
  BY <1>1 DEF Total
<1>7. 10 * SumFunctionOnSet(counts, S) <= 10 * total
  <2> HIDE DEF S, n
  <2>1. 10 * SumFunctionOnSet(counts, S) <= SumFunctionOnSet(r, S) * total
    BY <1>1, <1>4, <1>5, SumScaled
  <2> QED
    BY <1>6, <2>1
<1> DEFINE rest == SumFunctionOnSet(counts, S \ {n})
<1>8. /\ SumFunctionOnSet(counts, S) = counts[n] + rest
      /\ SumFunctionOnSet(counts, S) \in Nat /\ counts[n] \in Nat /\ rest \in Nat
  <2>1. SumFunctionOnSet(counts, S) \in Nat /\ SumFunctionOnSet(counts, S) = counts[n] + rest
    <3> HIDE DEF S, n
    <3>1. SumFunctionOnSet(counts, S) \in Nat
      BY <1>1, <1>4, SumType
    <3>2. SumFunctionOnSet(counts, S) = counts[n] + rest
      BY <1>1, <1>3, <1>4, SumTakeOut
    <3> QED
      BY <3>1, <3>2
  <2>2. IsFiniteSet(S \ {n}) /\ Numbers(counts, S \ {n})
    BY <1>1, <1>4, FS_Subset DEF Numbers
  <2>3. rest \in Nat
    <3> HIDE DEF S, n
    <3> QED
      BY <2>2, SumType
  <2> QED
    BY <1>3, <1>4, <2>1, <2>3 DEF Numbers
<1>9. dealt = [counts EXCEPT ![n] = total - (Total(counts) - counts[n])]
  BY <1>1 DEF Dealt
<1>10. Total(counts) = SumFunctionOnSet(counts, S)
  BY <1>1 DEF Total
<1>11. /\ DOMAIN dealt = S /\ dealt[n] = total - rest /\ dealt[n] \in Nat
       /\ \A x \in S \ {n} : dealt[x] = counts[x]
  <2> HIDE DEF S, n, rest, dealt
  <2>1. total - (Total(counts) - counts[n]) = total - rest /\ total - rest \in Nat
    BY <1>7, <1>8, <1>10
  <2> QED
    BY <1>1, <1>3, <1>9, <2>1
<1>12. Numbers(dealt, S)
  BY <1>4, <1>11 DEF Numbers
<1>13. SumFunctionOnSet(dealt, S) = total
  <2> HIDE DEF S, n, rest, dealt
  <2>1. SumFunctionOnSet(dealt, S) + counts[n] = SumFunctionOnSet(counts, S) + dealt[n]
    <3>1. /\ IsFiniteSet(S) /\ Numbers(counts, S) /\ Numbers(dealt, S) /\ n \in S
          /\ \A x \in S \ {n} : dealt[x] = counts[x]
      BY <1>1, <1>3, <1>4, <1>11, <1>12
    <3> QED
      BY <3>1, SumChange
  <2>2. SumFunctionOnSet(dealt, S) \in Nat
    BY <1>1, <1>12, SumType
  <2> QED
    BY <1>8, <1>11, <2>1, <2>2
<1> QED
  BY <1>1, <1>11, <1>12, <1>13

\* n pieces of s, of the lengths dealt, one behind the other.
AreCuts(cuts, s, dealt, n) ==
    /\ DOMAIN cuts = 1 .. n /\ cuts = [i \in 1 .. n |-> cuts[i]]
    /\ \A i \in 1 .. n :
          cuts[i] = SubSeq(s, SumFunctionOnSet(dealt, 1 .. (i - 1)) + 1,
                           SumFunctionOnSet(dealt, 1 .. (i - 1)) + 1 + dealt[i] - 1)

\* The subsets, one behind the other, are the list they are cut from.
LEMMA CutsJoin ==
    ASSUME NEW s, IsList(s), NEW n \in Nat, NEW dealt, DOMAIN dealt = 1 .. n,
           Numbers(dealt, 1 .. n), SumFunctionOnSet(dealt, 1 .. n) = Len(s),
           NEW cuts, AreCuts(cuts, s, dealt, n)
    PROVE  FlattenSeq(cuts) = s /\ Len(cuts) = n
<1> USE DEF AreCuts
<1> DEFINE before(i) == SumFunctionOnSet(dealt, 1 .. (i - 1))
<1>1. IsFiniteSet(1 .. n) /\ DOMAIN cuts = 1 .. n /\ Len(cuts) = n /\ IsList(cuts) /\ Len(s) \in Nat
  <2>1. IsFiniteSet(1 .. n)
    BY UptoFinite
  <2>2. DOMAIN cuts = 1 .. n /\ Len(s) \in Nat
    BY DEF IsList
  <2>3. Len(cuts) = n
    BY <2>2
  <2> QED
    BY <2>1, <2>2, <2>3 DEF IsList
<1>2. \A i \in 1 .. n :
         /\ before(i) \in Nat /\ dealt[i] \in Nat
         /\ SumFunctionOnSet(dealt, 1 .. i) = before(i) + dealt[i]
         /\ before(i) + dealt[i] <= Len(s)
  <2> TAKE i \in 1 .. n
  <2>1. /\ before(i) \in Nat /\ dealt[i] \in Nat
        /\ SumFunctionOnSet(dealt, 1 .. i) = before(i) + dealt[i]
    BY SumNext
  <2> DEFINE A == 1 .. i
             B == 1 .. n
  <2>2. A \subseteq B
    OBVIOUS
  <2>3. SumFunctionOnSet(dealt, A) <= SumFunctionOnSet(dealt, B)
    <3> HIDE DEF A
    <3> QED
      BY <1>1, <2>2, SumWithin
  <2> QED
    BY <2>1, <2>3
<1>3. \A i \in 1 .. n : cuts[i] = SubSeq(s, before(i) + 1, before(i) + 1 + dealt[i] - 1)
  OBVIOUS
<1> HIDE DEF before
<1>4. ASSUME NEW i \in 1 .. n
      PROVE  /\ IsList(cuts[i]) /\ Len(cuts[i]) = dealt[i]
             /\ \A j \in 1 .. dealt[i] : cuts[i][j] = s[before(i) + j]
  <2>1. /\ before(i) \in Nat /\ dealt[i] \in Nat /\ before(i) + dealt[i] <= Len(s)
        /\ before(i) + 1 + dealt[i] - 1 = before(i) + dealt[i]
    BY <1>2
  <2> DEFINE a == before(i)
             b == dealt[i]
  <2>2. cuts[i] = SubSeq(s, a + 1, a + b)
    BY <1>3, <2>1
  <2>3. cuts[i] = [j \in 1 .. b |-> s[a + j]]
    <3> DEFINE S == {s[k] : k \in DOMAIN s}
    <3>1. s \in Seq(S)
      BY ListIsSeq
    <3> HIDE DEF S, a, b
    <3>2. a \in Nat /\ b \in Nat /\ a + b <= Len(s)
      BY <2>1 DEF a, b
    <3>3. SubSeq(s, a + 1, a + b) = [j \in 1 .. b |-> s[a + j]]
      BY <3>1, <3>2
    <3> QED
      BY <2>2, <3>3
  <2> HIDE DEF a, b
  <2>4. b \in Nat
    BY <2>1 DEF b
  <2>5. IsList(cuts[i]) /\ Len(cuts[i]) = b /\ \A j \in 1 .. b : cuts[i][j] = s[a + j]
    <3> DEFINE v == cuts[i]
    <3>1. v = [j \in 1 .. b |-> s[a + j]]
      BY <2>3
    <3> HIDE DEF v
    <3>2. DOMAIN v = 1 .. b /\ Len(v) = b /\ \A j \in 1 .. b : v[j] = s[a + j]
      BY <2>4, <3>1
    <3>3. v = [j \in 1 .. b |-> v[j]]
      BY <3>1
    <3>4. IsList(v)
      BY <2>4, <3>2, <3>3 DEF IsList
    <3> QED
      BY <3>2, <3>4 DEF v
  <2> QED
    BY <2>5 DEF a, b
<1>5. Lists(cuts)
  BY <1>1, <1>4 DEF Lists
<1> DEFINE u == FlattenSeq(cuts)
<1>6. Joins(u, cuts, n)
  BY <1>1, <1>5, FlattenIs
<1> HIDE DEF u
<1>7. \A i \in 1 .. n : Lens(cuts)[i] = dealt[i]
  BY <1>1, <1>4 DEF Lens
<1>8. SumFunctionOnSet(Lens(cuts), 1 .. n) = Len(s)
  <2> DEFINE S == 1 .. n
             f == Lens(cuts)
  <2>1. \A x \in S : f[x] = dealt[x]
    BY <1>7
  <2> HIDE DEF f
  <2>2. SumFunctionOnSet(f, S) = SumFunctionOnSet(dealt, S)
    BY <1>1, <2>1, SumSame
  <2> QED
    BY <2>2 DEF f
<1>9. ASSUME NEW i \in 1 .. n
      PROVE  Offset(cuts, i) = before(i)
  <2> DEFINE S == 1 .. (i - 1)
             f == Lens(cuts)
  <2>1. S \subseteq 1 .. n
    OBVIOUS
  <2>2. IsFiniteSet(S) /\ Numbers(dealt, S) /\ \A x \in S : f[x] = dealt[x]
    BY <1>1, <1>7, <2>1, FS_Subset DEF Numbers
  <2> HIDE DEF S, f
  <2>3. SumFunctionOnSet(f, S) = SumFunctionOnSet(dealt, S)
    BY <2>2, SumSame
  <2> QED
    BY <2>3 DEF S, f, Offset, before
<1>10. ASSUME NEW k \in 1 .. Len(s)
       PROVE  u[k] = s[k]
  <2>1. k \in 1 .. Len(u)
    BY <1>6, <1>8 DEF Joins
  <2>2. PICK i \in 1 .. n : \E j \in 1 .. Len(cuts[i]) : k = Offset(cuts, i) + j
    BY <1>6, <2>1 DEF Joins
  <2>3. PICK j \in 1 .. Len(cuts[i]) : k = Offset(cuts, i) + j
    BY <2>2
  <2>4. u[k] = cuts[i][j]
    BY <1>6, <2>3 DEF Joins
  <2>5. cuts[i][j] = s[before(i) + j]
    BY <1>4
  <2> QED
    BY <1>9, <2>3, <2>4, <2>5
<1>11. IsList(u) /\ Len(u) = Len(s)
  BY <1>6, <1>8 DEF Joins
<1>12. u = s
  <2>1. u = [k \in 1 .. Len(s) |-> u[k]] /\ s = [k \in 1 .. Len(s) |-> s[k]]
    BY <1>11 DEF IsList
  <2>2. [k \in 1 .. Len(s) |-> u[k]] = [k \in 1 .. Len(s) |-> s[k]]
    BY <1>10
  <2> QED
    BY <2>1, <2>2
<1> QED
  BY <1>1, <1>12 DEF u

\* The patterns of one kind that are extracted: the long ones, each once.
LEMMA UniqueIs ==
    ASSUME NEW s, IsList(s)
    PROVE  /\ IsList(Unique(s)) /\ Once(Unique(s))
           /\ Range(Unique(s)) = {p \in Range(s) : p.long}
<1> DEFINE S == {p \in Range(s) : p.long}
<1>1. IsFiniteSet(S)
  BY FiniteRange, FS_Subset
<1> HIDE DEF S
<1>2. IsList(SetToSeq(S)) /\ Range(SetToSeq(S)) = S /\ Once(SetToSeq(S))
  BY <1>1, SetToSeqIs
<1> QED
  BY <1>2 DEF S, Unique

LEMMA ExtractedAre ==
    ASSUME NEW db, IsList(db), \A i \in DOMAIN db : IsList(db[i].content) /\ IsList(db[i].pcre)
    PROVE  /\ IsList(Contents(db))
           /\ Range(Contents(db)) = UNION {Range(db[i].content) : i \in DOMAIN db}
           /\ IsList(Pcres(db))
           /\ Range(Pcres(db)) = UNION {Range(db[i].pcre) : i \in DOMAIN db}
<1> DEFINE c == [i \in DOMAIN db |-> db[i].content]
           p == [i \in DOMAIN db |-> db[i].pcre]
<1>1. DOMAIN db = 1 .. Len(db) /\ Len(db) \in Nat
  BY DEF IsList
<1>2. /\ DOMAIN c = DOMAIN db /\ \A i \in DOMAIN db : c[i] = db[i].content
      /\ DOMAIN p = DOMAIN db /\ \A i \in DOMAIN db : p[i] = db[i].pcre
  OBVIOUS
<1>3. IsList(c) /\ IsList(p)
  BY <1>1 DEF IsList
<1> HIDE DEF c, p
<1>4. Lists(c) /\ Lists(p)
  BY <1>2, <1>3 DEF Lists
<1>5. /\ IsList(FlattenSeq(c)) /\ Range(FlattenSeq(c)) = UNION {Range(c[i]) : i \in DOMAIN c}
      /\ IsList(FlattenSeq(p)) /\ Range(FlattenSeq(p)) = UNION {Range(p[i]) : i \in DOMAIN p}
  BY <1>4, FlattenRange
<1>6. UNION {Range(c[i]) : i \in DOMAIN c} = UNION {Range(db[i].content) : i \in DOMAIN db}
  BY <1>2
<1>7. UNION {Range(p[i]) : i \in DOMAIN p} = UNION {Range(db[i].pcre) : i \in DOMAIN db}
  BY <1>2
<1>8. Contents(db) = FlattenSeq(c) /\ Pcres(db) = FlattenSeq(p)
  BY DEF Contents, Pcres, c, p
<1> QED
  BY <1>5, <1>6, <1>7, <1>8

\* The rules of a sample are rules of the working set.
LEMMA SampledAre ==
    ASSUME WellFormed(working), SampledRight
    PROVE  /\ \A i \in DOMAIN sampled : \E k \in DOMAIN working : sampled[i] = working[k]
           /\ \A i \in DOMAIN sampled : IsList(sampled[i].content) /\ IsList(sampled[i].pcre)
           /\ \A i, j \in DOMAIN sampled : Range(sampled[i].content) \cap Range(sampled[j].pcre) = {}
           /\ iterative /\ AllCompile(working) => \A p \in Asked : p.rxpc
<1>1. \A i \in DOMAIN sampled : \E k \in DOMAIN working : sampled[i] = working[k]
  BY DEF SampledRight, Range
<1>2. /\ \A i \in DOMAIN sampled : IsList(sampled[i].content) /\ IsList(sampled[i].pcre)
      /\ \A i, j \in DOMAIN sampled : Range(sampled[i].content) \cap Range(sampled[j].pcre) = {}
  BY <1>1 DEF WellFormed
<1>3. ASSUME AllCompile(working), NEW p \in Asked
      PROVE  p.rxpc
  <2>1. PICK j \in DOMAIN sampled : \E k \in kws : p \in Range(sampled[j][k])
    BY DEF Asked
  <2>2. PICK k \in kws : p \in Range(sampled[j][k])
    BY <2>1
  <2>3. k = "content" \/ k = "pcre"
    BY DEF SampledRight, Keywords
  <2>4. p \in Range(sampled[j].content) \cup Range(sampled[j].pcre)
    BY <2>2, <2>3
  <2> QED
    BY <1>1, <1>3, <2>4 DEF AllCompile
<1> QED
  BY <1>1, <1>2, <1>3

\* The file of patterns has the long ones of the keywords asked for, each once.
LEMMA ExtractRight ==
    ASSUME WorkingInv, SampledRight, Extract
    PROVE  RegexesRight'
<1> DEFINE c == IF "content" \in kws THEN Unique(Contents(sampled)) ELSE <<>>
           p == IF "pcre" \in kws THEN Unique(Pcres(sampled)) ELSE <<>>
           C == UNION {Range(sampled[i].content) : i \in DOMAIN sampled}
           P == UNION {Range(sampled[i].pcre) : i \in DOMAIN sampled}
<1>1. WellFormed(working)
  BY DEF WorkingInv
<1>2. IsList(sampled)
  BY DEF SampledRight
<1>3. /\ \A i \in DOMAIN sampled : IsList(sampled[i].content) /\ IsList(sampled[i].pcre)
      /\ \A i, j \in DOMAIN sampled : Range(sampled[i].content) \cap Range(sampled[j].pcre) = {}
  BY <1>1, SampledAre
<1>4. IsList(<<>>) /\ Range(<<>>) = {} /\ Once(<<>>)
  BY DEF IsList, Range, Once
<1>5. /\ IsList(Contents(sampled)) /\ Range(Contents(sampled)) = C
      /\ IsList(Pcres(sampled)) /\ Range(Pcres(sampled)) = P
  BY <1>2, <1>3, ExtractedAre
<1> HIDE DEF C, P
<1>6. /\ IsList(c) /\ Once(c)
      /\ Range(c) = IF "content" \in kws THEN {x \in C : x.long} ELSE {}
  BY <1>4, <1>5, UniqueIs
<1>7. /\ IsList(p) /\ Once(p)
      /\ Range(p) = IF "pcre" \in kws THEN {x \in P : x.long} ELSE {}
  BY <1>4, <1>5, UniqueIs
<1>8. regexes' = c \o p /\ sampled' = sampled /\ kws' = kws
  BY DEF Extract, running
<1> HIDE DEF c, p
<1>9. C \cap P = {}
  BY <1>3 DEF C, P
<1>10. Range(c) \cap Range(p) = {}
  BY <1>6, <1>7, <1>9
<1> DEFINE u == c \o p
<1>11. IsList(u) /\ Once(u) /\ Range(u) = Range(c) \cup Range(p)
  BY <1>6, <1>7, <1>10, ListConcat, ConcatOnce, ConcatRange
<1>12. Asked = (IF "content" \in kws THEN C ELSE {}) \cup (IF "pcre" \in kws THEN P ELSE {})
  <2>1. kws \subseteq {"content", "pcre"}
    BY DEF SampledRight, Keywords
  <2>2. ASSUME NEW x \in Asked
        PROVE  ("content" \in kws /\ x \in C) \/ ("pcre" \in kws /\ x \in P)
    <3>1. PICK j \in DOMAIN sampled : \E k \in kws : x \in Range(sampled[j][k])
      BY DEF Asked
    <3>2. PICK k \in kws : x \in Range(sampled[j][k])
      BY <3>1
    <3>3. k = "content" \/ k = "pcre"
      BY <2>1
    <3> QED
      BY <3>2, <3>3 DEF C, P
  <2>3. ASSUME "content" \in kws
        PROVE  C \subseteq Asked
    BY <2>3 DEF C, Asked
  <2>4. ASSUME "pcre" \in kws
        PROVE  P \subseteq Asked
    BY <2>4 DEF P, Asked
  <2> QED
    BY <2>2, <2>3, <2>4
<1>13. Range(u) = {x \in Asked : x.long}
  BY <1>6, <1>7, <1>11, <1>12
<1>14. Asked' = Asked
  BY <1>8 DEF Asked
<1> HIDE DEF u
<1>15. regexes' = u
  BY <1>8 DEF u
<1> QED
  BY <1>11, <1>13, <1>14, <1>15 DEF RegexesRight, Once

\* The subsets, one behind the other, are the numbered list.
LEMMA DealtRight ==
    ASSUME RunInv, RulesToSubsets, tool' = "done"
    PROVE  FlattenSeq(subsets') = numbered' /\ Len(subsets') = Len(ratio')
<1>1. /\ RegexesRight /\ ratio \in Ratios
      /\ numbered = [i \in DOMAIN regexes |-> <<i, regexes[i]>>]
  BY DEF RunInv, RulesToSubsets
<1>2. ratio \in Seq(Nat)
  BY <1>1, RatiosAssumption
<1>3. IsList(numbered) /\ Len(numbered) \in Nat
  <2>1. IsList(regexes) /\ DOMAIN regexes = 1 .. Len(regexes) /\ Len(regexes) \in Nat
    BY <1>1 DEF RegexesRight, IsList
  <2> DEFINE n == Len(regexes)
  <2> HIDE DEF n
  <2>2. DOMAIN numbered = 1 .. n /\ n \in Nat /\ numbered = [i \in 1 .. n |-> numbered[i]]
    BY <1>1, <2>1 DEF n
  <2> QED
    BY <2>2 DEF IsList
<1>4. Total(ratio) = 10
  BY DEF RulesToSubsets
<1>5. PICK counts \in [DOMAIN ratio -> 0 .. Len(numbered)] :
         /\ \A i \in DOMAIN ratio : counts[i] \in Counts(ratio[i], Len(numbered))
         /\ LET dealt == Dealt(counts, Len(numbered))
                First(i) == SumFunctionOnSet(dealt, 1 .. (i - 1)) + 1
            IN subsets' = [i \in DOMAIN dealt |-> SubSeq(numbered, First(i), First(i) + dealt[i] - 1)]
  BY DEF RulesToSubsets
<1> DEFINE dealt == Dealt(counts, Len(numbered))
           n == Len(ratio)
<1>6. /\ DOMAIN dealt = 1 .. n /\ n \in Nat /\ Numbers(dealt, 1 .. n)
      /\ SumFunctionOnSet(dealt, 1 .. n) = Len(numbered)
  BY <1>2, <1>3, <1>4, <1>5, DealtTotal
<1>7. subsets' = [i \in DOMAIN dealt |->
                     SubSeq(numbered, SumFunctionOnSet(dealt, 1 .. (i - 1)) + 1,
                            SumFunctionOnSet(dealt, 1 .. (i - 1)) + 1 + dealt[i] - 1)]
  BY <1>5
<1> HIDE DEF dealt, n
<1> DEFINE cuts == [i \in DOMAIN dealt |->
                     SubSeq(numbered, SumFunctionOnSet(dealt, 1 .. (i - 1)) + 1,
                            SumFunctionOnSet(dealt, 1 .. (i - 1)) + 1 + dealt[i] - 1)]
<1>8. FlattenSeq(cuts) = numbered /\ Len(cuts) = n
  <2>1. \A i \in 1 .. n :
           cuts[i] = SubSeq(numbered, SumFunctionOnSet(dealt, 1 .. (i - 1)) + 1,
                            SumFunctionOnSet(dealt, 1 .. (i - 1)) + 1 + dealt[i] - 1)
    BY <1>6
  <2>2. DOMAIN cuts = 1 .. n /\ cuts = [i \in 1 .. n |-> cuts[i]]
    BY <1>6
  <2> HIDE DEF cuts
  <2> QED
    <3>1. AreCuts(cuts, numbered, dealt, n)
      BY <2>1, <2>2 DEF AreCuts
    <3> QED
      BY <1>3, <1>6, <3>1, CutsJoin
<1>9. numbered' = numbered /\ ratio' = ratio
  BY DEF RulesToSubsets
<1> QED
  BY <1>7, <1>8, <1>9 DEF n

LEMMA RunStart == ToolsInit => RunInv
BY DEF ToolsInit, RunInv

LEMMA RunStep ==
    ASSUME WorkingInv, RunInv, [ToolsNext]_toolVars
    PROVE  RunInv'
<1> USE DEF filtering, running, doca, toolVars
<1>1. ASSUME subsets = <<>>, UNCHANGED running, tool \notin {"done", "extract", "number", "convert", "subsets"},
             tool' \notin {"extract", "number", "convert", "subsets"}
      PROVE  RunInv'
  BY <1>1 DEF RunInv
<1>2. CASE FilterRxpc
  BY <1>1, <1>2 DEF FilterRxpc, RunInv
<1>3. CASE Summary
  BY <1>1, <1>3 DEF Summary, RunInv
<1>4. CASE FilterHyperscan
  BY <1>1, <1>4 DEF FilterHyperscan, RunInv
<1>5. CASE Sample
  <2>1. /\ tool = "sample" /\ tool' = "extract" /\ subsets' = subsets /\ working' = working
        /\ kws' \in SUBSET Keywords
    BY <1>5 DEF Sample
  <2>2. subsets = <<>>
    BY <2>1 DEF RunInv
  <2>3. PICK some \in SUBSET Range(working) : sampled' \in SetToSeqs(some)
    BY <1>5 DEF Sample
  <2>4. IsFiniteSet(some)
    <3>1. IsFiniteSet(Range(working))
      BY FiniteRange DEF WorkingInv, WellFormed
    <3> QED
      BY <3>1, FS_Subset
  <2>5. sampled' \in [1 .. Cardinality(some) -> some]
    BY <2>3 DEF SetToSeqs
  <2>6. Cardinality(some) \in Nat
    BY <2>4, FS_CardinalityType
  <2>7. IsList(sampled')
    BY <2>5, <2>6 DEF IsList
  <2>8. Range(sampled') \subseteq Range(working')
    BY <2>1, <2>5 DEF Range
  <2>9. SampledRight'
    BY <2>1, <2>7, <2>8 DEF SampledRight
  <2> QED
    BY <2>1, <2>2, <2>9 DEF RunInv
<1>6. CASE Extract
  <2>1. /\ tool = "extract" /\ tool' \in {"number", "convert"}
        /\ UNCHANGED <<kws, sampled, subsets, working>>
    BY <1>6 DEF Extract
  <2>2. SampledRight /\ subsets = <<>>
    BY <2>1 DEF RunInv
  <2>3. SampledRight'
    BY <2>1, <2>2 DEF SampledRight
  <2>4. RegexesRight'
    BY <1>6, <2>2, ExtractRight
  <2> QED
    BY <2>1, <2>2, <2>3, <2>4 DEF RunInv
<1>7. ASSUME UNCHANGED <<kws, sampled, regexes, working>>
      PROVE  (SampledRight => SampledRight') /\ (RegexesRight => RegexesRight')
  BY <1>7 DEF SampledRight, RegexesRight, Asked
<1>8. CASE Number
  <2>1. /\ tool = "number" /\ tool' = "subsets" /\ UNCHANGED <<kws, sampled, regexes, working, subsets>>
        /\ numbered' = [i \in DOMAIN regexes |-> <<i, regexes[i]>>] /\ ratio' \in Ratios
    BY <1>8 DEF Number
  <2>2. SampledRight /\ RegexesRight /\ subsets = <<>>
    BY <2>1 DEF RunInv
  <2>3. SampledRight' /\ RegexesRight'
    BY <1>7, <2>1, <2>2
  <2> QED
    BY <2>1, <2>2, <2>3 DEF RunInv
<1>9. CASE RulesToSubsets
  <2>1. /\ tool = "subsets" /\ tool' \in {"done", "failed"}
        /\ UNCHANGED <<kws, sampled, regexes, working, numbered, ratio>>
        /\ tool' = "failed" => subsets' = subsets
    BY <1>9 DEF RulesToSubsets
  <2>2. /\ SampledRight /\ RegexesRight /\ subsets = <<>> /\ ratio \in Ratios
        /\ numbered = [i \in DOMAIN regexes |-> <<i, regexes[i]>>]
    BY <2>1 DEF RunInv
  <2>3. SampledRight' /\ RegexesRight'
    BY <1>7, <2>1, <2>2
  <2>4. tool' = "done" => FlattenSeq(subsets') = numbered' /\ Len(subsets') = Len(ratio')
    BY <1>9, DealtRight
  <2> QED
    BY <2>1, <2>2, <2>3, <2>4 DEF RunInv
<1>10. CASE ToHyperscan
  BY <1>10 DEF ToHyperscan, RunInv
<1>11. CASE CleanFix
  BY <1>1, <1>11 DEF CleanFix, RunInv
<1>12. CASE DocaFilter
  BY <1>12 DEF DocaFilter, RunInv
<1>13. CASE UNCHANGED toolVars
  BY <1>7, <1>13 DEF RunInv
<1> QED
  BY <1>2, <1>3, <1>4, <1>5, <1>6, <1>8, <1>9, <1>10, <1>11, <1>12, <1>13 DEF ToolsNext, Ended

\* Every long pattern asked for is in exactly one subset, under a number of its own,
\* for any sample, ratios that make 1, and roundings (extract_contents, extract_pcres,
\* rules_to_subsets).
THEOREM AllPatternsDealtOut == ToolsSpec => []PatternsDealtOut
<1>1. ToolsInit => FilterInv /\ WorkingInv /\ RunInv
  BY FilterStart, RunStart
<1>2. FilterInv /\ WorkingInv /\ RunInv /\ [ToolsNext]_toolVars => (FilterInv /\ WorkingInv /\ RunInv)'
  BY FilterStep, RunStep
<1>3. WorkingInv /\ RunInv => PatternsDealtOut
  <2> SUFFICES ASSUME WorkingInv, RunInv, tool = "done", subsets # <<>>
               PROVE  PatternsDealtOut
    BY DEF PatternsDealtOut
  <2> DEFINE list == FlattenSeq(subsets)
  <2>1. /\ SampledRight /\ RegexesRight /\ list = numbered /\ Len(subsets) = Len(ratio)
        /\ numbered = [i \in DOMAIN regexes |-> <<i, regexes[i]>>]
    BY DEF RunInv
  <2> HIDE DEF list
  <2>2. DOMAIN list = DOMAIN regexes /\ \A i \in DOMAIN list : list[i][1] = i /\ list[i][2] = regexes[i]
    BY <2>1
  <2>3. {list[i][2] : i \in DOMAIN list} = {p \in Asked : p.long}
    <3>1. {list[i][2] : i \in DOMAIN list} = Range(regexes)
      BY <2>2 DEF Range
    <3> QED
      BY <2>1, <3>1 DEF RegexesRight
  <2>4. \A i, j \in DOMAIN list : list[i][2] = list[j][2] => i = j
    BY <2>1, <2>2 DEF RegexesRight
  <2>5. iterative => \A i \in DOMAIN list : list[i][2].rxpc
    <3>1. \A i \in DOMAIN list : list[i][2] \in Asked
      BY <2>3
    <3>2. iterative => AllCompile(working) /\ WellFormed(working)
      BY DEF WorkingInv, Filtered
    <3> QED
      BY <2>1, <3>1, <3>2, SampledAre
  <2> QED
    BY <2>1, <2>2, <2>3, <2>4, <2>5 DEF PatternsDealtOut, list, Asked
<1> QED
  BY <1>1, <1>2, <1>3, PTL DEF ToolsSpec

-----------------------------------------------------------------------------
(* The rules for DOCA.                                                     *)
(*                                                                         *)
(* The loops walk over two lists by indices, one of which is counted from  *)
(* the end of a list that becomes shorter.  The proof goes by the places   *)
(* of the options in the rule instead, which ascend in both lists.  The    *)
(* invariant of the loop (Taken) says which options in front of the index  *)
(* have been kept, and that no modifier behind it belongs to an unwanted   *)
(* content in front of it: the way forward does not stop in the middle of  *)
(* its modifiers.  That is where IsRule enters.                            *)

IsOption(o) == o = [name |-> o.name, neg |-> o.neg, at |-> o.at] /\ o.at \in Nat

\* A list of options in the order of the rule.
Ordered(s) ==
    /\ IsList(s) /\ \A i \in DOMAIN s : IsOption(s[i])
    /\ \A i, j \in DOMAIN s : i < j => s[i].at < s[j].at

LEMMA OrderedAt ==
    ASSUME NEW s, Ordered(s), NEW i \in DOMAIN s, NEW j \in DOMAIN s
    PROVE  /\ i \in Nat /\ j \in Nat /\ s[i].at \in Nat /\ s[j].at \in Nat
           /\ s[i].at < s[j].at <=> i < j
           /\ s[i] = s[j] => i = j
<1>1. i \in Nat /\ j \in Nat
  BY DEF Ordered, IsList
<1>2. s[i].at \in Nat /\ s[j].at \in Nat
  BY DEF Ordered, IsOption
<1>3. i < j => s[i].at < s[j].at
  BY DEF Ordered
<1>4. j < i => s[j].at < s[i].at
  BY DEF Ordered
<1>5. i < j \/ j < i \/ i = j
  BY <1>1
<1> QED
  BY <1>1, <1>2, <1>3, <1>4, <1>5

LEMMA SelectOrdered ==
    ASSUME NEW s, Ordered(s), NEW K, K \subseteq DOMAIN s
    PROVE  Ordered(Select(s, K)) /\ Range(Select(s, K)) = {s[i] : i \in K}
<1> DEFINE t == Select(s, K)
           c == Cardinality(K)
<1>1. /\ IsFiniteSet(K) /\ K \subseteq Nat /\ IsList(t) /\ DOMAIN t = 1 .. c
      /\ \A n \in 1 .. c : Nth(K, n) \in K /\ t[n] = s[Nth(K, n)]
      /\ Range(t) = {s[i] : i \in K}
  BY SelectIs DEF Ordered
<1>2. \A m, n \in 1 .. c : m < n => Nth(K, m) < Nth(K, n)
  BY <1>1, NthAscends
<1> HIDE DEF t, c
<1>3. \A i \in DOMAIN t : IsOption(t[i])
  BY <1>1 DEF Ordered
<1>4. \A m, n \in DOMAIN t : m < n => t[m].at < t[n].at
  BY <1>1, <1>2 DEF Ordered
<1> QED
  BY <1>1, <1>3, <1>4 DEF Ordered, t

LEMMA WithoutIs ==
    ASSUME NEW s, Ordered(s), NEW names
    PROVE  /\ Ordered(Without(s, names))
           /\ Range(Without(s, names)) = {o \in Range(s) : o.name \notin names}
<1> DEFINE K == {i \in DOMAIN s : s[i].name \notin names}
<1>1. K \subseteq DOMAIN s /\ {s[i] : i \in K} = {o \in Range(s) : o.name \notin names}
  BY DEF Range
<1> HIDE DEF K
<1>2. Ordered(Select(s, K)) /\ Range(Select(s, K)) = {s[i] : i \in K}
  BY <1>1, SelectOrdered
<1> QED
  BY <1>1, <1>2 DEF Without, K

-----------------------------------------------------------------------------
(* The way back takes out nothing but buffers.                             *)

Buffers == HttpBuffers \cup DnsBuffers

\* k is s without some of its buffers.
Trims(k, s) ==
    /\ Ordered(k) /\ Range(k) \subseteq Range(s)
    /\ \A o \in Range(s) : o \notin Range(k) => o.name \in Buffers

IsBackState(st, s) ==
    \E a, b, k : st = [stop |-> a, back |-> b, kept |-> k] /\ Trims(k, s)

LEMMA DelPrefixedTrims ==
    ASSUME NEW s, NEW st, IsBackState(st, s), NEW names, names \subseteq Buffers,
           NEW t \in DelPrefixed(st, names)
    PROVE  IsBackState(t, s)
<1>1. PICK a, b, k : st = [stop |-> a, back |-> b, kept |-> k] /\ Trims(k, s)
  BY DEF IsBackState
<1> DEFINE p == Len(k) - b + 1
           d == Select(k, DOMAIN k \ {p})
<1>2. st.back = b /\ st.kept = k
  BY <1>1
<1>3. t = st \/ (k[p].name \in names /\ t = [st EXCEPT !.kept = d])
  BY <1>2 DEF DelPrefixed, FromEnd, DelFromEnd
<1>4. CASE t = st
  BY <1>4
<1>5. CASE k[p].name \in names /\ t = [st EXCEPT !.kept = d]
  <2>1. t = [stop |-> a, back |-> b, kept |-> d]
    BY <1>1, <1>5
  <2>2. Ordered(d) /\ Range(d) = {k[i] : i \in DOMAIN k \ {p}}
    <3> HIDE DEF p
    <3> QED
      BY <1>1, SelectOrdered DEF Trims
  <2> HIDE DEF d, p
  <2>3. \A o \in Range(k) : o \notin Range(d) => o.name \in Buffers
    BY <1>5, <2>2 DEF Range
  <2>4. Range(d) \subseteq Range(k)
    BY <2>2 DEF Range
  <2>5. Trims(d, s)
    BY <1>1, <2>2, <2>3, <2>4 DEF Trims
  <2> QED
    BY <2>1, <2>5 DEF IsBackState
<1> QED
  BY <1>3, <1>4, <1>5

LEMMA BackStepTrims ==
    ASSUME NEW s, NEW st, IsBackState(st, s), NEW t \in BackStep(st)
    PROVE  IsBackState(t, s)
<1>1. PICK a, b, k : st = [stop |-> a, back |-> b, kept |-> k] /\ Trims(k, s)
  BY DEF IsBackState
<1> DEFINE H == DelPrefixed(st, HttpBuffers)
           D == UNION {DelPrefixed(h, DnsBuffers) : h \in H}
<1>2. t = st \/ t = [st EXCEPT !.stop = TRUE] \/ \E r \in D : t = [r EXCEPT !.back = @ + 1]
  BY DEF BackStep
<1>3. CASE t = st
  BY <1>3
<1>4. CASE t = [st EXCEPT !.stop = TRUE]
  <2>1. t = [stop |-> TRUE, back |-> b, kept |-> k]
    BY <1>1, <1>4
  <2> QED
    BY <1>1, <2>1 DEF IsBackState
<1>5. ASSUME NEW r \in D, t = [r EXCEPT !.back = @ + 1]
      PROVE  IsBackState(t, s)
  <2>1. PICK h \in H : r \in DelPrefixed(h, DnsBuffers)
    OBVIOUS
  <2>2. IsBackState(h, s)
    BY DelPrefixedTrims DEF Buffers
  <2>3. IsBackState(r, s)
    BY <2>1, <2>2, DelPrefixedTrims DEF Buffers
  <2>4. PICK e, f, g : r = [stop |-> e, back |-> f, kept |-> g] /\ Trims(g, s)
    BY <2>3 DEF IsBackState
  <2>5. t = [stop |-> e, back |-> f + 1, kept |-> g]
    BY <1>5, <2>4
  <2> QED
    BY <2>4, <2>5 DEF IsBackState
<1> HIDE DEF D
<1> QED
  BY <1>2, <1>3, <1>4, <1>5

AllBack(S) == UNION {BackStep(st) : st \in S}

IsWayBack(f, s, m) ==
    f = [n \in 0 .. m |-> IF n = 0 THEN {[stop |-> FALSE, back |-> 1, kept |-> s]}
                          ELSE AllBack(f[n - 1])]

LEMMA WayBackDefined ==
    ASSUME NEW s, NEW n \in Nat
    PROVE  \E f : IsWayBack(f, s, n)
<1> DEFINE first == {[stop |-> FALSE, back |-> 1, kept |-> s]}
           C == {m \in Nat : \E f : IsWayBack(f, s, m)}
<1>1. 0 \in C
  <2> DEFINE f == [i \in 0 .. 0 |-> first]
  <2>1. IsWayBack(f, s, 0)
    BY DEF IsWayBack
  <2> QED
    BY <2>1
<1>2. ASSUME NEW m \in Nat, m \in C
      PROVE  m + 1 \in C
  <2>1. PICK f : IsWayBack(f, s, m)
    BY <1>2
  <2> DEFINE h == [i \in 0 .. m + 1 |-> IF i = 0 THEN first ELSE AllBack(f[i - 1])]
  <2> HIDE DEF first
  <2>2. \A i \in 0 .. m : f[i] = IF i = 0 THEN first ELSE AllBack(f[i - 1])
    BY <2>1 DEF IsWayBack, first
  <2>3. \A i \in 0 .. m : h[i] = f[i]
    BY <2>2
  <2>4. ASSUME NEW i \in 0 .. m + 1
        PROVE  h[i] = IF i = 0 THEN first ELSE AllBack(h[i - 1])
    <3>1. CASE i = 0
      BY <3>1
    <3>2. CASE i # 0
      <4>1. h[i] = AllBack(f[i - 1])
        BY <3>2
      <4>2. i - 1 \in 0 .. m
        BY <3>2
      <4> HIDE DEF h
      <4>3. h[i - 1] = f[i - 1]
        BY <2>3, <4>2
      <4> QED
        BY <3>2, <4>1, <4>3
    <3> QED
      BY <3>1, <3>2
  <2>5. IsWayBack(h, s, m + 1)
    <3>1. h = [i \in 0 .. m + 1 |-> h[i]]
      OBVIOUS
    <3> HIDE DEF h
    <3>2. h = [i \in 0 .. m + 1 |-> IF i = 0 THEN first ELSE AllBack(h[i - 1])]
      BY <2>4, <3>1
    <3> QED
      BY <3>2 DEF IsWayBack, first
  <2> QED
    BY <2>5
<1> HIDE DEF C
<1>3. Nat \subseteq C
  BY <1>1, <1>2, SetOfNumbers
<1> QED
  BY <1>3 DEF C

\* The way back takes out nothing but buffers.
LEMMA TakeBackTrims ==
    ASSUME NEW s, Ordered(s), NEW k \in TakeBack(s)
    PROVE  Trims(k, s)
<1> DEFINE n == Len(s) + 1
           g == CHOOSE f : IsWayBack(f, s, n)
<1>1. n \in Nat
  BY DEF Ordered, IsList
<1>2. IsWayBack(g, s, n)
  BY <1>1, WayBackDefined
<1>3. TakeBack(s) = {st.kept : st \in g[n]}
  BY DEF TakeBack, IsWayBack, AllBack
<1> HIDE DEF g, n
<1>4. /\ g[0] = {[stop |-> FALSE, back |-> 1, kept |-> s]}
      /\ \A i \in 1 .. n : g[i] = AllBack(g[i - 1])
  <2>1. \A i \in 0 .. n : g[i] = IF i = 0 THEN {[stop |-> FALSE, back |-> 1, kept |-> s]}
                                 ELSE AllBack(g[i - 1])
    BY <1>2 DEF IsWayBack
  <2>2. 0 \in 0 .. n /\ \A i \in 1 .. n : i \in 0 .. n /\ i # 0
    BY <1>1
  <2> QED
    BY <2>1, <2>2
<1> DEFINE C == {m \in Nat : m <= n => \A st \in g[m] : IsBackState(st, s)}
<1>5. 0 \in C
  <2>1. Trims(s, s)
    BY DEF Trims
  <2> QED
    BY <1>4, <2>1 DEF IsBackState
<1>6. ASSUME NEW m \in Nat, m \in C
      PROVE  m + 1 \in C
  <2> SUFFICES ASSUME m + 1 <= n, NEW t \in g[m + 1]
               PROVE  IsBackState(t, s)
    OBVIOUS
  <2>1. m + 1 \in 1 .. n /\ m <= n /\ (m + 1) - 1 = m
    BY <1>1
  <2>2. PICK st \in g[m] : t \in BackStep(st)
    BY <1>4, <2>1 DEF AllBack
  <2>3. IsBackState(st, s)
    BY <1>6, <2>1
  <2> QED
    BY <2>2, <2>3, BackStepTrims
<1> HIDE DEF C
<1>7. Nat \subseteq C
  BY <1>5, <1>6, SetOfNumbers
<1>8. \A st \in g[n] : IsBackState(st, s)
  BY <1>1, <1>7 DEF C
<1>9. PICK st \in g[n] : k = st.kept
  BY <1>3
<1> QED
  BY <1>8, <1>9 DEF IsBackState

LEMMA AppendIs ==
    ASSUME NEW s, IsList(s), NEW x
    PROVE  /\ IsList(Append(s, x)) /\ Len(s) \in Nat /\ DOMAIN s = 1 .. Len(s)
           /\ DOMAIN Append(s, x) = 1 .. (Len(s) + 1)
           /\ \A n \in 1 .. Len(s) : Append(s, x)[n] = s[n]
           /\ Append(s, x)[Len(s) + 1] = x
           /\ Range(Append(s, x)) = Range(s) \cup {x}
<1> DEFINE S == {s[i] : i \in DOMAIN s} \cup {x}
           t == Append(s, x)
           n == Len(s)
<1>1. n \in Nat /\ DOMAIN s = 1 .. n
  BY DEF IsList
<1>2. s \in Seq(S)
  <2> DEFINE R == {s[i] : i \in DOMAIN s}
  <2>1. s \in Seq(R)
    BY ListIsSeq
  <2> HIDE DEF R
  <2>2. s \in Seq(R \cup {x})
    BY <2>1, SeqMonotonic
  <2> QED
    BY <2>2 DEF R
<1>3. x \in S
  OBVIOUS
<1> HIDE DEF S
<1>4. /\ t \in Seq(S) /\ DOMAIN t = 1 .. (n + 1) /\ t[n + 1] = x
      /\ \A i \in 1 .. n : t[i] = s[i]
  BY <1>2, <1>3
<1>5. IsList(t)
  BY <1>4, SeqIsList
<1> HIDE DEF t, n
<1>6. \A i \in 1 .. (n + 1) : i \in 1 .. n \/ i = n + 1
  BY <1>1
<1>7. n + 1 \in 1 .. (n + 1) /\ 1 .. n \subseteq 1 .. (n + 1)
  BY <1>1
<1>8. Range(t) = Range(s) \cup {x}
  BY <1>1, <1>4, <1>6, <1>7 DEF Range
<1> QED
  BY <1>1, <1>4, <1>5, <1>8 DEF t, n

-----------------------------------------------------------------------------
(* The way forward.                                                        *)

\* Between a buffer or the sid and a modifier behind it there is a keyword.
Claused(O) ==
    \A i, j \in DOMAIN O :
        i < j /\ O[i].name \in HttpBuffers \cup {"sid"} /\ O[j].name \in ContentModifiers
            => \E k \in DOMAIN O : i < k /\ k < j /\ O[k].name \in Keywords

\* The modifier belongs to a content that is taken out.
Orphan(O, m) == \E o \in Owner(O, m.at) : Unwanted(o)

LEMMA OwnerIs ==
    ASSUME NEW O, Ordered(O), NEW j \in DOMAIN O
    PROVE  /\ \A u \in DOMAIN O :
                 O[u] \in Owner(O, O[j].at) <=>
                     /\ O[u].name \in Keywords /\ u < j
                     /\ \A v \in DOMAIN O : u < v /\ v < j => O[v].name \notin Keywords
           /\ \A o \in Owner(O, O[j].at) : \E u \in DOMAIN O : o = O[u]
<1> DEFINE front == {o \in Range(O) : o.name \in Keywords /\ o.at < O[j].at}
<1>1. Owner(O, O[j].at) = {o \in front : \A p \in front : p.at <= o.at}
  BY DEF Owner
<1>2. \A o \in front : \E u \in DOMAIN O : o = O[u]
  BY DEF Range
<1>3. \A u \in DOMAIN O : O[u] \in front <=> O[u].name \in Keywords /\ u < j
  <2> TAKE u \in DOMAIN O
  <2>1. O[u] \in Range(O)
    BY DEF Range
  <2>2. O[u].at < O[j].at <=> u < j
    BY OrderedAt
  <2> QED
    BY <2>1, <2>2
<1> HIDE DEF front
<1>4. ASSUME NEW u \in DOMAIN O, O[u] \in Owner(O, O[j].at)
      PROVE  /\ O[u].name \in Keywords /\ u < j
             /\ \A v \in DOMAIN O : u < v /\ v < j => O[v].name \notin Keywords
  <2>1. O[u].name \in Keywords /\ u < j
    BY <1>1, <1>3, <1>4
  <2>2. ASSUME NEW v \in DOMAIN O, u < v, v < j, O[v].name \in Keywords
        PROVE  FALSE
    <3>1. O[v] \in front
      BY <1>3, <2>2
    <3>2. O[v].at <= O[u].at
      BY <1>1, <1>4, <3>1
    <3>3. O[u].at < O[v].at /\ O[u].at \in Nat /\ O[v].at \in Nat
      BY <2>2, OrderedAt
    <3> QED
      BY <3>2, <3>3
  <2> QED
    BY <2>1, <2>2
<1>5. ASSUME NEW u \in DOMAIN O, O[u].name \in Keywords, u < j,
             \A v \in DOMAIN O : u < v /\ v < j => O[v].name \notin Keywords
      PROVE  O[u] \in Owner(O, O[j].at)
  <2>1. O[u] \in front
    BY <1>3, <1>5
  <2>2. ASSUME NEW p \in front
        PROVE  p.at <= O[u].at
    <3>1. PICK v \in DOMAIN O : p = O[v]
      BY <1>2
    <3>2. O[v].name \in Keywords /\ v < j
      BY <1>3, <3>1
    <3>3. ~(u < v)
      BY <1>5, <3>2
    <3>4. ~(O[u].at < O[v].at) /\ O[u].at \in Nat /\ O[v].at \in Nat
      BY <3>3, OrderedAt
    <3> QED
      BY <3>1, <3>4
  <2> QED
    BY <1>1, <2>1, <2>2
<1>6. \A o \in Owner(O, O[j].at) : \E u \in DOMAIN O : o = O[u]
  BY <1>1, <1>2
<1> QED
  BY <1>4, <1>5, <1>6

\* What has been kept of the options in front of the i-th.
Taken(k, i, O) ==
    /\ i \in Nat /\ Ordered(k)
    /\ \A o \in Range(k) : \E j \in DOMAIN O : j < i /\ o = O[j]
    /\ \A j \in DOMAIN O : j < i /\ O[j].name \in Keywords =>
          (O[j] \in Range(k) <=> ~Unwanted(O[j]))
    /\ \A j \in DOMAIN O : j < i /\ O[j].name \in ContentModifiers =>
          (O[j] \in Range(k) <=> ~Orphan(O, O[j]))
    /\ \A j \in DOMAIN O : i <= j /\ O[j].name \in ContentModifiers =>
          \A u \in DOMAIN O : u < i /\ Unwanted(O[u]) => O[u] \notin Owner(O, O[j].at)

\* The loop keeps an option.
LEMMA KeepStep ==
    ASSUME NEW O, Ordered(O), NEW k, NEW i, i \in DOMAIN O, Taken(k, i, O), ~Unwanted(O[i])
    PROVE  Taken(Append(k, O[i]), i + 1, O)
<1> DEFINE x == O[i]
           t == Append(k, x)
           n == Len(k)
<1>1. /\ IsList(t) /\ n \in Nat /\ DOMAIN k = 1 .. n /\ DOMAIN t = 1 .. (n + 1)
      /\ \A m \in 1 .. n : t[m] = k[m]
      /\ t[n + 1] = x
      /\ Range(t) = Range(k) \cup {x}
  BY AppendIs DEF Taken, Ordered
<1>2. i \in Nat /\ \A j \in DOMAIN O : j \in Nat
  BY DEF Ordered, IsList
<1>3. IsOption(x) /\ \A m \in DOMAIN k : IsOption(k[m])
  BY DEF Ordered, Taken
<1>4. \A m \in DOMAIN k : k[m].at < x.at
  <2> TAKE m \in DOMAIN k
  <2>1. k[m] \in Range(k)
    BY DEF Range
  <2>2. PICK j \in DOMAIN O : j < i /\ k[m] = O[j]
    BY <2>1 DEF Taken
  <2> QED
    BY <2>2 DEF Ordered
<1>5. \A j \in DOMAIN O : j # i => O[j] # x
  BY OrderedAt
<1> HIDE DEF t, n, x
<1>6. Ordered(t)
  <2>1. \A m \in DOMAIN t : IsOption(t[m])
    BY <1>1, <1>3
  <2>2. ASSUME NEW a \in DOMAIN t, NEW b \in DOMAIN t, a < b
        PROVE  t[a].at < t[b].at
    <3>1. a \in 1 .. n /\ (b \in 1 .. n \/ b = n + 1)
      BY <1>1, <2>2
    <3>2. CASE b \in 1 .. n
      BY <1>1, <2>2, <3>1, <3>2 DEF Taken, Ordered
    <3>3. CASE b = n + 1
      BY <1>1, <1>4, <3>1, <3>3
    <3> QED
      BY <3>1, <3>2, <3>3
  <2> QED
    BY <1>1, <2>1, <2>2 DEF Ordered
<1>7. \A o \in Range(t) : \E j \in DOMAIN O : j < i + 1 /\ o = O[j]
  <2> TAKE o \in Range(t)
  <2>1. CASE o = x
    BY <1>2, <2>1 DEF x
  <2>2. CASE o \in Range(k)
    <3>1. PICK j \in DOMAIN O : j < i /\ o = O[j]
      BY <2>2 DEF Taken
    <3> QED
      BY <1>2, <3>1
  <2> QED
    BY <1>1, <2>1, <2>2
<1>8. \A j \in DOMAIN O : j < i + 1 => j < i \/ j = i
  BY <1>2
<1>9. ASSUME NEW j \in DOMAIN O, j < i + 1, O[j].name \in Keywords
      PROVE  O[j] \in Range(t) <=> ~Unwanted(O[j])
  <2>1. CASE j = i
    BY <1>1, <2>1 DEF x
  <2>2. CASE j < i
    <3>1. O[j] \in Range(t) <=> O[j] \in Range(k)
      BY <1>1, <1>2, <1>5, <2>2
    <3> QED
      BY <1>9, <2>2, <3>1 DEF Taken
  <2> QED
    BY <1>8, <1>9, <2>1, <2>2
<1>10. ASSUME NEW j \in DOMAIN O, j < i + 1, O[j].name \in ContentModifiers
       PROVE  O[j] \in Range(t) <=> ~Orphan(O, O[j])
  <2>1. CASE j = i
    <3>1. ASSUME NEW o \in Owner(O, O[i].at), Unwanted(o)
          PROVE  FALSE
      <4>1. PICK u \in DOMAIN O : o = O[u]
        BY OwnerIs
      <4>2. u < i
        BY <4>1, OwnerIs
      <4> QED
        BY <1>2, <1>10, <2>1, <3>1, <4>1, <4>2 DEF Taken
    <3> QED
      BY <1>1, <2>1, <3>1 DEF Orphan, x
  <2>2. CASE j < i
    <3>1. O[j] \in Range(t) <=> O[j] \in Range(k)
      BY <1>1, <1>2, <1>5, <2>2
    <3> QED
      BY <1>10, <2>2, <3>1 DEF Taken
  <2> QED
    BY <1>8, <1>10, <2>1, <2>2
<1>11. ASSUME NEW j \in DOMAIN O, i + 1 <= j, O[j].name \in ContentModifiers,
              NEW u \in DOMAIN O, u < i + 1, Unwanted(O[u])
       PROVE  O[u] \notin Owner(O, O[j].at)
  <2>1. u < i /\ i <= j
    BY <1>2, <1>8, <1>11
  <2> QED
    BY <1>11, <2>1 DEF Taken
<1>12. i + 1 \in Nat
  BY <1>2
<1> QED
  BY <1>6, <1>7, <1>9, <1>10, <1>11, <1>12 DEF Taken, t, x

\* The way forward ends at the first option that stops it.
LEMMA NextIs ==
    ASSUME NEW O, Ordered(O), NEW i \in DOMAIN O, NextKept(O, i) # 0
    PROVE  /\ NextKept(O, i) \in DOMAIN O /\ i < NextKept(O, i) /\ Stops(O[NextKept(O, i)])
           /\ \A j \in DOMAIN O : i < j /\ j < NextKept(O, i) => ~Stops(O[j])
<1> DEFINE K == {j \in DOMAIN O : j > i /\ Stops(O[j])}
<1>1. DOMAIN O \subseteq Nat
  BY DEF Ordered, IsList
<1>2. K \subseteq Nat
  BY <1>1
<1>3. NextKept(O, i) = Earliest(K)
  BY DEF NextKept
<1> HIDE DEF K
<1>4. NextKept(O, i) \in K /\ \A j \in K : NextKept(O, i) <= j
  BY <1>2, <1>3, EarliestIs
<1>5. \A j \in DOMAIN O : j < NextKept(O, i) => ~(NextKept(O, i) <= j)
  <2> DEFINE n == NextKept(O, i)
  <2>1. n \in Nat
    BY <1>2, <1>4
  <2> HIDE DEF n
  <2>2. \A j \in DOMAIN O : j < n => ~(n <= j)
    BY <1>1, <2>1
  <2> QED
    BY <2>2 DEF n
<1> QED
  BY <1>1, <1>4, <1>5 DEF K

\* The loop takes out an unwanted content with all that belongs to it.
LEMMA LeaveStep ==
    ASSUME NEW O, Ordered(O), Claused(O), NEW k, NEW i, i \in DOMAIN O, Taken(k, i, O),
           Unwanted(O[i]), NextKept(O, i) # 0, NEW t, Trims(t, k)
    PROVE  Taken(t, NextKept(O, i), O)
<1> DEFINE n == NextKept(O, i)
<1>1. /\ n \in DOMAIN O /\ i < n /\ Stops(O[n])
      /\ \A j \in DOMAIN O : i < j /\ j < n => ~Stops(O[j])
  BY NextIs
<1>2. i \in Nat /\ n \in Nat /\ \A j \in DOMAIN O : j \in Nat
  BY <1>1 DEF Ordered, IsList
<1> HIDE DEF n
<1>3. Ordered(t) /\ Range(t) \subseteq Range(k)
  BY DEF Trims
<1>4. \A o \in Range(t) : \E j \in DOMAIN O : j < i /\ o = O[j]
  BY <1>3 DEF Taken
<1>5. ASSUME NEW j \in DOMAIN O, O[j].name \in Keywords \cup ContentModifiers
      PROVE  O[j] \in Range(k) => O[j] \in Range(t)
  <2>1. O[j].name \notin Buffers
    BY <1>5 DEF Buffers, HttpBuffers, DnsBuffers, Keywords, ContentModifiers, Modifiers
  <2> QED
    BY <2>1 DEF Trims
<1>6. \A j \in DOMAIN O : ~(j < i) => O[j] \notin Range(t)
  BY <1>4, OrderedAt
<1>7. \A j \in DOMAIN O : j < n => j < i \/ j = i \/ (i < j /\ ~Stops(O[j]))
  BY <1>1, <1>2
<1>8. /\ O[i].name \in Keywords /\ O[i].name \notin ContentModifiers
      /\ \A j \in DOMAIN O : O[j].name \in Keywords => Stops(O[j])
      /\ \A j \in DOMAIN O : Unwanted(O[j]) => O[j].name \in Keywords
  BY DEF Unwanted, Keywords, ContentModifiers, Modifiers, Unsupported, Stops
<1>9. ASSUME NEW j \in DOMAIN O, j < n, O[j].name \in Keywords
      PROVE  O[j] \in Range(t) <=> ~Unwanted(O[j])
  <2>1. CASE j < i
    BY <1>3, <1>5, <1>9, <2>1 DEF Taken
  <2>2. CASE j = i
    <3>1. O[j] \notin Range(t)
      BY <1>2, <1>6, <2>2
    <3> QED
      BY <2>2, <3>1
  <2> QED
    BY <1>7, <1>8, <1>9, <2>1, <2>2
<1>10. ASSUME NEW j \in DOMAIN O, j < n, O[j].name \in ContentModifiers
       PROVE  O[j] \in Range(t) <=> ~Orphan(O, O[j])
  <2>1. CASE j < i
    BY <1>3, <1>5, <1>10, <2>1 DEF Taken
  <2>2. CASE i < j /\ ~Stops(O[j])
    <3>1. O[j] \notin Range(t)
      BY <1>2, <1>6, <2>2
    <3>2. ASSUME NEW v \in DOMAIN O, i < v, v < j
          PROVE  O[v].name \notin Keywords
      <4>1. v < n
        BY <1>2, <1>10, <3>2
      <4> QED
        BY <1>1, <1>8, <3>2, <4>1
    <3>3. O[i] \in Owner(O, O[j].at)
      BY <1>8, <2>2, <3>2, OwnerIs
    <3> QED
      BY <3>1, <3>3 DEF Orphan
  <2>3. j # i
    BY <1>8, <1>10
  <2> QED
    BY <1>7, <1>10, <2>1, <2>2, <2>3
<1>11. ASSUME NEW j \in DOMAIN O, n <= j, O[j].name \in ContentModifiers,
              NEW u \in DOMAIN O, u < n, Unwanted(O[u])
       PROVE  O[u] \notin Owner(O, O[j].at)
  <2>1. CASE u < i
    <3>1. i <= j
      BY <1>1, <1>2, <1>11
    <3> QED
      BY <1>11, <2>1, <3>1 DEF Taken
  <2>2. CASE u = i
    <3>1. n < j
      <4>1. O[n].name \notin ContentModifiers
        BY <1>1 DEF Stops, HttpBuffers, ContentModifiers, Modifiers, Unsupported
      <4> QED
        BY <1>2, <1>11, <4>1
    <3>2. \E v \in DOMAIN O : i < v /\ v < j /\ O[v].name \in Keywords
      <4>1. CASE O[n].name \in Keywords
        BY <1>1, <3>1, <4>1
      <4>2. CASE O[n].name \in HttpBuffers \cup {"sid"}
        <5>1. PICK v \in DOMAIN O : n < v /\ v < j /\ O[v].name \in Keywords
          BY <1>1, <1>11, <3>1, <4>2 DEF Claused
        <5>2. i < v
          BY <1>1, <1>2, <5>1
        <5> QED
          BY <5>1, <5>2
      <4> QED
        BY <1>1, <4>1, <4>2 DEF Stops, Keywords
    <3> QED
      BY <2>2, <3>2, OwnerIs
  <2>3. ~(i < u /\ ~Stops(O[u]))
    BY <1>8, <1>11
  <2> QED
    BY <1>7, <1>11, <2>1, <2>2, <2>3
<1>12. \A o \in Range(t) : \E j \in DOMAIN O : j < n /\ o = O[j]
  <2> TAKE o \in Range(t)
  <2>1. PICK j \in DOMAIN O : j < i /\ o = O[j]
    BY <1>4
  <2>2. j < n
    BY <1>1, <1>2, <2>1
  <2> QED
    BY <2>1, <2>2
<1> QED
  BY <1>2, <1>3, <1>9, <1>10, <1>11, <1>12 DEF Taken, n

IsTaken(st, O) == \E k, i : st = [kept |-> k, idx |-> i] /\ Taken(k, i, O)

\* A step goes on unless the loop is over.
LEMMA TakeStepTaken ==
    ASSUME NEW O, Ordered(O), Claused(O), NEW st, IsTaken(st, O), st.idx # 0, NEW t \in TakeStep(O, st)
    PROVE  /\ IsTaken(t, O) /\ t.idx \in Nat /\ st.idx \in Nat
           /\ st.idx > Len(O) => t = st
           /\ st.idx <= Len(O) => t.idx > st.idx
<1>1. PICK k, i : st = [kept |-> k, idx |-> i] /\ Taken(k, i, O)
  BY DEF IsTaken
<1>2. /\ st.kept = k /\ st.idx = i /\ i \in Nat /\ i # 0
      /\ DOMAIN O = 1 .. Len(O) /\ Len(O) \in Nat
  BY <1>1 DEF Taken, Ordered, IsList
<1>3. CASE i > Len(O)
  <2>1. t = st
    BY <1>2, <1>3 DEF TakeStep
  <2> QED
    BY <1>2, <1>3, <2>1
<1>4. CASE i <= Len(O) /\ ~Unwanted(O[i])
  <2>1. t = [kept |-> Append(k, O[i]), idx |-> i + 1]
    BY <1>2, <1>4 DEF TakeStep
  <2>2. i \in DOMAIN O
    BY <1>2, <1>4
  <2>3. Taken(Append(k, O[i]), i + 1, O)
    BY <1>1, <1>4, <2>2, KeepStep
  <2>4. IsTaken(t, O)
    BY <2>1, <2>3 DEF IsTaken
  <2>5. t.idx = i + 1 /\ ~(i > Len(O)) /\ i + 1 > i /\ i + 1 \in Nat
    BY <1>2, <1>4, <2>1
  <2> QED
    BY <1>2, <2>4, <2>5
<1>5. CASE i <= Len(O) /\ Unwanted(O[i])
  <2>1. PICK m \in {c \in TakeBack(k) : NextKept(O, i) # 0} : t = [kept |-> m, idx |-> NextKept(O, i)]
    BY <1>2, <1>5 DEF TakeStep
  <2>2. i \in DOMAIN O /\ m \in TakeBack(k) /\ NextKept(O, i) # 0
    BY <1>2, <1>5, <2>1
  <2>3. Trims(m, k)
    BY <1>1, <2>2, TakeBackTrims DEF Taken
  <2>4. Taken(m, NextKept(O, i), O)
    BY <1>1, <1>5, <2>2, <2>3, LeaveStep
  <2>5. i < NextKept(O, i) /\ NextKept(O, i) \in Nat
    BY <1>2, <2>2, NextIs
  <2> QED
    BY <1>2, <1>5, <2>1, <2>4, <2>5 DEF IsTaken
<1> QED
  BY <1>2, <1>3, <1>4, <1>5

AllTake(O, S) == UNION {TakeStep(O, st) : st \in S}

IsWayOn(f, O, m) ==
    f = [n \in 0 .. m |-> IF n = 0 THEN {[kept |-> <<>>, idx |-> 1]} ELSE AllTake(O, f[n - 1])]

LEMMA WayOnDefined ==
    ASSUME NEW O, NEW n \in Nat
    PROVE  \E f : IsWayOn(f, O, n)
<1> DEFINE first == {[kept |-> <<>>, idx |-> 1]}
           C == {m \in Nat : \E f : IsWayOn(f, O, m)}
<1>1. 0 \in C
  <2> DEFINE f == [i \in 0 .. 0 |-> first]
  <2>1. IsWayOn(f, O, 0)
    BY DEF IsWayOn
  <2> QED
    BY <2>1
<1>2. ASSUME NEW m \in Nat, m \in C
      PROVE  m + 1 \in C
  <2>1. PICK f : IsWayOn(f, O, m)
    BY <1>2
  <2> DEFINE h == [i \in 0 .. m + 1 |-> IF i = 0 THEN first ELSE AllTake(O, f[i - 1])]
  <2> HIDE DEF first
  <2>2. \A i \in 0 .. m : f[i] = IF i = 0 THEN first ELSE AllTake(O, f[i - 1])
    BY <2>1 DEF IsWayOn, first
  <2>3. \A i \in 0 .. m : h[i] = f[i]
    BY <2>2
  <2>4. ASSUME NEW i \in 0 .. m + 1
        PROVE  h[i] = IF i = 0 THEN first ELSE AllTake(O, h[i - 1])
    <3>1. CASE i = 0
      BY <3>1
    <3>2. CASE i # 0
      <4>1. h[i] = AllTake(O, f[i - 1])
        BY <3>2
      <4>2. i - 1 \in 0 .. m
        BY <3>2
      <4> HIDE DEF h
      <4>3. h[i - 1] = f[i - 1]
        BY <2>3, <4>2
      <4> QED
        BY <3>2, <4>1, <4>3
    <3> QED
      BY <3>1, <3>2
  <2>5. IsWayOn(h, O, m + 1)
    <3>1. h = [i \in 0 .. m + 1 |-> h[i]]
      OBVIOUS
    <3> HIDE DEF h
    <3>2. h = [i \in 0 .. m + 1 |-> IF i = 0 THEN first ELSE AllTake(O, h[i - 1])]
      BY <2>4, <3>1
    <3> QED
      BY <3>2 DEF IsWayOn, first
  <2> QED
    BY <2>5
<1> HIDE DEF C
<1>3. Nat \subseteq C
  BY <1>1, <1>2, SetOfNumbers
<1> QED
  BY <1>3 DEF C

\* What the loop leaves: the contents that are wanted, and the modifiers that belong to
\* none that is not.
LEMMA TakeOutIs ==
    ASSUME NEW O, Ordered(O), Claused(O), NEW k \in TakeOut(O)
    PROVE  \E i : i > Len(O) /\ Taken(k, i, O)
<1> DEFINE n == Len(O)
           g == CHOOSE f : IsWayOn(f, O, n)
<1>1. n \in Nat
  BY DEF Ordered, IsList
<1>2. IsWayOn(g, O, n)
  BY <1>1, WayOnDefined
<1>3. TakeOut(O) = {st.kept : st \in g[n]}
  BY DEF TakeOut, IsWayOn, AllTake
<1> HIDE DEF g, n
<1>4. /\ g[0] = {[kept |-> <<>>, idx |-> 1]}
      /\ \A i \in 1 .. n : g[i] = AllTake(O, g[i - 1])
  <2>1. \A i \in 0 .. n : g[i] = IF i = 0 THEN {[kept |-> <<>>, idx |-> 1]} ELSE AllTake(O, g[i - 1])
    BY <1>2 DEF IsWayOn
  <2>2. 0 \in 0 .. n /\ \A i \in 1 .. n : i \in 0 .. n /\ i # 0
    BY <1>1
  <2> QED
    BY <2>1, <2>2
<1> DEFINE Fine(st, m) == IsTaken(st, O) /\ st.idx \in Nat /\ (st.idx > m \/ st.idx > n) /\ st.idx # 0
           C == {m \in Nat : m <= n => \A st \in g[m] : Fine(st, m)}
<1>5. 0 \in C
  <2>1. Taken(<<>>, 1, O)
    <3>1. Ordered(<<>>) /\ Range(<<>>) = {}
      BY DEF Ordered, IsList, Range
    <3>2. \A j \in DOMAIN O : j \in Nat /\ ~(j < 1)
      BY DEF Ordered, IsList
    <3> QED
      BY <3>1, <3>2 DEF Taken
  <2> QED
    BY <1>1, <1>4, <2>1 DEF IsTaken
<1>6. ASSUME NEW m \in Nat, m \in C
      PROVE  m + 1 \in C
  <2> SUFFICES ASSUME m + 1 <= n, NEW t \in g[m + 1]
               PROVE  Fine(t, m + 1)
    OBVIOUS
  <2>1. m + 1 \in 1 .. n /\ m <= n /\ (m + 1) - 1 = m
    BY <1>1
  <2>2. PICK st \in g[m] : t \in TakeStep(O, st)
    BY <1>4, <2>1 DEF AllTake
  <2>3. Fine(st, m)
    BY <1>6, <2>1
  <2>4. /\ IsTaken(t, O) /\ t.idx \in Nat
        /\ st.idx > n => t = st
        /\ st.idx <= n => t.idx > st.idx
    BY <2>2, <2>3, TakeStepTaken DEF n
  <2>5. (t.idx > m + 1 \/ t.idx > n) /\ t.idx # 0
    BY <1>1, <2>3, <2>4
  <2> QED
    BY <2>4, <2>5
<1> HIDE DEF C
<1>7. Nat \subseteq C
  BY <1>5, <1>6, SetOfNumbers
<1>8. \A st \in g[n] : Fine(st, n)
  BY <1>1, <1>7 DEF C
<1>9. PICK st \in g[n] : k = st.kept
  BY <1>3
<1>10. PICK c, i : st = [kept |-> c, idx |-> i] /\ Taken(c, i, O)
  BY <1>8, <1>9 DEF IsTaken
<1>11. k = c /\ i > n
  BY <1>1, <1>8, <1>9, <1>10
<1> QED
  BY <1>10, <1>11 DEF n

\* A content or pcre at the most is in front of a place and the last.
LEMMA OwnerOne ==
    ASSUME NEW s, Ordered(s), NEW at, NEW o \in Owner(s, at), NEW p \in Owner(s, at)
    PROVE  o = p
<1>1. o \in Range(s) /\ p \in Range(s) /\ o.at <= p.at /\ p.at <= o.at
  BY DEF Owner
<1>2. PICK i \in DOMAIN s : o = s[i]
  BY <1>1 DEF Range
<1>3. PICK j \in DOMAIN s : p = s[j]
  BY <1>1 DEF Range
<1>4. i \in Nat /\ j \in Nat /\ o.at \in Nat /\ p.at \in Nat
  BY <1>2, <1>3, OrderedAt
<1>5. ~(s[i].at < s[j].at) /\ ~(s[j].at < s[i].at)
  BY <1>1, <1>2, <1>3, <1>4
<1>6. i = j
  BY <1>4, <1>5, OrderedAt
<1> QED
  BY <1>2, <1>3, <1>6

LEMMA OwnerThere ==
    ASSUME NEW s, Ordered(s), NEW m \in Range(s), NEW w \in Range(s), w.name \in Keywords, w.at < m.at
    PROVE  Owner(s, m.at) # {}
<1>1. PICK j \in DOMAIN s : m = s[j]
  BY DEF Range
<1>2. PICK k \in DOMAIN s : w = s[k]
  BY DEF Range
<1> DEFINE T == {v \in DOMAIN s : s[v].name \in Keywords /\ v < j}
<1>3. DOMAIN s \subseteq Nat
  BY DEF Ordered, IsList
<1>4. k \in T
  <2>1. k < j
    BY <1>1, <1>2, OrderedAt
  <2> QED
    BY <1>2, <2>1
<1>5. T \subseteq Nat /\ j \in Nat /\ \A y \in T : y <= j
  BY <1>3
<1> HIDE DEF T
<1>6. PICK u \in T : \A v \in T : v <= u
  BY <1>4, <1>5, Greatest
<1>7. u \in DOMAIN s /\ s[u].name \in Keywords /\ u < j /\ u \in Nat
  BY <1>3, <1>6 DEF T
<1>8. \A v \in DOMAIN s : u < v /\ v < j => s[v].name \notin Keywords
  <2> SUFFICES ASSUME NEW v \in DOMAIN s, u < v, v < j, s[v].name \in Keywords
               PROVE  FALSE
    OBVIOUS
  <2>1. v <= u
    BY <1>6 DEF T
  <2> QED
    BY <1>3, <1>7, <2>1
<1>9. s[u] \in Owner(s, s[j].at)
  BY <1>7, <1>8, OwnerIs
<1> QED
  BY <1>1, <1>9

-----------------------------------------------------------------------------
(* Behind the loop.                                                        *)

\* The names CleanedRight is about.
Marks == Keywords \cup ContentModifiers

MarksOf(s) == {o \in Range(s) : o.name \in Marks}

LEMMA RenamedIs ==
    ASSUME NEW s, Ordered(s), NEW from, from \notin Marks, NEW to, to \notin Marks
    PROVE  Ordered(Renamed(s, from, to)) /\ MarksOf(Renamed(s, from, to)) = MarksOf(s)
<1> DEFINE t == Renamed(s, from, to)
<1>1. /\ DOMAIN t = DOMAIN s
      /\ \A i \in DOMAIN s : t[i] = IF s[i].name = from THEN [s[i] EXCEPT !.name = to] ELSE s[i]
  BY DEF Renamed
<1>2. \A i \in DOMAIN s : IsOption(s[i])
  BY DEF Ordered
<1>3. IsList(t)
  <2>1. DOMAIN s = 1 .. Len(s) /\ Len(s) \in Nat
    BY DEF Ordered, IsList
  <2> DEFINE n == Len(s)
  <2> HIDE DEF n
  <2>2. DOMAIN t = 1 .. n /\ n \in Nat /\ t = [i \in 1 .. n |-> t[i]]
    BY <1>1, <2>1 DEF Renamed, n
  <2> HIDE DEF t
  <2> QED
    BY <2>2 DEF IsList
<1> HIDE DEF t
<1>4. ASSUME NEW i \in DOMAIN s
      PROVE  /\ IsOption(t[i]) /\ t[i].at = s[i].at
             /\ t[i].name \in Marks \/ s[i].name \in Marks => t[i] = s[i]
  <2>1. CASE s[i].name = from
    <3>1. t[i] = [s[i] EXCEPT !.name = to]
      BY <1>1, <2>1
    <3>2. IsOption(t[i]) /\ t[i].at = s[i].at /\ t[i].name = to
      BY <1>2, <3>1 DEF IsOption
    <3> QED
      BY <2>1, <3>2
  <2>2. CASE s[i].name # from
    BY <1>1, <1>2, <2>2
  <2> QED
    BY <2>1, <2>2
<1>5. \A i, j \in DOMAIN t : i < j => t[i].at < t[j].at
  BY <1>1, <1>4 DEF Ordered
<1>6. Ordered(t)
  BY <1>1, <1>3, <1>4, <1>5 DEF Ordered
<1>7. MarksOf(t) = MarksOf(s)
  <2>1. ASSUME NEW o \in MarksOf(t)
        PROVE  o \in MarksOf(s)
    <3>1. PICK i \in DOMAIN s : o = t[i]
      BY <1>1 DEF MarksOf, Range
    <3>2. o = s[i]
      BY <1>4, <3>1 DEF MarksOf
    <3> QED
      BY <3>2 DEF MarksOf, Range
  <2>2. ASSUME NEW o \in MarksOf(s)
        PROVE  o \in MarksOf(t)
    <3>1. PICK i \in DOMAIN s : o = s[i]
      BY DEF MarksOf, Range
    <3>2. o = t[i]
      BY <1>4, <3>1 DEF MarksOf
    <3> QED
      BY <1>1, <3>2 DEF MarksOf, Range
  <2> QED
    BY <2>1, <2>2
<1> QED
  BY <1>6, <1>7 DEF t

\* Behind the loop modifiers without a content go, with all of their name.
LEMMA FixedIs ==
    ASSUME NEW s, Ordered(s), \A o \in Range(s) : o.name # "pcre"
    PROVE  /\ Ordered(Fixed(s))
           /\ {o \in Range(Fixed(s)) : o.name \in Keywords} = {o \in Range(s) : IsContent(o)}
           /\ ModifiersOf(Fixed(s)) =
                 {m \in ModifiersOf(s) :
                    \A n \in ModifiersOf(s) : n.name = m.name =>
                        \E o \in Range(s) : IsContent(o) /\ o.at < n.at}
<1> DEFINE a == Renamed(s, "dns_query", "dns.query")
           b == Renamed(a, "tls_sni", "tls.sni")
           legal == Without(b, HttpBuffers \ AllowedHttp)
           gone == Dangling(legal)
           c == Without(legal, gone)
<1>1. Fixed(s) = c
  BY DEF Fixed
<1>2. /\ "dns_query" \notin Marks /\ "dns.query" \notin Marks /\ "tls_sni" \notin Marks
      /\ "tls.sni" \notin Marks
  <2>1. Marks \subseteq {"content", "pcre", "nocase", "offset", "isdataat", "byte_test"}
    BY DEF Marks, Keywords, ContentModifiers, Modifiers
  <2> QED
    BY <2>1
<1>3. Ordered(a) /\ MarksOf(a) = MarksOf(s)
  BY <1>2, RenamedIs
<1> HIDE DEF a
<1>4. Ordered(b) /\ MarksOf(b) = MarksOf(s)
  BY <1>2, <1>3, RenamedIs
<1> HIDE DEF b
<1>5. Ordered(legal) /\ MarksOf(legal) = MarksOf(s)
  <2>1. Ordered(legal) /\ Range(legal) = {o \in Range(b) : o.name \notin HttpBuffers \ AllowedHttp}
    BY <1>4, WithoutIs
  <2>2. \A x \in HttpBuffers : x \notin Marks
    BY DEF HttpBuffers, Marks, Keywords, ContentModifiers, Modifiers, Unsupported
  <2> HIDE DEF legal
  <2>3. MarksOf(legal) = MarksOf(b)
    BY <2>1, <2>2 DEF MarksOf
  <2> QED
    BY <1>4, <2>1, <2>3
<1> HIDE DEF legal, gone
<1>6. Ordered(c) /\ Range(c) = {o \in Range(legal) : o.name \notin gone}
  BY <1>5, WithoutIs
<1> HIDE DEF c
<1>7. "content" \notin gone
  BY DEF gone, Dangling, Modifiers
<1>8. "content" \in Keywords /\ "content" \in Marks /\ Keywords = {"content", "pcre"} /\ Keywords \subseteq Marks
      /\ ContentModifiers \subseteq Marks /\ "content" \notin ContentModifiers
      /\ ContentModifiers \subseteq Modifiers
  BY DEF Keywords, Marks, ContentModifiers, Modifiers, Unsupported
<1>9. {o \in Range(c) : o.name \in Keywords} = {o \in Range(s) : IsContent(o)}
  <2>1. ASSUME NEW o \in Range(c), o.name \in Keywords
        PROVE  o \in Range(s) /\ IsContent(o)
    <3>1. o \in MarksOf(legal)
      BY <1>6, <1>8, <2>1 DEF MarksOf
    <3>2. o \in Range(s)
      BY <1>5, <3>1 DEF MarksOf
    <3> QED
      BY <1>8, <2>1, <3>2 DEF IsContent
  <2>2. ASSUME NEW o \in Range(s), IsContent(o)
        PROVE  o \in Range(c) /\ o.name \in Keywords
    <3>1. o.name = "content"
      BY <2>2 DEF IsContent
    <3>2. o \in MarksOf(legal)
      BY <1>5, <1>8, <3>1 DEF MarksOf
    <3> QED
      BY <1>6, <1>7, <1>8, <3>1, <3>2 DEF MarksOf
  <2> QED
    BY <2>1, <2>2
<1>10. \A m : m \in ModifiersOf(legal) <=> m \in ModifiersOf(s)
  BY <1>5, <1>8 DEF ModifiersOf, MarksOf
<1>11. \A o : (o \in Range(legal) /\ IsContent(o)) <=> (o \in Range(s) /\ IsContent(o))
  BY <1>5, <1>8 DEF MarksOf, IsContent
<1>12. DOMAIN legal = 1 .. Len(legal) /\ Len(legal) \in Nat
  BY <1>5 DEF Ordered, IsList
<1>13. ASSUME NEW name \in ContentModifiers
       PROVE  name \in gone <=>
                 \E n \in ModifiersOf(s) :
                    n.name = name /\ \A o \in Range(s) : IsContent(o) => ~(o.at < n.at)
  <2>1. ASSUME name \in gone
        PROVE  \E n \in ModifiersOf(s) :
                    n.name = name /\ \A o \in Range(s) : IsContent(o) => ~(o.at < n.at)
    <3>1. PICK i \in DOMAIN legal : legal[i].name = name /\ \A k \in 1 .. i : ~IsContent(legal[k])
      BY <2>1 DEF gone, Dangling
    <3>2. legal[i] \in ModifiersOf(s)
      BY <1>10, <3>1 DEF ModifiersOf, Range
    <3>3. ASSUME NEW o \in Range(s), IsContent(o), o.at < legal[i].at
          PROVE  FALSE
      <4>1. PICK k \in DOMAIN legal : o = legal[k]
        BY <1>11, <3>3 DEF Range
      <4>2. k < i
        BY <1>5, <3>3, <4>1, OrderedAt
      <4>3. k \in 1 .. i
        BY <1>12, <4>2
      <4> QED
        BY <3>1, <3>3, <4>1, <4>3
    <3> QED
      BY <3>1, <3>2, <3>3
  <2>2. ASSUME NEW n \in ModifiersOf(s), n.name = name,
               \A o \in Range(s) : IsContent(o) => ~(o.at < n.at)
        PROVE  name \in gone
    <3>1. n \in ModifiersOf(legal)
      BY <1>10
    <3>2. PICK i \in DOMAIN legal : legal[i] = n
      BY <3>1 DEF ModifiersOf, Range
    <3>3. \A k \in 1 .. i : ~IsContent(legal[k])
      <4> SUFFICES ASSUME NEW k \in 1 .. i, IsContent(legal[k])
                   PROVE  FALSE
        OBVIOUS
      <4>1. k \in DOMAIN legal
        BY <1>12
      <4>2. legal[k] \in Range(s)
        BY <1>11, <4>1 DEF Range
      <4>3. k # i
        BY <1>8, <2>2, <3>2 DEF IsContent
      <4>4. k < i
        BY <1>12, <4>3
      <4>5. legal[k].at < n.at
        BY <1>5, <3>2, <4>1, <4>4, OrderedAt
      <4> QED
        BY <2>2, <4>2, <4>5
    <3>4. name \in Modifiers
      BY <1>8
    <3> QED
      BY <2>2, <3>2, <3>3, <3>4 DEF gone, Dangling
  <2> QED
    BY <2>1, <2>2
<1>14. ModifiersOf(c) = {m \in ModifiersOf(s) :
                    \A n \in ModifiersOf(s) : n.name = m.name =>
                        \E o \in Range(s) : IsContent(o) /\ o.at < n.at}
  <2>1. \A m : m \in ModifiersOf(c) <=> m \in ModifiersOf(s) /\ m.name \notin gone
    BY <1>6, <1>10 DEF ModifiersOf
  <2>2. \A m \in ModifiersOf(s) : m.name \in ContentModifiers
    BY DEF ModifiersOf
  <2>3. \A m \in ModifiersOf(s) : m.name \notin gone <=>
           \A n \in ModifiersOf(s) : n.name = m.name =>
                        \E o \in Range(s) : IsContent(o) /\ o.at < n.at
    BY <1>13, <2>2
  <2> QED
    BY <2>1, <2>3
<1> QED
  BY <1>1, <1>6, <1>9, <1>14

\* The options of a rule without those that are taken out of every rule.
LEMMA RuleOrdered ==
    ASSUME NEW r, IsRule(r)
    PROVE  /\ Ordered(r) /\ Ordered(Without(r, Unsupported)) /\ Claused(Without(r, Unsupported))
           /\ Range(Without(r, Unsupported)) = {o \in Range(r) : o.name \notin Unsupported}
<1> DEFINE O == Without(r, Unsupported)
           T == [name : STRING, neg : BOOLEAN, at : Nat]
<1>1. r \in Seq(T) /\ \A i \in DOMAIN r : r[i].at = i
  BY DEF IsRule
<1>2. IsList(r) /\ DOMAIN r \subseteq Nat
  BY <1>1, SeqIsList DEF IsList
<1>3. \A i \in DOMAIN r : IsOption(r[i])
  <2> TAKE i \in DOMAIN r
  <2> HIDE DEF T
  <2>1. r[i] \in T
    BY <1>1
  <2> QED
    BY <2>1 DEF IsOption, T
<1>4. Ordered(r)
  BY <1>1, <1>2, <1>3 DEF Ordered
<1>5. Ordered(O) /\ Range(O) = {o \in Range(r) : o.name \notin Unsupported}
  BY <1>4, WithoutIs
<1> HIDE DEF O
<1>6. ASSUME NEW i \in DOMAIN O, NEW j \in DOMAIN O, i < j,
             O[i].name \in HttpBuffers \cup {"sid"}, O[j].name \in ContentModifiers
      PROVE  \E k \in DOMAIN O : i < k /\ k < j /\ O[k].name \in Keywords
  <2>1. O[i] \in Range(r) /\ O[j] \in Range(r)
    BY <1>5 DEF Range
  <2>2. PICK a \in DOMAIN r : O[i] = r[a]
    BY <2>1 DEF Range
  <2>3. PICK b \in DOMAIN r : O[j] = r[b]
    BY <2>1 DEF Range
  <2>4. a < b
    BY <1>1, <1>5, <1>6, <2>2, <2>3, OrderedAt
  <2>5. PICK c \in a .. b : r[c].name \in Keywords
    BY <1>6, <2>2, <2>3, <2>4 DEF IsRule
  <2>6. c \in DOMAIN r /\ a <= c /\ c <= b
    <3>1. DOMAIN r = 1 .. Len(r) /\ Len(r) \in Nat
      BY <1>2 DEF IsList
    <3> QED
      BY <3>1
  <2>7. r[c] \in Range(O)
    <3>1. r[c] \in Range(r)
      BY <2>6 DEF Range
    <3>2. r[c].name \notin Unsupported
      BY <2>5 DEF Keywords, Unsupported
    <3> QED
      BY <1>5, <3>1, <3>2
  <2>8. PICK k \in DOMAIN O : O[k] = r[c]
    BY <2>7 DEF Range
  <2>9. a # c /\ b # c
    BY <1>6, <2>2, <2>3, <2>5 DEF HttpBuffers, Keywords, ContentModifiers, Modifiers, Unsupported
  <2>10. O[i].at < O[k].at /\ O[k].at < O[j].at
    <3>1. O[i].at = a /\ O[k].at = c /\ O[j].at = b
      BY <1>1, <2>2, <2>3, <2>6, <2>8
    <3>2. a < c /\ c < b
      BY <1>2, <2>6, <2>9
    <3> QED
      BY <3>1, <3>2
  <2>11. i < k /\ k < j
    BY <1>5, <2>10, OrderedAt
  <2> QED
    BY <2>5, <2>8, <2>11
<1>7. Claused(O)
  BY <1>6 DEF Claused
<1> QED
  BY <1>4, <1>5, <1>7 DEF O

\* What the loop leaves of a rule.
LEMMA TakenRight ==
    ASSUME NEW r, IsRule(r), NEW k \in TakeOut(Without(r, Unsupported))
    PROVE  /\ Ordered(k) /\ \A o \in Range(k) : o.name # "pcre"
           /\ {o \in Range(k) : IsContent(o)} = {o \in Range(r) : IsContent(o) /\ ~o.neg}
           /\ ModifiersOf(k) = {m \in ModifiersOf(r) : ~Orphan(r, m)}
<1> DEFINE O == Without(r, Unsupported)
<1>1. Ordered(O) /\ Claused(O) /\ Range(O) = {o \in Range(r) : o.name \notin Unsupported}
  BY RuleOrdered
<1> HIDE DEF O
<1>2. PICK i : i > Len(O) /\ Taken(k, i, O)
  BY <1>1, TakeOutIs DEF O
<1>3. \A j \in DOMAIN O : j < i
  <2>1. DOMAIN O = 1 .. Len(O) /\ Len(O) \in Nat /\ i \in Nat
    BY <1>1, <1>2 DEF Ordered, IsList, Taken
  <2> QED
    BY <1>2, <2>1
<1>4. Ordered(k)
  BY <1>2 DEF Taken
<1>5. \A o \in Range(k) : o \in Range(O)
  BY <1>2 DEF Taken, Range
<1>6. \A o \in Range(O) : o.name \in Keywords => (o \in Range(k) <=> ~Unwanted(o))
  <2> SUFFICES ASSUME NEW j \in DOMAIN O, O[j].name \in Keywords
               PROVE  O[j] \in Range(k) <=> ~Unwanted(O[j])
    BY DEF Range
  <2> QED
    BY <1>2, <1>3 DEF Taken
<1>7. \A o \in Range(O) : o.name \in ContentModifiers => (o \in Range(k) <=> ~Orphan(O, o))
  <2> SUFFICES ASSUME NEW j \in DOMAIN O, O[j].name \in ContentModifiers
               PROVE  O[j] \in Range(k) <=> ~Orphan(O, O[j])
    BY DEF Range
  <2> QED
    BY <1>2, <1>3 DEF Taken
<1>8. \A o \in Range(r) : o.name \in Keywords \cup ContentModifiers => o \in Range(O)
  BY <1>1 DEF Keywords, ContentModifiers, Unsupported
<1>9. \A m : Orphan(O, m) <=> Orphan(r, m)
  <2>1. \A at : {o \in Range(O) : o.name \in Keywords /\ o.at < at}
                  = {o \in Range(r) : o.name \in Keywords /\ o.at < at}
    BY <1>1, <1>8
  <2>2. \A at : Owner(O, at) = Owner(r, at)
    BY <2>1 DEF Owner
  <2> QED
    BY <2>2 DEF Orphan
<1>10. \A o \in Range(k) : o.name # "pcre"
  <2> SUFFICES ASSUME NEW o \in Range(k), o.name = "pcre"
               PROVE  FALSE
    OBVIOUS
  <2>1. o.name \in Keywords /\ Unwanted(o)
    BY DEF Keywords, Unwanted
  <2> QED
    BY <1>5, <1>6, <2>1
<1>11. \A o : o \in Range(k) /\ IsContent(o) <=> o \in Range(r) /\ IsContent(o) /\ ~o.neg
  <2> TAKE o
  <2>1. CASE IsContent(o)
    <3>1. o.name \in Keywords /\ (Unwanted(o) <=> o.neg)
      BY <2>1 DEF IsContent, Keywords, Unwanted
    <3>2. o \in Range(k) <=> o \in Range(O) /\ ~Unwanted(o)
      BY <1>5, <1>6, <3>1
    <3>3. o \in Range(O) <=> o \in Range(r)
      BY <1>1, <1>8, <3>1
    <3> QED
      BY <2>1, <3>1, <3>2, <3>3
  <2> QED
    BY <2>1
<1>12. \A m : m \in ModifiersOf(k) <=> m \in ModifiersOf(r) /\ ~Orphan(r, m)
  <2> TAKE m
  <2>1. CASE m.name \in ContentModifiers
    <3>1. m \in Range(k) <=> m \in Range(O) /\ ~Orphan(O, m)
      BY <1>5, <1>7, <2>1
    <3>2. m \in Range(O) <=> m \in Range(r)
      BY <1>1, <1>8, <2>1
    <3> QED
      BY <1>9, <2>1, <3>1, <3>2 DEF ModifiersOf
  <2>2. CASE m.name \notin ContentModifiers
    BY <2>2 DEF ModifiersOf
  <2> QED
    BY <2>1, <2>2
<1> QED
  BY <1>4, <1>10, <1>11, <1>12

\* What clean_and_fix leaves of a rule.
LEMMA CleanRight ==
    ASSUME NEW r, IsRule(r), NEW c \in CleanAndFix(r)
    PROVE  LET kept == {m \in ModifiersOf(r) :
                          /\ \E o \in Owner(r, m.at) : ~Unwanted(o)
                          /\ \A n \in ModifiersOf(r) : n.name = m.name => Owner(r, n.at) # {}}
           IN  /\ \A i, j \in DOMAIN c : i < j => c[i].at < c[j].at
               /\ {o \in Range(c) : o.name \in Keywords} = {o \in Range(r) : IsContent(o) /\ ~o.neg}
               /\ ModifiersOf(c) = kept
               /\ \A m \in kept : Owner(c, m.at) = Owner(r, m.at)
<1> DEFINE kept == {m \in ModifiersOf(r) :
                          /\ \E o \in Owner(r, m.at) : ~Unwanted(o)
                          /\ \A n \in ModifiersOf(r) : n.name = m.name => Owner(r, n.at) # {}}
<1>1. PICK k \in TakeOut(Without(r, Unsupported)) : c = Fixed(k)
  BY DEF CleanAndFix
<1>2. /\ Ordered(k) /\ \A o \in Range(k) : o.name # "pcre"
      /\ {o \in Range(k) : IsContent(o)} = {o \in Range(r) : IsContent(o) /\ ~o.neg}
      /\ ModifiersOf(k) = {m \in ModifiersOf(r) : ~Orphan(r, m)}
  BY TakenRight
<1>3. /\ Ordered(c)
      /\ {o \in Range(c) : o.name \in Keywords} = {o \in Range(k) : IsContent(o)}
      /\ ModifiersOf(c) = {m \in ModifiersOf(k) :
                             \A n \in ModifiersOf(k) : n.name = m.name =>
                                \E o \in Range(k) : IsContent(o) /\ o.at < n.at}
  BY <1>1, <1>2, FixedIs
<1>4. Ordered(r)
  BY RuleOrdered
<1>5. \A m : \A o \in Owner(r, m.at) : o \in Range(r) /\ o.name \in Keywords /\ o.at < m.at
  BY DEF Owner
<1>6. \A o : o.name \in Keywords /\ ~Unwanted(o) => IsContent(o) /\ ~o.neg
  BY DEF Unwanted, Keywords, IsContent
<1>7. \A n \in ModifiersOf(r) : ~Orphan(r, n) =>
         (Owner(r, n.at) # {} <=> \E o \in Range(k) : IsContent(o) /\ o.at < n.at)
  <2> SUFFICES ASSUME NEW n \in ModifiersOf(r), ~Orphan(r, n)
               PROVE  Owner(r, n.at) # {} <=> \E o \in Range(k) : IsContent(o) /\ o.at < n.at
    OBVIOUS
  <2>1. ASSUME NEW o \in Owner(r, n.at)
        PROVE  o \in Range(k) /\ IsContent(o) /\ o.at < n.at
    <3>1. IsContent(o) /\ ~o.neg
      BY <1>5, <1>6 DEF Orphan
    <3> QED
      BY <1>2, <1>5, <3>1
  <2>2. ASSUME NEW o \in Range(k), IsContent(o), o.at < n.at
        PROVE  Owner(r, n.at) # {}
    <3>1. o \in Range(r) /\ o.name \in Keywords /\ n \in Range(r)
      BY <1>2, <2>2 DEF IsContent, Keywords, ModifiersOf
    <3> QED
      BY <1>4, <2>2, <3>1, OwnerThere
  <2> QED
    BY <2>1, <2>2
<1>8. \A m \in ModifiersOf(r) : Orphan(r, m) => Owner(r, m.at) # {}
  BY DEF Orphan
<1>9. \A m \in ModifiersOf(r) : Owner(r, m.at) # {} =>
         (~Orphan(r, m) <=> \E o \in Owner(r, m.at) : ~Unwanted(o))
  <2> TAKE m \in ModifiersOf(r)
  <2>1. \A o, p \in Owner(r, m.at) : o = p
    BY <1>4, OwnerOne
  <2> QED
    BY <2>1 DEF Orphan
<1>10. ASSUME NEW m
       PROVE  m \in ModifiersOf(c) <=> m \in kept
  <2>1. ASSUME m \in ModifiersOf(c)
        PROVE  m \in kept
    <3>1. /\ m \in ModifiersOf(r) /\ ~Orphan(r, m) /\ m \in ModifiersOf(k)
          /\ \A n \in ModifiersOf(k) : n.name = m.name => \E o \in Range(k) : IsContent(o) /\ o.at < n.at
      BY <1>2, <1>3, <2>1
    <3>2. \A n \in ModifiersOf(r) : n.name = m.name => Owner(r, n.at) # {}
      <4> SUFFICES ASSUME NEW n \in ModifiersOf(r), n.name = m.name, ~Orphan(r, n)
                   PROVE  Owner(r, n.at) # {}
        BY <1>8
      <4>1. n \in ModifiersOf(k)
        BY <1>2
      <4> QED
        BY <1>7, <3>1, <4>1
    <3> QED
      BY <1>9, <3>1, <3>2
  <2>2. ASSUME m \in kept
        PROVE  m \in ModifiersOf(c)
    <3>1. /\ m \in ModifiersOf(r) /\ ~Orphan(r, m)
          /\ \A n \in ModifiersOf(r) : n.name = m.name => Owner(r, n.at) # {}
      BY <1>9, <2>2
    <3>2. ASSUME NEW n \in ModifiersOf(k), n.name = m.name
          PROVE  \E o \in Range(k) : IsContent(o) /\ o.at < n.at
      BY <1>2, <1>7, <3>1, <3>2
    <3>3. m \in ModifiersOf(k)
      BY <1>2, <3>1
    <3> QED
      BY <1>3, <3>2, <3>3
  <2> QED
    BY <2>1, <2>2
<1>11. ASSUME NEW m \in kept
       PROVE  Owner(c, m.at) = Owner(r, m.at)
  <2>1. PICK o \in Owner(r, m.at) : ~Unwanted(o)
    OBVIOUS
  <2>2. IsContent(o) /\ ~o.neg /\ o \in Range(r) /\ o.name \in Keywords /\ o.at < m.at
    BY <1>5, <1>6, <2>1
  <2>3. o \in Range(c)
    BY <1>2, <1>3, <2>2
  <2>4. \A p \in Range(c) : p.name \in Keywords => p \in Range(r)
    BY <1>2, <1>3
  <2>5. o \in Owner(c, m.at)
    BY <2>2, <2>3, <2>4 DEF Owner
  <2>6. \A p \in Owner(c, m.at) : p = o
    BY <1>3, <2>5, OwnerOne
  <2>7. \A p \in Owner(r, m.at) : p = o
    BY <1>4, <2>1, OwnerOne
  <2> QED
    BY <2>1, <2>5, <2>6, <2>7
<1>12. \A i, j \in DOMAIN c : i < j => c[i].at < c[j].at
  BY <1>3 DEF Ordered
<1>13. {o \in Range(c) : o.name \in Keywords} = {o \in Range(r) : IsContent(o) /\ ~o.neg}
  BY <1>2, <1>3
<1>14. ModifiersOf(c) = kept
  BY <1>10
<1> HIDE DEF kept
<1> QED
  BY <1>11, <1>12, <1>13, <1>14 DEF kept

\* What has been cleaned was cleaned of a rule given to the tools.
CleanedInv ==
    /\ tool = "cleanfix" => raw \in RawRules
    /\ tool = "filter" => raw \in RawRules /\ cleaned \in CleanAndFix(raw)

\* Of a rule whose buffers and sid a keyword separates from the modifiers behind them
\* the contents that are wanted are left, with their modifiers, whatever its length and
\* the order of its options (clean_and_fix).
THEOREM CleanedIsRight == ToolsSpec => []CleanedRight
<1>1. ToolsInit => CleanedInv
  BY DEF ToolsInit, CleanedInv
<1>2. CleanedInv /\ [ToolsNext]_toolVars => CleanedInv'
  <2> SUFFICES ASSUME CleanedInv, [ToolsNext]_toolVars
               PROVE  CleanedInv'
    OBVIOUS
  <2>1. CASE CleanFix
    BY <2>1 DEF CleanFix, CleanedInv
  <2>2. ASSUME tool' \notin {"cleanfix", "filter"}
        PROVE  CleanedInv'
    BY <2>2 DEF CleanedInv
  <2>3. CASE UNCHANGED toolVars
    BY <2>3 DEF CleanedInv, toolVars, doca
  <2>4. FilterRxpc \/ Summary \/ FilterHyperscan \/ Sample \/ Extract \/ Number
           \/ RulesToSubsets \/ ToHyperscan \/ DocaFilter => tool' \notin {"cleanfix", "filter"}
    BY DEF FilterRxpc, Summary, FilterHyperscan, Sample, Extract, Number, RulesToSubsets,
           ToHyperscan, DocaFilter
  <2> QED
    BY <2>1, <2>2, <2>3, <2>4 DEF ToolsNext, Ended
<1>3. CleanedInv => CleanedRight
  <2> SUFFICES ASSUME CleanedInv, tool = "filter"
               PROVE  CleanedRight
    BY DEF CleanedRight
  <2>1. IsRule(raw) /\ cleaned \in CleanAndFix(raw)
    BY OptionsAssumption DEF CleanedInv
  <2> QED
    BY <2>1, CleanRight DEF CleanedRight
<1> QED
  BY <1>1, <1>2, <1>3, PTL DEF ToolsSpec
=============================================================================
