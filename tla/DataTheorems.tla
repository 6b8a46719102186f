---------------------------- MODULE DataTheorems ----------------------------
(***************************************************************************)
(* Lemmas about the operators the models share: sums and selections.       *)
(*                                                                         *)
(* SumFunctionOnSet(f, S) is the sum of f[x] for the x of a finite set S.  *)
(* The community modules define it by a fold that takes an element of the  *)
(* set by CHOOSE; the lemmas make it independent of which.                 *)
(*                                                                         *)
(* The provers cannot instantiate an induction theorem, whose hypothesis   *)
(* is an operator.  They can use a set: a nonempty set of finite sets has  *)
(* a minimal member (Minimal), and every induction below is on the least   *)
(* counterexample.                                                         *)
(***************************************************************************)
EXTENDS Integers, Sequences, FiniteSets, Functions, Selections,
        FiniteSetTheorems, WellFoundedInduction, TLAPS

\* A nonempty set of finite sets has a member no other one is within.
LEMMA Minimal ==
    ASSUME NEW C, C # {}, \A x \in C : IsFiniteSet(x)
    PROVE  \E x \in C : \A y \in C : ~(y \subseteq x /\ y # x)
<1> DEFINE S == UNION C
           R == StrictSubsetOrdering(S)
<1>1. IsWellFoundedOn(R, FiniteSubsetsOf(S))
  BY FS_StrictSubsetOrderingWellFounded
<1>2. C \subseteq FiniteSubsetsOf(S)
  BY DEF FiniteSubsetsOf
<1> HIDE DEF R, S
<1>3. \E x \in C : \A y \in C : ~(<<y, x>> \in R)
  BY <1>1, <1>2, WFMin
<1> QED
  BY <1>2, <1>3 DEF R, StrictSubsetOrdering, FiniteSubsetsOf

\* A nonempty set of numbers has a least one.
LEMMA Least ==
    ASSUME NEW T, T \subseteq Nat, T # {}
    PROVE  \E x \in T : \A y \in T : x <= y
<1> DEFINE C == {0 .. x : x \in T}
<1>1. C # {}
  OBVIOUS
<1>2. ASSUME NEW c \in C
      PROVE  IsFiniteSet(c)
  <2>1. PICK x \in T : c = 0 .. x
    OBVIOUS
  <2>2. 0 \in Int /\ x \in Int
    OBVIOUS
  <2> QED
    BY <2>1, <2>2, FS_Interval
<1> HIDE DEF C
<1>3. PICK c \in C : \A d \in C : ~(d \subseteq c /\ d # c)
  BY <1>1, <1>2, Minimal
<1>4. PICK x \in T : c = 0 .. x
  BY DEF C
<1>5. ASSUME NEW y \in T
      PROVE  x <= y
  <2>1. ~(0 .. y \subseteq 0 .. x /\ 0 .. y # 0 .. x)
    BY <1>3, <1>4 DEF C
  <2> SUFFICES ASSUME y < x
               PROVE  FALSE
    OBVIOUS
  <2>2. x \in 0 .. x /\ x \notin 0 .. y
    OBVIOUS
  <2> QED
    BY <2>1, <2>2
<1> QED
  BY <1>5

LEMMA Greatest ==
    ASSUME NEW T, T \subseteq Nat, T # {}, NEW b \in Nat, \A y \in T : y <= b
    PROVE  \E x \in T : \A y \in T : y <= x
<1> DEFINE D == {b - y : y \in T}
<1>1. D \subseteq Nat /\ D # {}
  <2>1. \A y \in T : b - y \in Nat
    OBVIOUS
  <2> QED
    BY <2>1
<1> HIDE DEF D
<1>2. PICK d \in D : \A e \in D : d <= e
  BY <1>1, Least
<1>3. PICK x \in T : d = b - x
  BY DEF D
<1>4. ASSUME NEW y \in T
      PROVE  y <= x
  <2>1. b - x <= b - y
    BY <1>2, <1>3 DEF D
  <2>2. x \in Nat /\ y \in Nat
    OBVIOUS
  <2> QED
    BY <2>1, <2>2
<1> QED
  BY <1>4

\* Induction on numbers, for a set of them in place of an operator.
LEMMA SetOfNumbers ==
    ASSUME NEW C, 0 \in C, \A n \in Nat : n \in C => n + 1 \in C
    PROVE  Nat \subseteq C
<1> DEFINE T == Nat \ C
<1> SUFFICES ASSUME T # {}
             PROVE  FALSE
  OBVIOUS
<1>1. T \subseteq Nat
  OBVIOUS
<1> HIDE DEF T
<1>2. PICK x \in T : \A y \in T : x <= y
  BY <1>1, Least
<1> USE DEF T
<1>3. x \in Nat /\ x # 0 /\ x - 1 \in Nat
  OBVIOUS
<1>4. x - 1 \notin T
  BY <1>2, <1>3
<1> QED
  BY <1>3, <1>4

-----------------------------------------------------------------------------
(* The sums of f on the subsets of S, as the fold tabulates them.          *)

Pick(s) == CHOOSE x \in s : TRUE

IsTable(t, f, S) ==
    t = [s \in SUBSET S |-> IF s = {} THEN 0 ELSE f[Pick(s)] + t[s \ {Pick(s)}]]

TableOf(f, S) == CHOOSE t : IsTable(t, f, S)

LEMMA SumIsEntry == ASSUME NEW f, NEW S PROVE SumFunctionOnSet(f, S) = TableOf(f, S)[S]
BY DEF SumFunctionOnSet, FoldFunctionOnSet, MapThenFoldSet, TableOf, IsTable, Pick

LEMMA TableEntry ==
    ASSUME NEW f, NEW S, NEW t, IsTable(t, f, S), NEW s \in SUBSET S
    PROVE  /\ s = {} => t[s] = 0
           /\ s # {} => Pick(s) \in s /\ t[s] = f[Pick(s)] + t[s \ {Pick(s)}]
<1>1. t[s] = IF s = {} THEN 0 ELSE f[Pick(s)] + t[s \ {Pick(s)}]
  BY DEF IsTable
<1>2. s # {} => Pick(s) \in s
  BY DEF Pick
<1> QED
  BY <1>1, <1>2

LEMMA TablesAgree ==
    ASSUME NEW f, NEW S, NEW S2, NEW t, NEW t2, IsTable(t, f, S), IsTable(t2, f, S2),
           NEW u, u \subseteq S, u \subseteq S2, IsFiniteSet(u)
    PROVE  t[u] = t2[u]
<1> DEFINE C == {s \in SUBSET u : t[s] # t2[s]}
<1> SUFFICES ASSUME C # {}
             PROVE  FALSE
  OBVIOUS
<1>1. \A s \in C : IsFiniteSet(s)
  BY FS_Subset
<1> HIDE DEF C
<1>2. PICK s \in C : \A r \in C : ~(r \subseteq s /\ r # s)
  BY <1>1, Minimal
<1> USE DEF C
<1>3. s \in SUBSET S /\ s \in SUBSET S2 /\ s \in SUBSET u
  OBVIOUS
<1>4. s # {}
  BY <1>3, TableEntry
<1> DEFINE x == Pick(s)
<1>5. x \in s /\ t[s] = f[x] + t[s \ {x}]
  BY <1>3, <1>4, TableEntry
<1>6. s # {} => Pick(s) \in s /\ t2[s] = f[Pick(s)] + t2[s \ {Pick(s)}]
  <2>1. s \in SUBSET S2
    BY <1>3
  <2> HIDE DEF C, x
  <2> QED
    BY <2>1, TableEntry
<1>7. s \ {x} \notin C
  BY <1>2, <1>5
<1>8. t[s \ {x}] = t2[s \ {x}]
  BY <1>3, <1>7
<1> QED
  BY <1>3, <1>4, <1>5, <1>6, <1>8

LEMMA TableExists ==
    ASSUME NEW f, NEW S, IsFiniteSet(S)
    PROVE  IsTable(TableOf(f, S), f, S)
<1> DEFINE C == {s \in SUBSET S : ~IsTable(TableOf(f, s), f, s)}
<1> SUFFICES ASSUME C # {}
             PROVE  FALSE
  OBVIOUS
<1>1. \A s \in C : IsFiniteSet(s)
  BY FS_Subset
<1> HIDE DEF C
<1>2. PICK s \in C : \A r \in C : ~(r \subseteq s /\ r # s)
  BY <1>1, Minimal
<1> USE DEF C
<1>3. \A r \in SUBSET s : r # s => IsTable(TableOf(f, r), f, r) /\ IsFiniteSet(r)
  BY <1>1, <1>2, FS_Subset
<1> DEFINE Entry(r) == TableOf(f, r)[r]
           t == [r \in SUBSET s |->
                    IF r = {} THEN 0 ELSE f[Pick(r)] + Entry(r \ {Pick(r)})]
<1>4. \A r \in SUBSET s : r # s => t[r] = Entry(r)
  <2> SUFFICES ASSUME NEW r \in SUBSET s, r # s
               PROVE  t[r] = Entry(r)
    OBVIOUS
  <2>1. IsTable(TableOf(f, r), f, r) /\ r \in SUBSET r
    BY <1>3
  <2>2. CASE r = {}
    BY <2>1, <2>2, TableEntry
  <2>3. CASE r # {}
    <3> DEFINE u == TableOf(f, r)
    <3> HIDE DEF u
    <3>0. IsTable(u, f, r) /\ r \in SUBSET r
      BY <2>1 DEF u
    <3>5. Pick(r) \in r /\ u[r] = f[Pick(r)] + u[r \ {Pick(r)}]
      BY <3>0, <2>3, TableEntry
    <3>1. Pick(r) \in r /\ Entry(r) = f[Pick(r)] + TableOf(f, r)[r \ {Pick(r)}]
      BY <3>5 DEF u
    <3>2. r \ {Pick(r)} \in SUBSET s /\ r \ {Pick(r)} # s
      BY <3>1
    <3>3. IsTable(TableOf(f, r \ {Pick(r)}), f, r \ {Pick(r)}) /\ IsFiniteSet(r \ {Pick(r)})
      BY <1>3, <3>2
    <3>4. TableOf(f, r)[r \ {Pick(r)}] = Entry(r \ {Pick(r)})
      BY <2>1, <3>3, TablesAgree
    <3> QED
      BY <2>3, <3>1, <3>4
  <2> QED
    BY <2>2, <2>3
<1>5. ASSUME NEW r \in SUBSET s
      PROVE  t[r] = IF r = {} THEN 0 ELSE f[Pick(r)] + t[r \ {Pick(r)}]
  <2>1. CASE r = {}
    BY <2>1
  <2>2. CASE r # {}
    <3>1. Pick(r) \in r
      BY <2>2 DEF Pick
    <3>2. r \ {Pick(r)} \in SUBSET s /\ r \ {Pick(r)} # s
      BY <3>1
    <3> QED
      BY <1>4, <2>2, <3>2
  <2> QED
    BY <2>1, <2>2
<1>6. IsTable(t, f, s)
  BY <1>5 DEF IsTable
<1>7. IsTable(TableOf(f, s), f, s)
  BY <1>6 DEF TableOf
<1> QED
  BY <1>7

\* The sum of a nonempty set is that of the picked element and the rest.
LEMMA SumPicked ==
    ASSUME NEW f, NEW S, IsFiniteSet(S)
    PROVE  /\ S = {} => SumFunctionOnSet(f, S) = 0
           /\ S # {} => /\ Pick(S) \in S
                        /\ SumFunctionOnSet(f, S) = f[Pick(S)] + SumFunctionOnSet(f, S \ {Pick(S)})
<1> DEFINE t == TableOf(f, S)
           r == S \ {Pick(S)}
<1>1. IsTable(t, f, S)
  BY TableExists
<1>2. IsFiniteSet(r) /\ r \subseteq S
  BY FS_Subset
<1>3. IsTable(TableOf(f, r), f, r)
  BY <1>2, TableExists
<1> HIDE DEF t, r
<1>4. TableOf(f, r)[r] = t[r]
  BY <1>1, <1>2, <1>3, TablesAgree
<1>5. SumFunctionOnSet(f, r) = t[r] /\ SumFunctionOnSet(f, S) = t[S]
  BY <1>4, SumIsEntry DEF t
<1>6. /\ S = {} => t[S] = 0
      /\ S # {} => Pick(S) \in S /\ t[S] = f[Pick(S)] + t[S \ {Pick(S)}]
  BY <1>1, TableEntry
<1> QED
  BY <1>5, <1>6 DEF r

-----------------------------------------------------------------------------
(* Induction on the subsets of a finite set, for a set C of them in place  *)
(* of an operator.                                                         *)
LEMMA SubsetInduction ==
    ASSUME NEW S, IsFiniteSet(S), NEW C, {} \in C,
           \A s \in SUBSET S : s # {} /\ IsFiniteSet(s) /\ (\A x \in s : s \ {x} \in C) => s \in C
    PROVE  S \in C
<1> DEFINE D == (SUBSET S) \ C
<1> SUFFICES ASSUME D # {}
             PROVE  FALSE
  OBVIOUS
<1>1. \A s \in D : IsFiniteSet(s)
  BY FS_Subset
<1> HIDE DEF D
<1>2. PICK s \in D : \A r \in D : ~(r \subseteq s /\ r # s)
  BY <1>1, Minimal
<1> USE DEF D
<1>3. \A x \in s : s \ {x} \in C
  BY <1>2
<1> QED
  BY <1>1, <1>3

LEMMA SumEmpty == ASSUME NEW f PROVE SumFunctionOnSet(f, {}) = 0
BY SumPicked, FS_EmptySet

\* f counts something for every element of S.
Numbers(f, S) == \A x \in S : f[x] \in Nat

LEMMA SumType ==
    ASSUME NEW S, IsFiniteSet(S), NEW f, Numbers(f, S)
    PROVE  SumFunctionOnSet(f, S) \in Nat
<1> DEFINE C == {s \in SUBSET S : SumFunctionOnSet(f, s) \in Nat}
<1>1. {} \in C
  BY SumEmpty
<1>2. ASSUME NEW s \in SUBSET S, s # {}, IsFiniteSet(s), \A x \in s : s \ {x} \in C
      PROVE  s \in C
  <2>1. Pick(s) \in s /\ SumFunctionOnSet(f, s) = f[Pick(s)] + SumFunctionOnSet(f, s \ {Pick(s)})
    BY <1>2, SumPicked
  <2>2. SumFunctionOnSet(f, s \ {Pick(s)}) \in Nat /\ f[Pick(s)] \in Nat
    BY <1>2, <2>1 DEF Numbers
  <2> QED
    BY <2>1, <2>2
<1> HIDE DEF C
<1>3. S \in C
  BY <1>1, <1>2, SubsetInduction
<1> QED
  BY <1>3 DEF C

\* The order does not matter: any element may be taken out first.
LEMMA SumTakeOut ==
    ASSUME NEW S, IsFiniteSet(S), NEW f, Numbers(f, S), NEW a \in S
    PROVE  SumFunctionOnSet(f, S) = f[a] + SumFunctionOnSet(f, S \ {a})
<1> DEFINE C == {s \in SUBSET S :
                    \A x \in s : SumFunctionOnSet(f, s) = f[x] + SumFunctionOnSet(f, s \ {x})}
<1>1. {} \in C
  OBVIOUS
<1>2. ASSUME NEW s \in SUBSET S, s # {}, IsFiniteSet(s), \A x \in s : s \ {x} \in C,
             NEW x \in s
      PROVE  SumFunctionOnSet(f, s) = f[x] + SumFunctionOnSet(f, s \ {x})
  <2> DEFINE p == Pick(s)
  <2>1. p \in s /\ SumFunctionOnSet(f, s) = f[p] + SumFunctionOnSet(f, s \ {p})
    BY <1>2, SumPicked
  <2> HIDE DEF p
  <2>2. CASE x = p
    BY <2>1, <2>2
  <2>3. CASE x # p
    <3>1. SumFunctionOnSet(f, s \ {p}) = f[x] + SumFunctionOnSet(f, (s \ {p}) \ {x})
      BY <1>2, <2>1, <2>3
    <3>2. SumFunctionOnSet(f, s \ {x}) = f[p] + SumFunctionOnSet(f, (s \ {x}) \ {p})
      BY <1>2, <2>1, <2>3
    <3>3. (s \ {p}) \ {x} = (s \ {x}) \ {p}
      OBVIOUS
    <3>4. IsFiniteSet((s \ {x}) \ {p}) /\ Numbers(f, (s \ {x}) \ {p})
      BY <1>2, FS_Subset DEF Numbers
    <3>5. SumFunctionOnSet(f, (s \ {x}) \ {p}) \in Nat /\ f[x] \in Nat /\ f[p] \in Nat
      BY <2>1, <3>4, SumType DEF Numbers
    <3> DEFINE r == SumFunctionOnSet(f, (s \ {x}) \ {p})
    <3>6. SumFunctionOnSet(f, s \ {p}) = f[x] + r /\ SumFunctionOnSet(f, s \ {x}) = f[p] + r
      BY <3>1, <3>2, <3>3
    <3> HIDE DEF r, C
    <3> QED
      BY <2>1, <3>5, <3>6 DEF r
  <2> QED
    BY <2>2, <2>3
<1>3. ASSUME NEW s \in SUBSET S, s # {}, IsFiniteSet(s), \A x \in s : s \ {x} \in C
      PROVE  s \in C
  BY <1>2, <1>3
<1> HIDE DEF C
<1>4. S \in C
  BY <1>1, <1>3, SubsetInduction
<1> QED
  BY <1>4 DEF C

\* A summand is at most the sum.
LEMMA SumMember ==
    ASSUME NEW S, IsFiniteSet(S), NEW f, Numbers(f, S), NEW a \in S
    PROVE  f[a] <= SumFunctionOnSet(f, S)
<1>1. SumFunctionOnSet(f, S) = f[a] + SumFunctionOnSet(f, S \ {a})
  BY SumTakeOut
<1>2. IsFiniteSet(S \ {a}) /\ Numbers(f, S \ {a})
  BY FS_Subset DEF Numbers
<1>3. SumFunctionOnSet(f, S \ {a}) \in Nat /\ f[a] \in Nat
  BY <1>2, SumType DEF Numbers
<1> QED
  BY <1>1, <1>3

\* Over every part of S the element taken out and the rest, with their types.
Divides(f, S) ==
    \A s \in SUBSET S : \A a \in s :
        /\ SumFunctionOnSet(f, s) = f[a] + SumFunctionOnSet(f, s \ {a})
        /\ SumFunctionOnSet(f, s \ {a}) \in Nat
        /\ SumFunctionOnSet(f, s) \in Nat
        /\ f[a] \in Nat

LEMMA SumPart ==
    ASSUME NEW S, IsFiniteSet(S), NEW f, Numbers(f, S)
    PROVE  Divides(f, S)
<1> SUFFICES ASSUME NEW s \in SUBSET S, NEW a \in s
             PROVE  /\ SumFunctionOnSet(f, s) = f[a] + SumFunctionOnSet(f, s \ {a})
                    /\ SumFunctionOnSet(f, s \ {a}) \in Nat
                    /\ SumFunctionOnSet(f, s) \in Nat
                    /\ f[a] \in Nat
  BY DEF Divides
<1>1. IsFiniteSet(s) /\ Numbers(f, s)
  BY FS_Subset DEF Numbers
<1>2. IsFiniteSet(s \ {a}) /\ Numbers(f, s \ {a})
  BY <1>1, FS_Subset DEF Numbers
<1>3. f[a] \in Nat
  BY DEF Numbers
<1> QED
  BY <1>1, <1>2, <1>3, SumTakeOut, SumType

LEMMA SumMono ==
    ASSUME NEW S, IsFiniteSet(S), NEW f, Numbers(f, S),
           NEW g, Numbers(g, S), \A x \in S : f[x] <= g[x]
    PROVE  SumFunctionOnSet(f, S) <= SumFunctionOnSet(g, S)
<1>4. Divides(f, S)
  BY SumPart
<1>5. Divides(g, S)
  BY SumPart
<1> DEFINE C == {s \in SUBSET S : SumFunctionOnSet(f, s) <= SumFunctionOnSet(g, s)}
<1>1. {} \in C
  BY SumEmpty
<1>2. ASSUME NEW s \in SUBSET S, s # {}, \A x \in s : s \ {x} \in C
      PROVE  s \in C
  <2>1. PICK a \in s : TRUE
    BY <1>2
  <2>2. SumFunctionOnSet(f, s \ {a}) <= SumFunctionOnSet(g, s \ {a}) /\ f[a] <= g[a]
    BY <1>2
  <2>3. /\ SumFunctionOnSet(f, s) = f[a] + SumFunctionOnSet(f, s \ {a})
        /\ SumFunctionOnSet(f, s \ {a}) \in Nat /\ f[a] \in Nat
    BY <1>4 DEF Divides
  <2>4. /\ SumFunctionOnSet(g, s) = g[a] + SumFunctionOnSet(g, s \ {a})
        /\ SumFunctionOnSet(g, s \ {a}) \in Nat /\ g[a] \in Nat
    BY <1>5 DEF Divides
  <2> QED
    BY <2>2, <2>3, <2>4
<1> HIDE DEF C
<1>3. S \in C
  BY <1>1, <1>2, SubsetInduction
<1> QED
  BY <1>3 DEF C

LEMMA SumSame ==
    ASSUME NEW S, IsFiniteSet(S), NEW f, Numbers(f, S),
           NEW g, \A x \in S : g[x] = f[x]
    PROVE  SumFunctionOnSet(g, S) = SumFunctionOnSet(f, S)
<1>1. Numbers(g, S) /\ \A x \in S : f[x] <= g[x] /\ g[x] <= f[x]
  BY DEF Numbers
<1>2. SumFunctionOnSet(f, S) <= SumFunctionOnSet(g, S)
  BY <1>1, SumMono
<1>3. SumFunctionOnSet(g, S) <= SumFunctionOnSet(f, S)
  BY <1>1, SumMono
<1>4. SumFunctionOnSet(f, S) \in Nat
  BY SumType
<1>5. SumFunctionOnSet(g, S) \in Nat
  BY <1>1, SumType
<1> QED
  BY <1>2, <1>3, <1>4, <1>5

\* What one changed summand does to the sum.
LEMMA SumChange ==
    ASSUME NEW S, IsFiniteSet(S), NEW f, Numbers(f, S),
           NEW g, Numbers(g, S), NEW a \in S, \A x \in S \ {a} : g[x] = f[x]
    PROVE  SumFunctionOnSet(g, S) + f[a] = SumFunctionOnSet(f, S) + g[a]
<1>1. IsFiniteSet(S \ {a}) /\ Numbers(f, S \ {a})
  BY FS_Subset DEF Numbers
<1>2. SumFunctionOnSet(g, S \ {a}) = SumFunctionOnSet(f, S \ {a})
  BY <1>1, SumSame
<1>3. SumFunctionOnSet(f, S \ {a}) \in Nat
  BY <1>1, SumType
<1>4. SumFunctionOnSet(f, S) = f[a] + SumFunctionOnSet(f, S \ {a}) /\ f[a] \in Nat
  BY SumTakeOut DEF Numbers
<1>5. SumFunctionOnSet(g, S) = g[a] + SumFunctionOnSet(g, S \ {a}) /\ g[a] \in Nat
  BY SumTakeOut DEF Numbers
<1> QED
  BY <1>2, <1>3, <1>4, <1>5

LEMMA SumZero ==
    ASSUME NEW S, IsFiniteSet(S), NEW f, \A x \in S : f[x] = 0
    PROVE  SumFunctionOnSet(f, S) = 0
<1> DEFINE C == {s \in SUBSET S : SumFunctionOnSet(f, s) = 0}
<1>1. {} \in C
  BY SumEmpty
<1>2. ASSUME NEW s \in SUBSET S, s # {}, IsFiniteSet(s), \A x \in s : s \ {x} \in C
      PROVE  s \in C
  <2>1. Pick(s) \in s /\ SumFunctionOnSet(f, s) = f[Pick(s)] + SumFunctionOnSet(f, s \ {Pick(s)})
    BY <1>2, SumPicked
  <2>2. SumFunctionOnSet(f, s \ {Pick(s)}) = 0 /\ f[Pick(s)] = 0
    BY <1>2, <2>1
  <2> QED
    BY <2>1, <2>2
<1> HIDE DEF C
<1>3. S \in C
  BY <1>1, <1>2, SubsetInduction
<1> QED
  BY <1>3 DEF C

LEMMA SumPlus ==
    ASSUME NEW S, IsFiniteSet(S), NEW f, Numbers(f, S),
           NEW g, Numbers(g, S), NEW h, \A x \in S : h[x] = f[x] + g[x]
    PROVE  SumFunctionOnSet(h, S) = SumFunctionOnSet(f, S) + SumFunctionOnSet(g, S)
<1>4. Divides(f, S)
  BY SumPart
<1>5. Divides(g, S)
  BY SumPart
<1>6. Divides(h, S)
  <2>1. Numbers(h, S)
    BY DEF Numbers
  <2> QED
    BY <2>1, SumPart
<1> DEFINE C == {s \in SUBSET S :
                    SumFunctionOnSet(h, s) = SumFunctionOnSet(f, s) + SumFunctionOnSet(g, s)}
<1>1. {} \in C
  BY SumEmpty
<1>2. ASSUME NEW s \in SUBSET S, s # {}, \A x \in s : s \ {x} \in C
      PROVE  s \in C
  <2>1. PICK a \in s : TRUE
    BY <1>2
  <2>2. /\ SumFunctionOnSet(h, s \ {a})
              = SumFunctionOnSet(f, s \ {a}) + SumFunctionOnSet(g, s \ {a})
        /\ h[a] = f[a] + g[a]
    BY <1>2
  <2>3. /\ SumFunctionOnSet(f, s) = f[a] + SumFunctionOnSet(f, s \ {a})
        /\ SumFunctionOnSet(f, s \ {a}) \in Nat /\ f[a] \in Nat
    BY <1>4 DEF Divides
  <2>4. /\ SumFunctionOnSet(g, s) = g[a] + SumFunctionOnSet(g, s \ {a})
        /\ SumFunctionOnSet(g, s \ {a}) \in Nat /\ g[a] \in Nat
    BY <1>5 DEF Divides
  <2>5. SumFunctionOnSet(h, s) = h[a] + SumFunctionOnSet(h, s \ {a})
    BY <1>6 DEF Divides
  <2> QED
    BY <2>2, <2>3, <2>4, <2>5
<1> HIDE DEF C
<1>3. S \in C
  BY <1>1, <1>2, SubsetInduction
<1> QED
  BY <1>3 DEF C

\* A sum over A is the sum over B to which m carries it, when nothing is
\* carried to the same place and there is nothing elsewhere.
LEMMA SumCarried ==
    ASSUME NEW A, IsFiniteSet(A), NEW f, Numbers(f, A),
           NEW B, IsFiniteSet(B), NEW g, Numbers(g, B),
           NEW m, \A x \in A : m[x] \in B /\ g[m[x]] = f[x],
           \A x, z \in A : x # z => m[x] # m[z],
           \A y \in B : (\A x \in A : m[x] # y) => g[y] = 0
    PROVE  SumFunctionOnSet(f, A) = SumFunctionOnSet(g, B)
<1>1. Divides(f, A) /\ Divides(g, B)
  BY SumPart
<1> DEFINE image(s) == {m[x] : x \in s}
           C == {s \in SUBSET A : SumFunctionOnSet(f, s) = SumFunctionOnSet(g, image(s))}
<1>2. {} \in C
  BY SumEmpty
<1>3. ASSUME NEW s \in SUBSET A, s # {}, \A x \in s : s \ {x} \in C
      PROVE  s \in C
  <2>1. PICK a \in s : TRUE
    BY <1>3
  <2>2. image(s) \in SUBSET B /\ m[a] \in image(s) /\ image(s \ {a}) = image(s) \ {m[a]}
    OBVIOUS
  <2>3. SumFunctionOnSet(f, s \ {a}) = SumFunctionOnSet(g, image(s) \ {m[a]}) /\ g[m[a]] = f[a]
    BY <1>3, <2>2
  <2>4. SumFunctionOnSet(f, s) = f[a] + SumFunctionOnSet(f, s \ {a})
    BY <1>1 DEF Divides
  <2> DEFINE i == image(s)
             b == m[a]
  <2>5. i \in SUBSET B /\ b \in i
    BY <2>2
  <2> HIDE DEF i, b
  <2>6. SumFunctionOnSet(g, i) = g[b] + SumFunctionOnSet(g, i \ {b})
    BY <1>1, <2>5 DEF Divides
  <2> QED
    BY <2>3, <2>4, <2>6 DEF i, b
<1>4. SumFunctionOnSet(f, A) = SumFunctionOnSet(g, image(A))
  <2> HIDE DEF C
  <2>1. A \in C
    BY <1>2, <1>3, SubsetInduction
  <2> QED
    BY <2>1 DEF C
<1> DEFINE D == {s \in SUBSET (B \ image(A)) :
                    SumFunctionOnSet(g, s \cup image(A)) = SumFunctionOnSet(g, image(A))}
<1>5. B \ image(A) \in D
  <2>1. {} \in D
    OBVIOUS
  <2>2. ASSUME NEW s \in SUBSET (B \ image(A)), s # {}, \A x \in s : s \ {x} \in D
        PROVE  s \in D
    <3>1. PICK b \in s : TRUE
      BY <2>2
    <3> DEFINE u == s \cup image(A)
    <3>2. u \in SUBSET B /\ b \in u /\ u \ {b} = (s \ {b}) \cup image(A) /\ g[b] = 0
      OBVIOUS
    <3>3. SumFunctionOnSet(g, u \ {b}) = SumFunctionOnSet(g, image(A))
      BY <2>2, <3>2
    <3> HIDE DEF u
    <3>4. /\ SumFunctionOnSet(g, u) = g[b] + SumFunctionOnSet(g, u \ {b})
          /\ SumFunctionOnSet(g, u \ {b}) \in Nat
      BY <1>1, <3>2 DEF Divides
    <3>5. SumFunctionOnSet(g, u) = SumFunctionOnSet(g, image(A))
      BY <3>2, <3>3, <3>4
    <3> QED
      BY <3>5 DEF u
  <2>3. IsFiniteSet(B \ image(A))
    BY FS_Subset
  <2> DEFINE r == B \ image(A)
  <2> HIDE DEF D
  <2> QED
    BY <2>1, <2>2, <2>3, SubsetInduction
<1>6. (B \ image(A)) \cup image(A) = B
  OBVIOUS
<1> QED
  BY <1>4, <1>5, <1>6

\* A table of counts summed by rows and by columns.
LEMMA SumSwapped ==
    ASSUME NEW A, IsFiniteSet(A), NEW B, IsFiniteSet(B),
           NEW F, \A x \in A, y \in B : F[x][y] \in Nat
    PROVE  SumFunctionOnSet([x \in A |-> SumFunctionOnSet([y \in B |-> F[x][y]], B)], A)
             = SumFunctionOnSet([y \in B |-> SumFunctionOnSet([x \in A |-> F[x][y]], A)], B)
<1> DEFINE row(x) == [y \in B |-> F[x][y]]
           rows   == [x \in A |-> SumFunctionOnSet(row(x), B)]
           col(y) == [x \in A |-> F[x][y]]
           part(s) == [y \in B |-> SumFunctionOnSet(col(y), s)]
           C == {s \in SUBSET A : SumFunctionOnSet(rows, s) = SumFunctionOnSet(part(s), B)}
<1>1. \A x \in A : Numbers(row(x), B)
  BY DEF Numbers
<1>2. \A y \in B : Divides(col(y), A)
  <2> SUFFICES ASSUME NEW y \in B
               PROVE  Divides(col(y), A)
    OBVIOUS
  <2>1. Numbers(col(y), A)
    BY DEF Numbers
  <2> HIDE DEF col
  <2> QED
    BY <2>1, SumPart
<1>3. Divides(rows, A)
  <2>1. \A x \in A : SumFunctionOnSet(row(x), B) \in Nat
    <3> HIDE DEF row
    <3> QED
      BY <1>1, SumType
  <2>2. Numbers(rows, A)
    BY <2>1 DEF Numbers
  <2> HIDE DEF rows
  <2> QED
    BY <2>2, SumPart
<1>4. {} \in C
  <2>1. \A y \in B : part({})[y] = 0
    BY SumEmpty
  <2>2. SumFunctionOnSet(part({}), B) = 0
    <3> HIDE DEF part
    <3> QED
      BY <2>1, SumZero
  <2> QED
    BY <2>2, SumEmpty
<1>5. ASSUME NEW s \in SUBSET A, s # {}, IsFiniteSet(s), \A x \in s : s \ {x} \in C
      PROVE  s \in C
  <2>1. PICK a \in s : TRUE
    BY <1>5
  <2>2. SumFunctionOnSet(rows, s \ {a}) = SumFunctionOnSet(part(s \ {a}), B)
    BY <1>5
  <2>3. SumFunctionOnSet(rows, s) = rows[a] + SumFunctionOnSet(rows, s \ {a})
    BY <1>3 DEF Divides
  <2>4. \A y \in B : part(s)[y] = row(a)[y] + part(s \ {a})[y] /\ part(s \ {a})[y] \in Nat
    BY <1>2 DEF Divides
  <2>5. SumFunctionOnSet(part(s), B) = SumFunctionOnSet(row(a), B) + SumFunctionOnSet(part(s \ {a}), B)
    <3> DEFINE f == row(a)
               g == part(s \ {a})
               h == part(s)
    <3>1. Numbers(f, B) /\ Numbers(g, B) /\ \A y \in B : h[y] = f[y] + g[y]
      BY <1>1, <2>4 DEF Numbers
    <3> HIDE DEF f, g, h
    <3>2. SumFunctionOnSet(h, B) = SumFunctionOnSet(f, B) + SumFunctionOnSet(g, B)
      BY <3>1, SumPlus
    <3> QED
      BY <3>2 DEF f, g, h
  <2>6. rows[a] = SumFunctionOnSet(row(a), B)
    OBVIOUS
  <2>7. SumFunctionOnSet(rows, s) = SumFunctionOnSet(part(s), B)
    <3> HIDE DEF rows, row, part
    <3> QED
      BY <2>2, <2>3, <2>5, <2>6
  <2> QED
    BY <2>7
<1>6. SumFunctionOnSet(rows, A) = SumFunctionOnSet(part(A), B)
  <2> HIDE DEF C
  <2>1. A \in C
    BY <1>4, <1>5, SubsetInduction
  <2> QED
    BY <2>1 DEF C
<1> QED
  BY <1>6

\* The sum of the first numbers grows by the next.
LEMMA SumNext ==
    ASSUME NEW f, NEW n \in Nat, Numbers(f, 1 .. n), NEW i \in 1 .. n
    PROVE  /\ SumFunctionOnSet(f, 1 .. i) = SumFunctionOnSet(f, 1 .. (i - 1)) + f[i]
           /\ SumFunctionOnSet(f, 1 .. (i - 1)) \in Nat /\ f[i] \in Nat
<1> DEFINE A == 1 .. i
           B == 1 .. (i - 1)
<1>1. i \in A /\ A \ {i} = B /\ A \subseteq 1 .. n /\ B \subseteq 1 .. n
  OBVIOUS
<1>2. IsFiniteSet(1 .. n)
  BY FS_Interval
<1> HIDE DEF A, B
<1>3. Divides(f, 1 .. n)
  BY <1>2, SumPart
<1> QED
  <2>1. /\ SumFunctionOnSet(f, A) = f[i] + SumFunctionOnSet(f, B)
        /\ SumFunctionOnSet(f, B) \in Nat /\ f[i] \in Nat
    BY <1>1, <1>3 DEF Divides
  <2>2. SumFunctionOnSet(f, A) = SumFunctionOnSet(f, B) + f[i]
    BY <2>1
  <2> QED
    BY <2>1, <2>2 DEF A, B

LEMMA SumWithin ==
    ASSUME NEW B, IsFiniteSet(B), NEW f, Numbers(f, B), NEW A, A \subseteq B
    PROVE  SumFunctionOnSet(f, A) <= SumFunctionOnSet(f, B)
<1> DEFINE g == [x \in B |-> IF x \in A THEN f[x] ELSE 0]
           m == [x \in A |-> x]
<1>1. IsFiniteSet(A)
  BY FS_Subset
<1>2. Numbers(f, A) /\ Numbers(g, B)
  BY DEF Numbers
<1>3. /\ \A x \in A : m[x] \in B /\ g[m[x]] = f[x]
      /\ \A x, z \in A : x # z => m[x] # m[z]
      /\ \A y \in B : (\A x \in A : m[x] # y) => g[y] = 0
  OBVIOUS
<1>4. \A x \in B : g[x] <= f[x]
  BY DEF Numbers
<1> HIDE DEF g, m
<1>5. SumFunctionOnSet(f, A) = SumFunctionOnSet(g, B)
  BY <1>1, <1>2, <1>3, SumCarried
<1>6. SumFunctionOnSet(g, B) <= SumFunctionOnSet(f, B)
  BY <1>2, <1>4, SumMono
<1> QED
  BY <1>5, <1>6

\* A bound on every part bounds the sum.
LEMMA SumScaled ==
    ASSUME NEW S, IsFiniteSet(S), NEW f, Numbers(f, S), NEW g, Numbers(g, S),
           NEW n \in Nat, \A x \in S : 10 * f[x] <= g[x] * n
    PROVE  10 * SumFunctionOnSet(f, S) <= SumFunctionOnSet(g, S) * n
<1> DEFINE C == {s \in SUBSET S : 10 * SumFunctionOnSet(f, s) <= SumFunctionOnSet(g, s) * n}
<1>1. {} \in C
  BY SumEmpty
<1>2. Divides(f, S) /\ Divides(g, S)
  BY SumPart
<1>3. ASSUME NEW s \in SUBSET S, s # {}, \A x \in s : s \ {x} \in C
      PROVE  s \in C
  <2>1. PICK x \in s : TRUE
    BY <1>3
  <2>2. /\ SumFunctionOnSet(f, s) = f[x] + SumFunctionOnSet(f, s \ {x})
        /\ SumFunctionOnSet(f, s \ {x}) \in Nat /\ f[x] \in Nat
        /\ SumFunctionOnSet(g, s) = g[x] + SumFunctionOnSet(g, s \ {x})
        /\ SumFunctionOnSet(g, s \ {x}) \in Nat /\ g[x] \in Nat
    BY <1>2 DEF Divides, Numbers
  <2>3. 10 * SumFunctionOnSet(f, s \ {x}) <= SumFunctionOnSet(g, s \ {x}) * n
    BY <1>3
  <2>4. 10 * f[x] <= g[x] * n
    OBVIOUS
  <2> DEFINE a == f[x]
             b == SumFunctionOnSet(f, s \ {x})
             c == g[x]
             d == SumFunctionOnSet(g, s \ {x})
  <2>5. a \in Nat /\ b \in Nat /\ c \in Nat /\ d \in Nat /\ 10 * a <= c * n /\ 10 * b <= d * n
    BY <2>2, <2>3, <2>4
  <2> HIDE DEF a, b, c, d
  <2>6. 10 * (a + b) <= (c + d) * n
    <3>1. (c + d) * n = c * n + d * n /\ c * n \in Nat /\ d * n \in Nat
      BY <2>5
    <3> QED
      BY <2>5, <3>1
  <2> QED
    BY <2>2, <2>6 DEF a, b, c, d
<1> HIDE DEF C
<1>4. S \in C
  BY <1>1, <1>3, SubsetInduction
<1> QED
  BY <1>4 DEF C

-----------------------------------------------------------------------------
(* Selections.                                                             *)

LEMMA UptoFinite == \A n \in Nat : IsFiniteSet(1 .. n)
BY FS_Interval

\* Sets with a one-to-one correspondence have the same size.
LEMMA SameSize ==
    ASSUME NEW A, NEW B, IsFiniteSet(A), NEW f \in [A -> B],
           \A x, y \in A : f[x] = f[y] => x = y,
           \A z \in B : \E x \in A : f[x] = z
    PROVE  IsFiniteSet(B) /\ Cardinality(B) = Cardinality(A)
<1>1. f \in Bijection(A, B)
  BY DEF Bijection, Injection, Surjection, IsInjective
<1> QED
  BY <1>1, FS_Bijection DEF ExistsBijection

\* The rank of a number in a set, and what Nth finds.
LEMMA NthIs ==
    ASSUME NEW K, K \subseteq Nat, IsFiniteSet(K)
    PROVE  /\ Cardinality(K) \in Nat
           /\ \A n \in 1 .. Cardinality(K) :
                 Nth(K, n) \in K /\ Cardinality({j \in K : j <= Nth(K, n)}) = n
           /\ \A i \in K : \E n \in 1 .. Cardinality(K) : Nth(K, n) = i
<1> DEFINE Upto(i) == {j \in K : j <= i}
           N       == Cardinality(K)
           rank    == [i \in K |-> Cardinality(Upto(i))]
<1>1. N \in Nat
  BY FS_CardinalityType
<1>2. ASSUME NEW i \in K
      PROVE  IsFiniteSet(Upto(i)) /\ Cardinality(Upto(i)) \in 1 .. N
  <2>1. IsFiniteSet(Upto(i)) /\ Cardinality(Upto(i)) <= N
    BY FS_Subset
  <2>2. i \in Upto(i)
    OBVIOUS
  <2>3. Cardinality(Upto(i)) \in Nat /\ Cardinality(Upto(i)) # 0
    <3> HIDE DEF Upto
    <3> QED
      BY <2>1, <2>2, FS_CardinalityType, FS_EmptySet
  <2> HIDE DEF Upto
  <2> QED
    BY <1>1, <2>1, <2>3
<1>3. rank \in [K -> 1 .. N]
  BY <1>2
<1>4. ASSUME NEW i \in K, NEW j \in K, i < j
      PROVE  rank[i] < rank[j]
  <2>1. Upto(i) \subseteq Upto(j) /\ j \in Upto(j) /\ j \notin Upto(i)
    <3>1. i \in Nat /\ j \in Nat
      OBVIOUS
    <3>2. \A x \in K : x \in Nat /\ (x <= i => x <= j)
      BY <1>4, <3>1
    <3>3. j <= j /\ ~(j <= i)
      BY <1>4, <3>1
    <3> QED
      BY <3>2, <3>3
  <2>2. rank[i] = Cardinality(Upto(i)) /\ rank[j] = Cardinality(Upto(j))
    OBVIOUS
  <2> HIDE DEF Upto, rank
  <2>3. Cardinality(Upto(i)) <= Cardinality(Upto(j)) /\ Cardinality(Upto(i)) # Cardinality(Upto(j))
    BY <1>2, <2>1, FS_Subset
  <2>4. Cardinality(Upto(i)) \in Nat /\ Cardinality(Upto(j)) \in Nat
    BY <1>2
  <2> QED
    BY <2>2, <2>3, <2>4
<1> HIDE DEF rank, N
<1>5. \A i, j \in K : rank[i] = rank[j] => i = j
  <2> SUFFICES ASSUME NEW i \in K, NEW j \in K, rank[i] = rank[j], i # j
               PROVE  FALSE
    OBVIOUS
  <2>1. i \in Nat /\ j \in Nat /\ rank[i] \in Nat /\ rank[j] \in Nat
    BY <1>1, <1>3
  <2>2. i < j \/ j < i
    BY <2>1
  <2> QED
    BY <1>4, <2>1, <2>2
<1>6. \A n \in 1 .. N : \E i \in K : rank[i] = n
  <2>1. rank \in Injection(K, 1 .. N)
    BY <1>3, <1>5 DEF Injection, IsInjective
  <2>2. IsFiniteSet(1 .. N) /\ Cardinality(1 .. N) = N
    BY <1>1, FS_Interval
  <2>3. rank \in Surjection(K, 1 .. N)
    BY <2>1, <2>2, FS_Injection DEF N
  <2> QED
    BY <2>3 DEF Surjection
<1>7. ASSUME NEW n \in 1 .. N
      PROVE  Nth(K, n) \in K /\ Cardinality(Upto(Nth(K, n))) = n
  <2>1. PICK i \in K : Cardinality(Upto(i)) = n
    BY <1>6 DEF rank
  <2> QED
    BY <2>1 DEF Nth
<1>8. ASSUME NEW i \in K
      PROVE  \E n \in 1 .. N : Nth(K, n) = i
  <2>1. rank[i] \in 1 .. N
    BY <1>3
  <2>2. Nth(K, rank[i]) \in K /\ Cardinality(Upto(Nth(K, rank[i]))) = rank[i]
    BY <1>7, <2>1
  <2>3. rank[Nth(K, rank[i])] = rank[i]
    BY <2>2 DEF rank
  <2> QED
    BY <1>5, <2>1, <2>2, <2>3
<1> QED
  BY <1>1, <1>7, <1>8 DEF N

\* Nth counts through the set.
LEMMA NthOnce ==
    ASSUME NEW K, K \subseteq Nat, IsFiniteSet(K),
           NEW m \in 1 .. Cardinality(K), NEW n \in 1 .. Cardinality(K), Nth(K, m) = Nth(K, n)
    PROVE  m = n
<1> DEFINE R(i) == Cardinality({j \in K : j <= i})
<1>1. R(Nth(K, m)) = m /\ R(Nth(K, n)) = n
  BY NthIs
<1> HIDE DEF R
<1> QED
  BY <1>1

\* The elements at the positions in T are as many in the selection as in K.
LEMMA SelectHits ==
    ASSUME NEW K, K \subseteq Nat, IsFiniteSet(K), NEW T
    PROVE  LET hits == {n \in 1 .. Cardinality(K) : Nth(K, n) \in T}
           IN  IsFiniteSet(hits) /\ Cardinality(hits) = Cardinality(K \cap T)
<1> DEFINE hits == {n \in 1 .. Cardinality(K) : Nth(K, n) \in T}
           f    == [n \in hits |-> Nth(K, n)]
<1>1. Cardinality(K) \in Nat /\ hits \subseteq 1 .. Cardinality(K)
  BY FS_CardinalityType
<1>2. IsFiniteSet(hits)
  <2>1. IsFiniteSet(1 .. Cardinality(K))
    BY <1>1, FS_Interval
  <2> QED
    BY <1>1, <2>1, FS_Subset
<1>3. f \in [hits -> K \cap T]
  BY NthIs
<1>4. \A x, y \in hits : f[x] = f[y] => x = y
  BY NthOnce
<1>5. ASSUME NEW z \in K \cap T
      PROVE  \E x \in hits : f[x] = z
  <2>1. PICK x \in 1 .. Cardinality(K) : Nth(K, x) = z
    BY NthIs
  <2>2. x \in hits
    BY <2>1
  <2> QED
    BY <2>1, <2>2
<1> HIDE DEF hits, f
<1>6. Cardinality(hits) = Cardinality(K \cap T)
  BY <1>2, <1>3, <1>4, <1>5, SameSize
<1> QED
  BY <1>2, <1>6 DEF hits

\* What is selected from a sequence is one.
LEMMA SelectType ==
    ASSUME NEW S, NEW s \in Seq(S), NEW K, K \subseteq DOMAIN s
    PROVE  /\ Select(s, K) \in Seq(S)
           /\ IsFiniteSet(K) /\ K \subseteq Nat
           /\ Len(Select(s, K)) = Cardinality(K)
<1>1. DOMAIN s = 1 .. Len(s) /\ Len(s) \in Nat
  OBVIOUS
<1>2. IsFiniteSet(1 .. Len(s))
  BY <1>1, FS_Interval
<1>3. IsFiniteSet(K) /\ K \subseteq Nat
  BY <1>1, <1>2, FS_Subset
<1>4. Cardinality(K) \in Nat
  BY <1>3, FS_CardinalityType
<1>5. \A n \in 1 .. Cardinality(K) : s[Nth(K, n)] \in S
  <2>1. \A n \in 1 .. Cardinality(K) : Nth(K, n) \in K
    BY <1>3, NthIs
  <2>2. \A i \in K : s[i] \in S
    BY <1>1
  <2> QED
    BY <2>1, <2>2
<1> QED
  BY <1>3, <1>4, <1>5 DEF Select

\* A list is a sequence of its elements.
LEMMA ListIsSeq ==
    ASSUME NEW s, IsList(s)
    PROVE  s \in Seq({s[i] : i \in DOMAIN s}) /\ DOMAIN s = 1 .. Len(s)
BY DEF IsList

LEMMA SeqIsList ==
    ASSUME NEW S, NEW s \in Seq(S)
    PROVE  IsList(s)
BY DEF IsList

LEMMA EarliestIs ==
    ASSUME NEW K, K \subseteq Nat
    PROVE  /\ K = {} => Earliest(K) = 0
           /\ K # {} => Earliest(K) \in K /\ \A j \in K : Earliest(K) <= j
BY Least DEF Earliest

\* The number with a rank is the one Nth finds.
LEMMA NthUnique ==
    ASSUME NEW K, K \subseteq Nat, IsFiniteSet(K), NEW i \in K
    PROVE  /\ Cardinality({j \in K : j <= i}) \in 1 .. Cardinality(K)
           /\ Nth(K, Cardinality({j \in K : j <= i})) = i
<1> DEFINE R(k) == Cardinality({j \in K : j <= k})
<1>1. PICK m \in 1 .. Cardinality(K) : Nth(K, m) = i
  BY NthIs
<1>2. R(Nth(K, m)) = m
  BY NthIs
<1> HIDE DEF R
<1>3. R(i) = m
  BY <1>1, <1>2
<1> QED
  BY <1>1, <1>3 DEF R

LEMMA NthAscends ==
    ASSUME NEW K, K \subseteq Nat, IsFiniteSet(K),
           NEW m \in 1 .. Cardinality(K), NEW n \in 1 .. Cardinality(K), m < n
    PROVE  Nth(K, m) < Nth(K, n)
<1> DEFINE U(k) == {j \in K : j <= k}
           a == Nth(K, m)
           b == Nth(K, n)
<1>1. a \in K /\ b \in K /\ Cardinality(U(a)) = m /\ Cardinality(U(b)) = n
  BY NthIs
<1>2. a \in Nat /\ b \in Nat /\ m \in Nat /\ n \in Nat
  <2>1. Cardinality(K) \in Nat
    BY FS_CardinalityType
  <2>2. a \in Nat /\ b \in Nat
    BY <1>1
  <2> QED
    BY <2>1, <2>2
<1> SUFFICES ASSUME b <= a
             PROVE  FALSE
  <2> HIDE DEF a, b
  <2> QED
    BY <1>2 DEF a, b
<1> HIDE DEF a, b
<1>3. U(b) \subseteq U(a) /\ IsFiniteSet(U(a))
  <2>1. \A j \in K : j \in Nat /\ (j <= b => j <= a)
    BY <1>2
  <2>2. IsFiniteSet(U(a))
    BY FS_Subset
  <2> QED
    BY <2>1, <2>2
<1>4. Cardinality(U(b)) <= Cardinality(U(a))
  <2> HIDE DEF U
  <2> QED
    BY <1>3, FS_Subset
<1> QED
  BY <1>1, <1>2, <1>4

\* What is selected from a list.
LEMMA SelectIs ==
    ASSUME NEW s, IsList(s), NEW K, K \subseteq DOMAIN s
    PROVE  /\ IsFiniteSet(K) /\ K \subseteq Nat /\ Cardinality(K) \in Nat
           /\ IsList(Select(s, K)) /\ Len(Select(s, K)) = Cardinality(K)
           /\ DOMAIN Select(s, K) = 1 .. Cardinality(K)
           /\ \A n \in 1 .. Cardinality(K) : Nth(K, n) \in K /\ Select(s, K)[n] = s[Nth(K, n)]
           /\ \A i \in K : \E n \in 1 .. Cardinality(K) : Nth(K, n) = i
           /\ Range(Select(s, K)) = {s[i] : i \in K}
<1>1. DOMAIN s = 1 .. Len(s) /\ Len(s) \in Nat
  BY DEF IsList
<1>2. IsFiniteSet(K) /\ K \subseteq Nat /\ Cardinality(K) \in Nat
  <2>1. IsFiniteSet(1 .. Len(s))
    BY <1>1, FS_Interval
  <2>2. IsFiniteSet(K) /\ K \subseteq Nat
    BY <1>1, <2>1, FS_Subset
  <2> QED
    BY <2>2, FS_CardinalityType
<1>3. /\ IsList(Select(s, K)) /\ Len(Select(s, K)) = Cardinality(K)
      /\ DOMAIN Select(s, K) = 1 .. Cardinality(K)
      /\ \A n \in 1 .. Cardinality(K) : Select(s, K)[n] = s[Nth(K, n)]
  BY <1>2 DEF Select, IsList
<1>4. /\ \A n \in 1 .. Cardinality(K) : Nth(K, n) \in K
      /\ \A i \in K : \E n \in 1 .. Cardinality(K) : Nth(K, n) = i
  BY <1>2, NthIs
<1>5. Range(Select(s, K)) = {s[i] : i \in K}
  <2>1. Range(Select(s, K)) = {s[Nth(K, n)] : n \in 1 .. Cardinality(K)}
    BY <1>3 DEF Range
  <2> QED
    BY <1>4, <2>1
<1> QED
  BY <1>2, <1>3, <1>4, <1>5

LEMMA SelectAll ==
    ASSUME NEW s, IsList(s)
    PROVE  Select(s, DOMAIN s) = s
<1> DEFINE n == Len(s)
<1>1. DOMAIN s = 1 .. n /\ n \in Nat /\ s = [i \in 1 .. n |-> s[i]]
  BY DEF IsList
<1> HIDE DEF n
<1>2. IsFiniteSet(1 .. n) /\ Cardinality(1 .. n) = n /\ 1 .. n \subseteq Nat
  BY <1>1, FS_Interval
<1>3. ASSUME NEW k \in 1 .. n
      PROVE  Nth(1 .. n, k) = k
  <2>1. {j \in 1 .. n : j <= k} = 1 .. k /\ k \in Nat
    BY <1>1
  <2>2. Cardinality(1 .. k) = k
    BY <2>1, FS_Interval
  <2> DEFINE A == 1 .. n
  <2>3. IsFiniteSet(A) /\ A \subseteq Nat /\ k \in A /\ Cardinality({j \in A : j <= k}) = k
    BY <1>2, <2>1, <2>2
  <2> HIDE DEF A
  <2>4. Nth(A, Cardinality({j \in A : j <= k})) = k
    BY <2>3, NthUnique
  <2> QED
    BY <2>3, <2>4 DEF A
<1>4. Select(s, 1 .. n) = [k \in 1 .. n |-> s[Nth(1 .. n, k)]]
  BY <1>2 DEF Select
<1>5. [k \in 1 .. n |-> s[Nth(1 .. n, k)]] = [k \in 1 .. n |-> s[k]]
  BY <1>3
<1> QED
  BY <1>1, <1>4, <1>5

\* A selection of a selection.
LEMMA SelectTwice ==
    ASSUME NEW s, IsList(s), NEW K, K \subseteq DOMAIN s, NEW J, J \subseteq 1 .. Cardinality(K)
    PROVE  /\ Select(Select(s, K), J) = Select(s, {Nth(K, m) : m \in J})
           /\ {Nth(K, m) : m \in J} \subseteq K
<1> DEFINE t == Select(s, K)
           c == Cardinality(K)
           I == {Nth(K, m) : m \in J}
           f == [m \in J |-> Nth(K, m)]
<1>1. /\ IsFiniteSet(K) /\ K \subseteq Nat /\ c \in Nat
      /\ IsList(t) /\ DOMAIN t = 1 .. c
      /\ \A n \in 1 .. c : Nth(K, n) \in K /\ t[n] = s[Nth(K, n)]
  BY SelectIs
<1>2. I \subseteq K
  BY <1>1
<1>3. /\ IsFiniteSet(J) /\ J \subseteq Nat /\ Cardinality(J) \in Nat
      /\ \A n \in 1 .. Cardinality(J) : Nth(J, n) \in J
  <2> HIDE DEF t, c
  <2>1. J \subseteq DOMAIN t
    BY <1>1 DEF c
  <2> QED
    BY <1>1, <2>1, SelectIs
<1>4. \A m, n \in J : f[m] = f[n] => m = n
  BY <1>1, NthOnce
<1>5. IsFiniteSet(I) /\ I \subseteq Nat /\ Cardinality(I) = Cardinality(J)
  <2>1. f \in [J -> I] /\ \A z \in I : \E x \in J : f[x] = z
    OBVIOUS
  <2>2. I \subseteq Nat
    BY <1>1, <1>2
  <2> HIDE DEF I, f
  <2> QED
    BY <1>3, <1>4, <2>1, <2>2, SameSize
<1>6. ASSUME NEW n \in 1 .. Cardinality(J)
      PROVE  Nth(I, n) = Nth(K, Nth(J, n))
  <2> DEFINE p == Nth(J, n)
             i == Nth(K, p)
             A == {m \in J : m <= p}
             B == {j \in I : j <= i}
             g == [m \in A |-> Nth(K, m)]
  <2>1. p \in J /\ Cardinality(A) = n /\ p \in 1 .. c
    BY <1>3, NthIs
  <2>2. i \in I /\ i \in Nat
    BY <1>5, <2>1
  <2> HIDE DEF p, i
  <2>3. ASSUME NEW m \in J
        PROVE  m <= p <=> Nth(K, m) <= i
    <3>1. m \in 1 .. c /\ m \in Nat /\ p \in Nat /\ Nth(K, m) \in Nat
      BY <1>1, <1>3, <2>1
    <3>2. CASE m < p
      <4>1. Nth(K, m) < Nth(K, p)
        BY <1>1, <2>1, <3>1, <3>2, NthAscends
      <4> QED
        BY <2>2, <3>1, <3>2, <4>1 DEF i
    <3>3. CASE m = p
      BY <2>2, <3>1, <3>3 DEF i
    <3>4. CASE p < m
      <4>1. Nth(K, p) < Nth(K, m)
        BY <1>1, <2>1, <3>1, <3>4, NthAscends
      <4> QED
        BY <2>2, <3>1, <3>4, <4>1 DEF i
    <3> QED
      BY <3>1, <3>2, <3>3, <3>4
  <2>4. g \in [A -> B]
    BY <2>3
  <2>5. \A x, y \in A : g[x] = g[y] => x = y
    BY <1>4
  <2>6. \A z \in B : \E x \in A : g[x] = z
    BY <2>3
  <2>7. IsFiniteSet(A)
    BY <1>3, FS_Subset
  <2> HIDE DEF A, B, g, I
  <2>8. Cardinality(B) = Cardinality(A)
    BY <2>4, <2>5, <2>6, <2>7, SameSize
  <2>9. Nth(I, Cardinality(B)) = i
    BY <1>5, <2>2, NthUnique DEF B
  <2> QED
    BY <2>1, <2>8, <2>9 DEF i, p
<1>7. Select(t, J) = [n \in 1 .. Cardinality(J) |-> t[Nth(J, n)]]
  BY DEF Select
<1>8. Select(s, I) = [n \in 1 .. Cardinality(J) |-> s[Nth(I, n)]]
  <2> HIDE DEF I
  <2> QED
    BY <1>5 DEF Select
<1>9. \A n \in 1 .. Cardinality(J) : t[Nth(J, n)] = s[Nth(I, n)]
  <2> HIDE DEF t, I, c
  <2>1. J \subseteq 1 .. c
    BY DEF c
  <2> QED
    BY <1>1, <1>3, <1>6, <2>1
<1> HIDE DEF t, I
<1>10. Select(t, J) = Select(s, I)
  BY <1>7, <1>8, <1>9
<1> QED
  BY <1>2, <1>10 DEF t, I
=============================================================================
