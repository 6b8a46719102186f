------------------------- MODULE RegexWorkerProofs -------------------------
(***************************************************************************)
(* Ownership of the packet buffers, proved for every number of workers,    *)
(* buffers and descriptors and for every burst size.                       *)
(***************************************************************************)
EXTENDS RegexWorker, TLAPS

----------------------------------------------------------------------------
(* Queues and arrays.                                                      *)

\* What remains of a queue when its first n elements are taken.
LEMMA DropLemma ==
    ASSUME NEW M, NEW s \in Seq(M), NEW n \in 0 .. Len(s)
    PROVE  /\ Drop(s, n) \in Seq(M)
           /\ Len(Drop(s, n)) = Len(s) - n
           /\ \A i \in 1 .. Len(s) - n : Drop(s, n)[i] = s[i + n]
BY DEF Drop

\* Taking the first n packets of a queue without duplicates splits it.
LEMMA DropSplits ==
    ASSUME NEW M, NEW s \in Seq(M), IsInjective(s), NEW n \in 0 .. Len(s)
    PROVE  /\ Range(Drop(s, n)) = Range(s) \ Ptrs(s, 1, n)
           /\ IsInjective(Drop(s, n))
           /\ Ptrs(s, 1, n) \subseteq Range(s)
<1> DEFINE d == Drop(s, n)
<1>1. /\ d \in Seq(M)
      /\ Len(d) = Len(s) - n
      /\ \A i \in 1 .. Len(s) - n : d[i] = s[i + n]
  BY DropLemma
<1>2. DOMAIN s = 1 .. Len(s) /\ DOMAIN d = 1 .. Len(s) - n /\ Len(s) \in Nat
  BY <1>1
<1>3. \A i, j \in 1 .. Len(s) : s[i] = s[j] => i = j
  BY <1>2 DEF IsInjective
<1>4. IsInjective(d)
  <2> SUFFICES ASSUME NEW i \in 1 .. Len(s) - n, NEW j \in 1 .. Len(s) - n, d[i] = d[j]
               PROVE  i = j
    BY <1>2 DEF IsInjective
  <2> QED BY <1>1, <1>2, <1>3
<1>5. Range(d) \subseteq Range(s) \ Ptrs(s, 1, n)
  <2> SUFFICES ASSUME NEW i \in 1 .. Len(s) - n
               PROVE  d[i] \in Range(s) \ Ptrs(s, 1, n)
    BY <1>2 DEF Range
  <2>1. d[i] = s[i + n] /\ i + n \in 1 .. Len(s)
    BY <1>1, <1>2
  <2>2. \A j \in 1 .. n : s[j] # s[i + n]
    BY <2>1, <1>2, <1>3
  <2> QED BY <2>1, <2>2, <1>2 DEF Range, Ptrs
<1>6. Range(s) \ Ptrs(s, 1, n) \subseteq Range(d)
  <2> SUFFICES ASSUME NEW i \in 1 .. Len(s), s[i] \notin Ptrs(s, 1, n)
               PROVE  s[i] \in Range(d)
    BY <1>2 DEF Range
  <2>1. i > n
    BY <1>2 DEF Ptrs
  <2>2. i - n \in 1 .. Len(s) - n /\ d[i - n] = s[i]
    BY <2>1, <1>1, <1>2
  <2> QED BY <2>2, <1>2 DEF Range
<1>7. Ptrs(s, 1, n) \subseteq Range(s)
  BY <1>2 DEF Ptrs, Range
<1> QED BY <1>4, <1>5, <1>6, <1>7

\* A packet appended to a queue that does not hold it.
LEMMA AppendAdds ==
    ASSUME NEW M, NEW s \in Seq(M), NEW m \in M
    PROVE  /\ Append(s, m) \in Seq(M)
           /\ Range(Append(s, m)) = Range(s) \cup {m}
           /\ IsInjective(s) /\ m \notin Range(s) => IsInjective(Append(s, m))
<1> DEFINE t == Append(s, m)
<1>1. /\ t \in Seq(M)
      /\ DOMAIN s = 1 .. Len(s)
      /\ DOMAIN t = 1 .. Len(s) + 1
      /\ \A i \in 1 .. Len(s) : t[i] = s[i]
      /\ t[Len(s) + 1] = m
      /\ Len(s) \in Nat
  OBVIOUS
<1>2. Range(t) = Range(s) \cup {m}
  <2>1. Range(t) \subseteq Range(s) \cup {m}
    BY <1>1 DEF Range
  <2>2. Range(s) \subseteq Range(t)
    BY <1>1 DEF Range
  <2>3. m \in Range(t)
    BY <1>1 DEF Range
  <2> QED BY <2>1, <2>2, <2>3
<1>3. IsInjective(s) /\ m \notin Range(s) => IsInjective(t)
  BY <1>1 DEF IsInjective, Range
<1> QED BY <1>1, <1>2, <1>3

\* Filling the front of an array makes its first n entries those of the queue.
LEMMA FillLemma ==
    ASSUME NEW a \in [Slots -> Mbufs \cup {NULL}], NEW s,
           NEW n \in 0 .. BurstSize, \A i \in 1 .. n : s[i] \in Mbufs
    PROVE  /\ Fill(a, s, n) \in [Slots -> Mbufs \cup {NULL}]
           /\ \A i \in 1 .. n : Fill(a, s, n)[i] = s[i]
           /\ Ptrs(Fill(a, s, n), 1, n) = Ptrs(s, 1, n)
<1>1. 1 .. n \subseteq Slots
  BY BurstAssumption DEF Slots
<1>2. \A i \in 1 .. n : Fill(a, s, n)[i] = s[i]
  BY <1>1 DEF Fill
<1>3. \A i \in Slots : i <= n => i \in 1 .. n
  BY DEF Slots
<1>4. Fill(a, s, n) \in [Slots -> Mbufs \cup {NULL}]
  BY <1>3 DEF Fill
<1>5. Ptrs(Fill(a, s, n), 1, n) = Ptrs(s, 1, n)
  BY <1>2 DEF Ptrs
<1> QED BY <1>2, <1>4, <1>5

LEMMA LeastLemma ==
    ASSUME NEW a \in Nat, NEW b \in Nat
    PROVE  Least(a, b) \in Nat /\ Least(a, b) <= a /\ Least(a, b) <= b
BY DEF Least

----------------------------------------------------------------------------
(* Type correctness.  TypeOK is not inductive: an array may hold NULL, and *)
(* what is submitted or passed on must not.                                *)

\* Only a worker with the regex device submits, collects and drains.
EngineOK == \A w \in Workers : pc[w] \in {"enq", "deq", "drain"} => Engine = "rgx"

\* The live part of an array holds packets.
LiveOK ==
    \A w \in Workers :
        /\ pc[w] = "enq" => \A i \in 1 .. nb_rx[w] : burst[w][i] \in Mbufs
        /\ pc[w] = "fwd" => \A i \in 1 .. FwdCnt(w) : FwdPkts(w)[i] \in Mbufs

TypeInv == TypeOK /\ EngineOK /\ LiveOK

\* A collect leaves the types right and puts packets in the first n ops.
LEMMA CollectType ==
    ASSUME TypeInv, NEW w \in Workers,
           NEW n, n = Least(BurstSize, Len(done[w])), CollectN(w, n)
    PROVE  /\ n \in 0 .. BurstSize
           /\ ops' \in [Workers -> [Slots -> Mbufs \cup {NULL}]]
           /\ \A v \in Workers : v # w => ops'[v] = ops[v]
           /\ \A i \in 1 .. n : ops'[w][i] \in Mbufs
           /\ Ptrs(ops'[w], 1, n) = Ptrs(done[w], 1, n)
           /\ \A i \in 1 .. n : ops'[w][i] = done[w][i]
           /\ Ptrs(done[w], 1, n) \subseteq Mbufs
           /\ done' \in [Workers -> Seq(Mbufs)]
           /\ rgx_dqd' \in [Workers -> 0 .. BurstSize]
<1> USE BurstAssumption DEF TypeInv, TypeOK
<1>1. done[w] \in Seq(Mbufs) /\ Len(done[w]) \in Nat
  OBVIOUS
<1>2. n \in 0 .. BurstSize /\ n \in 0 .. Len(done[w])
  BY <1>1, LeastLemma
<1>3. \A i \in 1 .. n : done[w][i] \in Mbufs
  BY <1>1, <1>2
<1>4. Drop(done[w], n) \in Seq(Mbufs)
  BY <1>1, <1>2, DropLemma
<1>5. /\ Fill(ops[w], done[w], n) \in [Slots -> Mbufs \cup {NULL}]
      /\ \A i \in 1 .. n : Fill(ops[w], done[w], n)[i] = done[w][i]
      /\ Ptrs(Fill(ops[w], done[w], n), 1, n) = Ptrs(done[w], 1, n)
  <2>1. ops[w] \in [Slots -> Mbufs \cup {NULL}]
    OBVIOUS
  <2> HIDE DEF TypeInv, TypeOK
  <2> QED BY <2>1, <1>2, <1>3, FillLemma
<1>6. Ptrs(done[w], 1, n) \subseteq Mbufs
  BY <1>3 DEF Ptrs
<1> QED BY <1>2, <1>3, <1>4, <1>5, <1>6 DEF CollectN

\* A bulk free of packets leaves pool and history right.
LEMMA FreeType ==
    ASSUME TypeInv, NEW a, NEW lo, NEW hi, Ptrs(a, lo, hi) \subseteq Mbufs,
           FreeBulk(a, lo, hi)
    PROVE  pool' \subseteq Mbufs /\ twice' \subseteq Mbufs
BY DEF TypeInv, TypeOK, FreeBulk

LEMMA TypeInit == Init => TypeInv
<1> SUFFICES ASSUME Init PROVE TypeInv
  OBVIOUS
<1>1. TypeOK
  <2>1. 0 \in 0 .. BurstSize
    BY BurstAssumption
  <2>2. [i \in Slots |-> NULL] \in [Slots -> Mbufs \cup {NULL}]
    OBVIOUS
  <2>3. <<>> \in Seq(Mbufs)
    OBVIOUS
  <2>4. rx \in [Workers -> Seq(Mbufs)] /\ done \in [Workers -> Seq(Mbufs)]
    BY <2>3 DEF Init
  <2>5. /\ burst \in [Workers -> [Slots -> Mbufs \cup {NULL}]]
        /\ ops \in [Workers -> [Slots -> Mbufs \cup {NULL}]]
    BY <2>2 DEF Init
  <2> QED BY <2>1, <2>4, <2>5 DEF Init, TypeOK
<1>2. EngineOK /\ LiveOK
  BY DEF Init, EngineOK, LiveOK
<1> QED BY <1>1, <1>2 DEF TypeInv

LEMMA TypeStart ==
    ASSUME TypeInv, NEW w \in Workers, StartWorker(w)
    PROVE  TypeInv'
BY DEF TypeInv, TypeOK, EngineOK, LiveOK, StartWorker, Goto, AfterLoop,
       nicVars, workerVars, FwdPkts, FwdCnt

LEMMA TypeRx ==
    ASSUME TypeInv, NEW w \in Workers, RxBurst(w)
    PROVE  TypeInv'
<1> DEFINE n == Least(BurstSize, Len(rx[w]))
<1> USE BurstAssumption DEF TypeInv
<1>1. rx[w] \in Seq(Mbufs) /\ Len(rx[w]) \in Nat
  BY DEF TypeOK
<1>2. n \in 0 .. BurstSize /\ n \in 0 .. Len(rx[w])
  <2>1. n \in Nat /\ n <= BurstSize /\ n <= Len(rx[w])
    BY <1>1, LeastLemma
  <2> QED BY <2>1, <1>1
<1>3. \A i \in 1 .. n : rx[w][i] \in Mbufs
  BY <1>1, <1>2
<1>4. Drop(rx[w], n) \in Seq(Mbufs)
  BY <1>1, <1>2, DropLemma
<1>5. /\ Fill(burst[w], rx[w], n) \in [Slots -> Mbufs \cup {NULL}]
      /\ \A i \in 1 .. n : Fill(burst[w], rx[w], n)[i] = rx[w][i]
  <2>1. burst[w] \in [Slots -> Mbufs \cup {NULL}]
    BY DEF TypeOK
  <2> QED BY <2>1, <1>2, <1>3, FillLemma
<1> HIDE DEF n
<1>6. TypeOK'
  BY <1>2, <1>4, <1>5 DEF RxBurst, ReceiveN, Goto, TypeOK, n
<1>7. EngineOK'
  BY DEF EngineOK, RxBurst, ReceiveN, Goto, TypeOK
<1>8. LiveOK'
  <2>1. \A i \in 1 .. nb_rx'[w] : burst'[w][i] \in Mbufs
    BY <1>3, <1>5 DEF RxBurst, ReceiveN, TypeOK, n
  <2>2. pc'[w] = "fwd" => Engine # "rgx"
    BY DEF RxBurst, ReceiveN, Goto, TypeOK
  <2> QED BY <2>1, <2>2 DEF LiveOK, RxBurst, ReceiveN, Goto, FwdPkts, FwdCnt, TypeOK
<1> QED BY <1>6, <1>7, <1>8

LEMMA TypeEnqueue ==
    ASSUME TypeInv, NEW w \in Workers, EnqueueBurst(w)
    PROVE  TypeInv'
<1> USE BurstAssumption DEF TypeInv
<1>1. PICK k \in 0 .. nb_rx[w] : SubmitN(w, k) /\ FreeBulk(burst[w], k + 1, nb_rx[w])
  BY DEF EnqueueBurst
<1>2. nb_rx[w] \in 0 .. BurstSize /\ \A i \in 1 .. nb_rx[w] : burst[w][i] \in Mbufs
  BY <1>1 DEF TypeOK, LiveOK, SubmitN
<1>3. Ptrs(burst[w], 1, k) \subseteq Mbufs /\ Ptrs(burst[w], k + 1, nb_rx[w]) \subseteq Mbufs
  BY <1>2 DEF Ptrs
<1>4. pool' \subseteq Mbufs /\ twice' \subseteq Mbufs
  BY <1>1, <1>3, FreeType
<1>5. Fill(ops[w], burst[w], nb_rx[w]) \in [Slots -> Mbufs \cup {NULL}]
  BY <1>2, FillLemma DEF TypeOK
<1>6. TypeOK'
  BY <1>1, <1>3, <1>4, <1>5 DEF TypeOK, SubmitN, Goto, nicVars
<1>7. EngineOK'
  BY <1>1 DEF EngineOK, SubmitN, Goto, TypeOK
<1>8. LiveOK'
  BY <1>1 DEF LiveOK, SubmitN, Goto, TypeOK, FwdPkts, FwdCnt, nicVars
<1> QED BY <1>6, <1>7, <1>8

LEMMA TypeDequeue ==
    ASSUME TypeInv, NEW w \in Workers, DequeueBurst(w)
    PROVE  TypeInv'
<1> DEFINE n == Least(BurstSize, Len(done[w]))
<1>1. CollectN(w, n) /\ pc[w] = "deq"
  BY DEF DequeueBurst
<1>2. Goto(w, IF n > 0 THEN "fwd" ELSE "rx") /\ UNCHANGED <<pool, twice>>
  BY DEF DequeueBurst
<1> HIDE DEF n
<1>3. /\ n \in 0 .. BurstSize
      /\ ops' \in [Workers -> [Slots -> Mbufs \cup {NULL}]]
      /\ \A v \in Workers : v # w => ops'[v] = ops[v]
      /\ \A i \in 1 .. n : ops'[w][i] \in Mbufs
      /\ done' \in [Workers -> Seq(Mbufs)]
      /\ rgx_dqd' \in [Workers -> 0 .. BurstSize]
  BY <1>1, CollectType DEF n
<1>4. TypeOK'
  BY <1>1, <1>2, <1>3 DEF TypeInv, TypeOK, CollectN, Goto, nicVars
<1>5. EngineOK'
  BY <1>1, <1>2 DEF TypeInv, TypeOK, EngineOK, Goto
<1>6. LiveOK'
  <2>1. Engine = "rgx"
    BY <1>1 DEF TypeInv, EngineOK
  <2>2. rgx_dqd'[w] = n /\ \A v \in Workers : v # w => rgx_dqd'[v] = rgx_dqd[v]
    BY <1>1 DEF TypeInv, TypeOK, CollectN
  <2> QED BY <1>1, <1>2, <1>3, <2>1, <2>2
          DEF TypeInv, TypeOK, LiveOK, CollectN, Goto, FwdPkts, FwdCnt
<1> QED BY <1>4, <1>5, <1>6 DEF TypeInv

LEMMA TypeForward ==
    ASSUME TypeInv, NEW w \in Workers, ForwardOrFree(w)
    PROVE  TypeInv'
<1> USE BurstAssumption DEF TypeInv
<1>1. PICK k \in 0 .. FwdCnt(w) :
         TransmitN(w, k) /\ FreeBulk(FwdPkts(w), k + 1, FwdCnt(w))
  BY DEF ForwardOrFree
<1>2. FwdCnt(w) \in 0 .. BurstSize /\ \A i \in 1 .. FwdCnt(w) : FwdPkts(w)[i] \in Mbufs
  BY <1>1 DEF TypeOK, LiveOK, TransmitN, FwdCnt
<1>3. /\ Ptrs(FwdPkts(w), 1, k) \subseteq Mbufs
      /\ Ptrs(FwdPkts(w), k + 1, FwdCnt(w)) \subseteq Mbufs
  BY <1>2 DEF Ptrs
<1>4. pool' \subseteq Mbufs /\ twice' \subseteq Mbufs
  BY <1>1, <1>3, FreeType
<1>5. TypeOK'
  BY <1>1, <1>3, <1>4 DEF TypeOK, TransmitN, Goto, workerVars
<1>6. EngineOK' /\ LiveOK'
  BY <1>1 DEF EngineOK, LiveOK, TypeOK, TransmitN, Goto, workerVars, FwdPkts, FwdCnt
<1> QED BY <1>5, <1>6

LEMMA TypeQuit ==
    ASSUME TypeInv, NEW w \in Workers, QuitLoop(w)
    PROVE  TypeInv'
BY DEF TypeInv, TypeOK, EngineOK, LiveOK, QuitLoop, Goto, AfterLoop,
       nicVars, workerVars, FwdPkts, FwdCnt

LEMMA TypeDrain ==
    ASSUME TypeInv, NEW w \in Workers, Drain(w)
    PROVE  TypeInv'
<1> DEFINE n == Least(BurstSize, Len(done[w]))
<1>1. /\ CollectN(w, n) /\ pc[w] = "drain"
      /\ Goto(w, IF n > 0 THEN "drain" ELSE "done")
      /\ FreeBulk(done[w], 1, n)
  BY DEF Drain
<1> HIDE DEF n
<1>2. /\ n \in 0 .. BurstSize
      /\ ops' \in [Workers -> [Slots -> Mbufs \cup {NULL}]]
      /\ \A v \in Workers : v # w => ops'[v] = ops[v]
      /\ Ptrs(done[w], 1, n) \subseteq Mbufs
      /\ done' \in [Workers -> Seq(Mbufs)]
      /\ rgx_dqd' \in [Workers -> 0 .. BurstSize]
  BY <1>1, CollectType DEF n
<1>3. pool' \subseteq Mbufs /\ twice' \subseteq Mbufs
  BY <1>1, <1>2, FreeType
<1>4. TypeOK'
  BY <1>1, <1>2, <1>3 DEF TypeInv, TypeOK, CollectN, Goto, nicVars
<1>5. EngineOK'
  BY <1>1 DEF TypeInv, TypeOK, EngineOK, Goto
<1>6. LiveOK'
  <2>1. \A v \in Workers : v # w => rgx_dqd'[v] = rgx_dqd[v]
    BY <1>1 DEF TypeInv, TypeOK, CollectN
  <2>2. pc'[w] \notin {"enq", "fwd"} /\ \A v \in Workers : v # w => pc'[v] = pc[v]
    BY <1>1 DEF TypeInv, TypeOK, Goto
  <2> QED BY <1>1, <1>2, <2>1, <2>2 DEF TypeInv, TypeOK, LiveOK, CollectN, FwdPkts, FwdCnt
<1> QED BY <1>4, <1>5, <1>6 DEF TypeInv

LEMMA TypeDevice ==
    ASSUME TypeInv, NEW w \in Workers, NEW m \in Mbufs,
           Deliver(w, m) \/ Complete(w, m) \/ TxComplete(w, m)
    PROVE  TypeInv'
<1>1. EngineOK' /\ LiveOK'
  BY DEF TypeInv, EngineOK, LiveOK, Deliver, Complete, TxComplete, nicVars,
         workerVars, FwdPkts, FwdCnt
<1>2. CASE Deliver(w, m)
  <2>1. Append(rx[w], m) \in Seq(Mbufs)
    BY DEF TypeInv, TypeOK
  <2>2. TypeOK'
    BY <1>2, <2>1 DEF TypeInv, TypeOK, Deliver, workerVars
  <2> QED BY <1>1, <2>2 DEF TypeInv
<1>3. CASE Complete(w, m)
  <2>1. Append(done[w], m) \in Seq(Mbufs)
    BY DEF TypeInv, TypeOK
  <2>2. TypeOK'
    BY <1>3, <2>1 DEF TypeInv, TypeOK, Complete, nicVars, workerVars
  <2> QED BY <1>1, <2>2 DEF TypeInv
<1>4. CASE TxComplete(w, m)
  <2>1. Ptrs(<<m>>, 1, 1) = {m}
    BY DEF Ptrs
  <2>2. pool' \subseteq Mbufs /\ twice' \subseteq Mbufs
    BY <1>4, <2>1, FreeType DEF TxComplete
  <2>3. TypeOK'
    BY <1>4, <2>2 DEF TypeInv, TypeOK, TxComplete, workerVars
  <2> QED BY <1>1, <2>3 DEF TypeInv
<1> QED BY <1>2, <1>3, <1>4

LEMMA TypeSame ==
    ASSUME TypeInv, Signal \/ UNCHANGED vars
    PROVE  TypeInv'
BY DEF TypeInv, TypeOK, EngineOK, LiveOK, Signal, vars, nicVars, workerVars,
       FwdPkts, FwdCnt

LEMMA TypeNext == TypeInv /\ [Next]_vars => TypeInv'
<1> SUFFICES ASSUME TypeInv, [Next]_vars PROVE TypeInv'
  OBVIOUS
<1>1. CASE \E w \in Workers : WorkerStep(w)
  BY <1>1, TypeStart, TypeRx, TypeEnqueue, TypeDequeue, TypeForward, TypeQuit,
     TypeDrain DEF WorkerStep
<1>2. CASE DeviceStep
  BY <1>2, TypeDevice DEF DeviceStep
<1>3. CASE Signal \/ Finished \/ UNCHANGED vars
  BY <1>3, TypeSame DEF Finished
<1> QED BY <1>1, <1>2, <1>3 DEF Next

\* Every pointer a worker hands to a device or to the pool is a packet, and
\* every count stays inside its array, in every reachable state.
THEOREM TypeCorrect == Spec => []TypeOK
<1>1. TypeInv => TypeOK
  BY DEF TypeInv
<1> QED BY <1>1, TypeInit, TypeNext, PTL DEF Spec

----------------------------------------------------------------------------
(* Ownership.  Every action moves a set of packets from one place to       *)
(* another (EnqueueBurst and ForwardOrFree to two others); moving keeps    *)
(* the places disjoint and loses nothing.                                  *)

Hold == [p \in Place |-> At(p)]

Disjoint(P, F) == \A p, q \in P : p # q => F[p] \cap F[q] = {}
Covers(P, F)   == \A m \in Mbufs : \E p \in P : m \in F[p]

\* G is F after the packets S went from a to b.
Moves(P, F, G, a, b, S) ==
    /\ a \in P /\ b \in P /\ a # b
    /\ S \subseteq F[a]
    /\ G[a] = F[a] \ S
    /\ G[b] = F[b] \cup S
    /\ \A p \in P \ {a, b} : G[p] = F[p]

\* G is F after the packets S went from a to b and T from a to c.
Splits(P, F, G, a, b, c, S, T) ==
    /\ a \in P /\ b \in P /\ c \in P /\ a # b /\ a # c /\ b # c
    /\ S \subseteq F[a] /\ T \subseteq F[a] /\ S \cap T = {}
    /\ G[a] = F[a] \ (S \cup T)
    /\ G[b] = F[b] \cup S
    /\ G[c] = F[c] \cup T
    /\ \A p \in P \ {a, b, c} : G[p] = F[p]

\* Moving some packets of one place keeps the places disjoint and loses none.
LEMMA MoveOne ==
    ASSUME NEW P, NEW F, NEW G, Disjoint(P, F), Covers(P, F),
           NEW a, NEW b, NEW S, Moves(P, F, G, a, b, S)
    PROVE  Disjoint(P, G) /\ Covers(P, G)
<1> USE DEF Moves
<1>1. Disjoint(P, G)
  <2> SUFFICES ASSUME NEW p \in P, NEW q \in P, NEW x, x \in G[p], x \in G[q]
               PROVE  p = q
    BY DEF Disjoint
  <2>1. \A r, t \in P : x \in F[r] /\ x \in F[t] => r = t
    BY DEF Disjoint
  <2>2. CASE x \in S
    <3>1. \A r \in P : x \in F[r] => r = a
      BY <2>1, <2>2
    <3>2. \A r \in P : x \in G[r] => r = b
      BY <3>1, <2>2
    <3> QED BY <3>2
  <2>3. CASE x \notin S
    <3>1. \A r \in P : x \in G[r] => x \in F[r]
      BY <2>3
    <3> QED BY <3>1, <2>1
  <2> QED BY <2>2, <2>3
<1>2. Covers(P, G)
  <2> SUFFICES ASSUME NEW m \in Mbufs PROVE \E p \in P : m \in G[p]
    BY DEF Covers
  <2>1. PICK p \in P : m \in F[p]
    BY DEF Covers
  <2>2. CASE m \in S
    BY <2>2
  <2>3. CASE m \notin S
    <3>1. m \in G[p]
      BY <2>1, <2>3
    <3> QED BY <3>1
  <2> QED BY <2>2, <2>3
<1> QED BY <1>1, <1>2

\* So does moving some to a second place and others to a third.
LEMMA MoveTwo ==
    ASSUME NEW P, NEW F, NEW G, Disjoint(P, F), Covers(P, F),
           NEW a, NEW b, NEW c, NEW S, NEW T, Splits(P, F, G, a, b, c, S, T)
    PROVE  Disjoint(P, G) /\ Covers(P, G)
<1> USE DEF Splits
<1>1. Disjoint(P, G)
  <2> SUFFICES ASSUME NEW p \in P, NEW q \in P, NEW x, x \in G[p], x \in G[q]
               PROVE  p = q
    BY DEF Disjoint
  <2>1. \A r, t \in P : x \in F[r] /\ x \in F[t] => r = t
    BY DEF Disjoint
  <2>2. CASE x \in S \cup T
    <3>1. \A r \in P : x \in F[r] => r = a
      BY <2>1, <2>2
    <3>2. x \in S => \A r \in P : x \in G[r] => r = b
      BY <3>1
    <3>3. x \in T => \A r \in P : x \in G[r] => r = c
      BY <3>1
    <3> QED BY <2>2, <3>2, <3>3
  <2>3. CASE x \notin S \cup T
    <3>1. \A r \in P : x \in G[r] => x \in F[r]
      BY <2>3
    <3> QED BY <3>1, <2>1
  <2> QED BY <2>2, <2>3
<1>2. Covers(P, G)
  <2> SUFFICES ASSUME NEW m \in Mbufs PROVE \E p \in P : m \in G[p]
    BY DEF Covers
  <2>1. PICK p \in P : m \in F[p]
    BY DEF Covers
  <2>2. CASE m \in S \cup T
    BY <2>2
  <2>3. CASE m \notin S \cup T
    <3>1. m \in G[p]
      BY <2>1, <2>3
    <3> QED BY <3>1
  <2> QED BY <2>2, <2>3
<1> QED BY <1>1, <1>2

\* What each place holds, before and after a step.
LEMMA AtIs ==
    /\ At(<<"pool">>) = pool
    /\ \A w \in Workers :
          /\ At(<<"rx", w>>) = Range(rx[w])
          /\ At(<<"app", w>>) = Live(w)
          /\ At(<<"dev", w>>) = inflight[w]
          /\ At(<<"done", w>>) = Range(done[w])
          /\ At(<<"tx", w>>) = tx[w]
BY DEF At

LEMMA AtIsNext ==
    /\ At(<<"pool">>)' = pool'
    /\ \A w \in Workers :
          /\ At(<<"rx", w>>)' = Range(rx'[w])
          /\ At(<<"app", w>>)' = Live(w)'
          /\ At(<<"dev", w>>)' = inflight'[w]
          /\ At(<<"done", w>>)' = Range(done'[w])
          /\ At(<<"tx", w>>)' = tx'[w]
BY DEF At

LEMMA PlaceIs ==
    /\ <<"pool">> \in Place
    /\ \A w \in Workers :
          /\ <<"rx", w>> \in Place /\ <<"app", w>> \in Place
          /\ <<"dev", w>> \in Place /\ <<"done", w>> \in Place /\ <<"tx", w>> \in Place
    /\ \A p \in Place :
          \/ p = <<"pool">>
          \/ \E w \in Workers :
                p \in {<<"rx", w>>, <<"app", w>>, <<"dev", w>>, <<"done", w>>, <<"tx", w>>}
BY DEF Place

\* No duplicates among the live entries of the arrays and in the queues.
InjOK ==
    \A w \in Workers :
        /\ IsInjective(rx[w])
        /\ IsInjective(done[w])
        /\ pc[w] = "enq" =>
              \A i, j \in 1 .. nb_rx[w] : burst[w][i] = burst[w][j] => i = j
        /\ pc[w] = "fwd" =>
              \A i, j \in 1 .. FwdCnt(w) : FwdPkts(w)[i] = FwdPkts(w)[j] => i = j

OwnInv == TypeInv /\ Disjoint(Place, Hold) /\ Covers(Place, Hold) /\ InjOK /\ NoDoubleFree

LEMMA OwnInvImplies == OwnInv => Exclusive /\ NoDoubleFree /\ NoLeak
<1> SUFFICES ASSUME OwnInv PROVE Exclusive /\ NoLeak
  BY DEF OwnInv
<1>1. \A p \in Place : Hold[p] = At(p)
  BY DEF Hold
<1>2. Exclusive
  BY <1>1 DEF OwnInv, Disjoint, InjOK, Exclusive
<1>3. NoLeak
  BY <1>1 DEF OwnInv, Covers, NoLeak
<1> QED BY <1>2, <1>3

\* The contents of the places, with and without a step, as values of Hold.
LEMMA HoldIs ==
    /\ Hold[<<"pool">>] = pool /\ Hold'[<<"pool">>] = pool'
    /\ \A w \in Workers :
          /\ Hold[<<"rx", w>>] = Range(rx[w])     /\ Hold'[<<"rx", w>>] = Range(rx'[w])
          /\ Hold[<<"app", w>>] = Live(w)         /\ Hold'[<<"app", w>>] = Live(w)'
          /\ Hold[<<"dev", w>>] = inflight[w]     /\ Hold'[<<"dev", w>>] = inflight'[w]
          /\ Hold[<<"done", w>>] = Range(done[w]) /\ Hold'[<<"done", w>>] = Range(done'[w])
          /\ Hold[<<"tx", w>>] = tx[w]            /\ Hold'[<<"tx", w>>] = tx'[w]
BY PlaceIs, AtIs, AtIsNext DEF Hold

\* The step touches only the places X.
Touches(X) ==
    /\ <<"pool">> \notin X => pool' = pool
    /\ \A v \in Workers :
          /\ <<"rx", v>> \notin X => rx'[v] = rx[v]
          /\ <<"app", v>> \notin X => Live(v)' = Live(v)
          /\ <<"dev", v>> \notin X => inflight'[v] = inflight[v]
          /\ <<"done", v>> \notin X => done'[v] = done[v]
          /\ <<"tx", v>> \notin X => tx'[v] = tx[v]

LEMMA Frame ==
    ASSUME NEW X, Touches(X)
    PROVE  \A p \in Place \ X : Hold'[p] = Hold[p]
<1> USE DEF Touches
<1> SUFFICES ASSUME NEW p \in Place, p \notin X PROVE Hold'[p] = Hold[p]
  OBVIOUS
<1>1. CASE p = <<"pool">>
  BY <1>1, HoldIs
<1>2. CASE \E v \in Workers :
         p \in {<<"rx", v>>, <<"app", v>>, <<"dev", v>>, <<"done", v>>, <<"tx", v>>}
  <2>1. PICK v \in Workers :
          p \in {<<"rx", v>>, <<"app", v>>, <<"dev", v>>, <<"done", v>>, <<"tx", v>>}
    BY <1>2
  <2>2. CASE p = <<"rx", v>>
    BY <2>2, HoldIs
  <2>3. CASE p = <<"app", v>>
    BY <2>3, HoldIs
  <2>4. CASE p = <<"dev", v>>
    BY <2>4, HoldIs
  <2>5. CASE p = <<"done", v>>
    BY <2>5, HoldIs
  <2>6. CASE p = <<"tx", v>>
    BY <2>6, HoldIs
  <2> QED BY <2>1, <2>2, <2>3, <2>4, <2>5, <2>6
<1> QED BY <1>1, <1>2, PlaceIs

\* A packet that is in another place after the step has gone there along an edge that
\* MbufLifecycle has for worker w.
Along(w) ==
    \A p, q \in Place, m \in Mbufs :
        m \in Hold[p] /\ m \in Hold'[q] /\ p # q => <<p, q>> \in Lifecycle!Edges(w)

LEMMA MoveAlong ==
    ASSUME Disjoint(Place, Hold), NEW w, NEW a, NEW b, NEW S,
           Moves(Place, Hold, Hold', a, b, S), <<a, b>> \in Lifecycle!Edges(w)
    PROVE  Along(w)
<1> SUFFICES ASSUME NEW p \in Place, NEW q \in Place, NEW m \in Mbufs,
                    m \in Hold[p], m \in Hold'[q], p # q
             PROVE  p = a /\ q = b
  BY DEF Along
<1>1. m \notin Hold[q]
  BY DEF Disjoint
<1> QED BY <1>1 DEF Moves, Disjoint

LEMMA SplitAlong ==
    ASSUME Disjoint(Place, Hold), NEW w, NEW a, NEW b, NEW c, NEW S, NEW T,
           Splits(Place, Hold, Hold', a, b, c, S, T),
           <<a, b>> \in Lifecycle!Edges(w), <<a, c>> \in Lifecycle!Edges(w)
    PROVE  Along(w)
<1> SUFFICES ASSUME NEW p \in Place, NEW q \in Place, NEW m \in Mbufs,
                    m \in Hold[p], m \in Hold'[q], p # q
             PROVE  p = a /\ q \in {b, c}
  BY DEF Along
<1>1. m \notin Hold[q]
  BY DEF Disjoint
<1> QED BY <1>1 DEF Splits, Disjoint

LEMMA EdgesAre ==
    ASSUME NEW w
    PROVE  { <<<<"pool">>, <<"rx", w>>>>, <<<<"rx", w>>, <<"app", w>>>>,
             <<<<"app", w>>, <<"dev", w>>>>, <<<<"dev", w>>, <<"done", w>>>>,
             <<<<"done", w>>, <<"app", w>>>>, <<<<"done", w>>, <<"pool">>>>,
             <<<<"app", w>>, <<"tx", w>>>>, <<<<"app", w>>, <<"pool">>>>,
             <<<<"tx", w>>, <<"pool">>>> } \subseteq Lifecycle!Edges(w)
BY DEF Lifecycle!Edges, Lifecycle!Pool

\* A receive moves the first packets of the queue to the worker.
LEMMA OwnRx ==
    ASSUME OwnInv, NEW w \in Workers, RxBurst(w)
    PROVE  Disjoint(Place, Hold') /\ Covers(Place, Hold') /\ InjOK' /\ NoDoubleFree' /\ Along(w)
<1> DEFINE n == Least(BurstSize, Len(rx[w]))
           S == Ptrs(rx[w], 1, n)
<1>1. rx[w] \in Seq(Mbufs) /\ Len(rx[w]) \in Nat /\ IsInjective(rx[w])
  BY DEF OwnInv, TypeInv, TypeOK, InjOK
<1>2. n \in 0 .. BurstSize /\ n \in 0 .. Len(rx[w])
  <2>1. n \in Nat /\ n <= BurstSize /\ n <= Len(rx[w])
    BY <1>1, LeastLemma, BurstAssumption
  <2> QED BY <2>1, <1>1, BurstAssumption
<1>3. \A i \in 1 .. n : rx[w][i] \in Mbufs
  BY <1>1, <1>2
<1>4. /\ rx' = [rx EXCEPT ![w] = Drop(rx[w], n)]
      /\ burst' = [burst EXCEPT ![w] = Fill(burst[w], rx[w], n)]
      /\ nb_rx' = [nb_rx EXCEPT ![w] = n]
      /\ pc[w] = "rx"
      /\ pc' = [pc EXCEPT ![w] =
                  IF n = 0 THEN (IF Engine = "rgx" THEN "deq" ELSE "rx")
                  ELSE IF Engine = "rgx" THEN "enq" ELSE "fwd"]
      /\ UNCHANGED <<pool, ops, rgx_dqd, inflight, done, tx, force_quit, twice>>
  BY DEF RxBurst, ReceiveN, Goto
<1> HIDE DEF n
<1>5. /\ Range(Drop(rx[w], n)) = Range(rx[w]) \ S
      /\ IsInjective(Drop(rx[w], n))
      /\ S \subseteq Range(rx[w])
  BY <1>1, <1>2, DropSplits
<1>6. /\ \A i \in 1 .. n : Fill(burst[w], rx[w], n)[i] = rx[w][i]
      /\ Ptrs(Fill(burst[w], rx[w], n), 1, n) = S
  <2>1. burst[w] \in [Slots -> Mbufs \cup {NULL}]
    BY DEF OwnInv, TypeInv, TypeOK
  <2> QED BY <2>1, <1>2, <1>3, FillLemma
<1>7. /\ rx'[w] = Drop(rx[w], n)
      /\ burst'[w] = Fill(burst[w], rx[w], n)
      /\ nb_rx'[w] = n
      /\ \A v \in Workers \ {w} : /\ rx'[v] = rx[v] /\ burst'[v] = burst[v]
                                  /\ nb_rx'[v] = nb_rx[v] /\ pc'[v] = pc[v]
      /\ pc'[w] = IF n = 0 THEN (IF Engine = "rgx" THEN "deq" ELSE "rx")
                  ELSE IF Engine = "rgx" THEN "enq" ELSE "fwd"
  BY <1>4 DEF OwnInv, TypeInv, TypeOK
<1>8. Live(w) = {} /\ Live(w)' = S
  <2>1. n = 0 => S = {}
    BY DEF Ptrs
  <2> QED BY <1>4, <1>6, <1>7, <2>1 DEF Live, FwdPkts, FwdCnt
<1>9. \A v \in Workers \ {w} : Live(v)' = Live(v)
  BY <1>4, <1>7 DEF Live, FwdPkts, FwdCnt
<1> HIDE DEF S
<1>10. Disjoint(Place, Hold') /\ Covers(Place, Hold') /\ Along(w)
  <2>1. /\ S \subseteq Hold[<<"rx", w>>]
        /\ Hold'[<<"rx", w>>] = Hold[<<"rx", w>>] \ S
        /\ Hold'[<<"app", w>>] = Hold[<<"app", w>>] \cup S
    <3>1. /\ Hold[<<"rx", w>>] = Range(rx[w]) /\ Hold'[<<"rx", w>>] = Range(rx'[w])
          /\ Hold[<<"app", w>>] = Live(w) /\ Hold'[<<"app", w>>] = Live(w)'
      BY HoldIs
    <3> QED
      BY <1>5, <1>7, <1>8, <3>1
  <2>2. \A p \in Place \ {<<"rx", w>>, <<"app", w>>} : Hold'[p] = Hold[p]
    <3>1. Touches({<<"rx", w>>, <<"app", w>>})
      BY <1>4, <1>7, <1>9 DEF Touches
    <3> QED BY <3>1, Frame
  <2>3. <<"rx", w>> \in Place /\ <<"app", w>> \in Place /\ <<"rx", w>> # <<"app", w>>
    BY PlaceIs
  <2>4. Disjoint(Place, Hold) /\ Covers(Place, Hold)
    BY DEF OwnInv
  <2>5. Moves(Place, Hold, Hold', <<"rx", w>>, <<"app", w>>, S)
    BY <2>1, <2>2, <2>3 DEF Moves
  <2> QED BY <2>4, <2>5, MoveOne, MoveAlong, EdgesAre
<1>11. InjOK'
  <2>1. \A i, j \in 1 .. n : burst'[w][i] = burst'[w][j] => i = j
    BY <1>1, <1>2, <1>6, <1>7 DEF IsInjective
  <2> QED BY <1>4, <1>5, <1>7, <2>1 DEF OwnInv, InjOK, FwdPkts, FwdCnt
<1>12. NoDoubleFree'
  BY <1>4 DEF OwnInv, NoDoubleFree
<1> QED BY <1>10, <1>11, <1>12

\* Cutting an array without duplicates in two.
LEMMA PtrsSplit ==
    ASSUME NEW a, NEW n \in Nat, NEW k \in 0 .. n,
           \A i, j \in 1 .. n : a[i] = a[j] => i = j
    PROVE  /\ Ptrs(a, 1, n) = Ptrs(a, 1, k) \cup Ptrs(a, k + 1, n)
           /\ Ptrs(a, 1, k) \cap Ptrs(a, k + 1, n) = {}
<1>1. 1 .. n = (1 .. k) \cup (k + 1 .. n) /\ (1 .. k) \cap (k + 1 .. n) = {}
  OBVIOUS
<1> QED BY <1>1 DEF Ptrs

\* Freeing packets that are not in the pool is no double free.
LEMMA FreeOnce ==
    ASSUME OwnInv, NEW a, NEW lo, NEW hi, FreeBulk(a, lo, hi),
           Ptrs(a, lo, hi) \cap pool = {}
    PROVE  NoDoubleFree' /\ pool' = pool \cup Ptrs(a, lo, hi)
BY DEF OwnInv, NoDoubleFree, FreeBulk

\* What a worker or a device holds is not in the pool.
LEMMA HeldNotFree ==
    ASSUME OwnInv, NEW w \in Workers
    PROVE  /\ Live(w) \cap pool = {}
           /\ Range(done[w]) \cap pool = {}
           /\ tx[w] \cap pool = {}
<1>1. \A p \in Place : p # <<"pool">> => Hold[p] \cap pool = {}
  BY HoldIs, PlaceIs DEF OwnInv, Disjoint
<1>2. /\ <<"app", w>> # <<"pool">> /\ <<"done", w>> # <<"pool">> /\ <<"tx", w>> # <<"pool">>
      /\ <<"app", w>> \in Place /\ <<"done", w>> \in Place /\ <<"tx", w>> \in Place
  BY PlaceIs
<1> QED BY <1>1, <1>2, HoldIs

\* A submit splits the burst between the device and the pool.
LEMMA OwnEnqueue ==
    ASSUME OwnInv, NEW w \in Workers, EnqueueBurst(w)
    PROVE  Disjoint(Place, Hold') /\ Covers(Place, Hold') /\ InjOK' /\ NoDoubleFree' /\ Along(w)
<1>1. PICK k \in 0 .. nb_rx[w] : SubmitN(w, k) /\ FreeBulk(burst[w], k + 1, nb_rx[w])
  BY DEF EnqueueBurst
<1> DEFINE S == Ptrs(burst[w], 1, k)
           T == Ptrs(burst[w], k + 1, nb_rx[w])
<1>2. /\ inflight' = [inflight EXCEPT ![w] = inflight[w] \cup S]
      /\ pc[w] = "enq"
      /\ pc' = [pc EXCEPT ![w] = "deq"]
      /\ ops' = [ops EXCEPT ![w] = Fill(ops[w], burst[w], nb_rx[w])]
      /\ UNCHANGED <<rx, tx, burst, nb_rx, rgx_dqd, done, force_quit>>
  BY <1>1 DEF SubmitN, Goto, nicVars
<1>3. /\ inflight'[w] = inflight[w] \cup S /\ pc'[w] = "deq"
      /\ \A v \in Workers \ {w} : /\ inflight'[v] = inflight[v]
                                  /\ pc'[v] = pc[v] /\ ops'[v] = ops[v]
  BY <1>2 DEF OwnInv, TypeInv, TypeOK
<1>4. Live(w) = S \cup T /\ S \cap T = {}
  <2>1. nb_rx[w] \in Nat
    BY BurstAssumption DEF OwnInv, TypeInv, TypeOK
  <2>2. \A i, j \in 1 .. nb_rx[w] : burst[w][i] = burst[w][j] => i = j
    BY <1>2 DEF OwnInv, InjOK
  <2>3. Ptrs(burst[w], 1, nb_rx[w]) = S \cup T /\ S \cap T = {}
    BY <2>1, <2>2, PtrsSplit
  <2> QED BY <2>3, <1>2 DEF Live
<1>5. Live(w)' = {}
  BY <1>3 DEF Live
<1>6. \A v \in Workers \ {w} : Live(v)' = Live(v)
  BY <1>2, <1>3 DEF Live, FwdPkts, FwdCnt
<1>7. NoDoubleFree' /\ pool' = pool \cup T
  BY <1>1, <1>4, HeldNotFree, FreeOnce
<1> HIDE DEF S, T
<1>8. Disjoint(Place, Hold') /\ Covers(Place, Hold') /\ Along(w)
  <2>1. Touches({<<"app", w>>, <<"dev", w>>, <<"pool">>})
    BY <1>2, <1>3, <1>6 DEF Touches
  <2>2. \A p \in Place \ {<<"app", w>>, <<"dev", w>>, <<"pool">>} : Hold'[p] = Hold[p]
    BY <2>1, Frame
  <2>3. /\ Hold[<<"app", w>>] = S \cup T
        /\ Hold'[<<"app", w>>] = {}
        /\ Hold'[<<"dev", w>>] = Hold[<<"dev", w>>] \cup S
        /\ Hold'[<<"pool">>] = Hold[<<"pool">>] \cup T
    BY <1>3, <1>4, <1>5, <1>7, HoldIs
  <2>4. Splits(Place, Hold, Hold', <<"app", w>>, <<"dev", w>>, <<"pool">>, S, T)
    BY <1>4, <2>2, <2>3, PlaceIs DEF Splits
  <2> QED BY <2>4, MoveTwo, SplitAlong, EdgesAre DEF OwnInv
<1>9. InjOK'
  BY <1>2, <1>3 DEF OwnInv, InjOK, FwdPkts, FwdCnt
<1> QED BY <1>7, <1>8, <1>9

\* What a collect does to the queue of completed operations and to ops.
LEMMA CollectOwn ==
    ASSUME OwnInv, NEW w \in Workers,
           NEW n, n = Least(BurstSize, Len(done[w])), CollectN(w, n)
    PROVE  /\ Ptrs(ops'[w], 1, n) = Ptrs(done[w], 1, n)
           /\ \A i, j \in 1 .. n : ops'[w][i] = ops'[w][j] => i = j
           /\ Range(done'[w]) = Range(done[w]) \ Ptrs(done[w], 1, n)
           /\ Ptrs(done[w], 1, n) \subseteq Range(done[w])
           /\ IsInjective(done'[w])
           /\ rgx_dqd'[w] = n
           /\ \A v \in Workers \ {w} : /\ done'[v] = done[v] /\ ops'[v] = ops[v]
                                       /\ rgx_dqd'[v] = rgx_dqd[v]
           /\ UNCHANGED <<rx, tx, burst, nb_rx, inflight>>
<1>1. done[w] \in Seq(Mbufs) /\ Len(done[w]) \in Nat /\ IsInjective(done[w])
  BY DEF OwnInv, TypeInv, TypeOK, InjOK
<1>2. n \in 0 .. Len(done[w])
  <2>1. n \in Nat /\ n <= BurstSize /\ n <= Len(done[w])
    BY <1>1, LeastLemma, BurstAssumption
  <2> QED BY <2>1, <1>1
<1>3. /\ Ptrs(ops'[w], 1, n) = Ptrs(done[w], 1, n)
      /\ \A i \in 1 .. n : ops'[w][i] = done[w][i]
      /\ \A v \in Workers : v # w => ops'[v] = ops[v]
  BY CollectType DEF OwnInv
<1>4. /\ Range(Drop(done[w], n)) = Range(done[w]) \ Ptrs(done[w], 1, n)
      /\ IsInjective(Drop(done[w], n))
      /\ Ptrs(done[w], 1, n) \subseteq Range(done[w])
  BY <1>1, <1>2, DropSplits
<1>5. /\ done'[w] = Drop(done[w], n)
      /\ rgx_dqd'[w] = n
      /\ \A v \in Workers \ {w} : done'[v] = done[v] /\ rgx_dqd'[v] = rgx_dqd[v]
  BY DEF CollectN, OwnInv, TypeInv, TypeOK
<1>6. \A i, j \in 1 .. n : ops'[w][i] = ops'[w][j] => i = j
  BY <1>1, <1>2, <1>3 DEF IsInjective
<1>7. UNCHANGED <<rx, tx, burst, nb_rx, inflight>>
  BY DEF CollectN, nicVars
<1> QED BY <1>3, <1>4, <1>5, <1>6, <1>7

\* A collect moves completed packets to the worker.
LEMMA OwnDequeue ==
    ASSUME OwnInv, NEW w \in Workers, DequeueBurst(w)
    PROVE  Disjoint(Place, Hold') /\ Covers(Place, Hold') /\ InjOK' /\ NoDoubleFree' /\ Along(w)
<1> DEFINE n == Least(BurstSize, Len(done[w]))
           S == Ptrs(done[w], 1, n)
<1>1. /\ CollectN(w, n) /\ pc[w] = "deq"
      /\ pc' = [pc EXCEPT ![w] = IF n > 0 THEN "fwd" ELSE "rx"]
      /\ UNCHANGED <<pool, twice>>
  BY DEF DequeueBurst, Goto
<1>2. /\ Ptrs(ops'[w], 1, n) = S
      /\ \A i, j \in 1 .. n : ops'[w][i] = ops'[w][j] => i = j
      /\ Range(done'[w]) = Range(done[w]) \ S
      /\ S \subseteq Range(done[w])
      /\ IsInjective(done'[w])
      /\ rgx_dqd'[w] = n
      /\ \A v \in Workers \ {w} : /\ done'[v] = done[v] /\ ops'[v] = ops[v]
                                  /\ rgx_dqd'[v] = rgx_dqd[v]
      /\ UNCHANGED <<rx, tx, burst, nb_rx, inflight>>
  BY <1>1, CollectOwn
<1>3. Engine = "rgx"
  BY <1>1 DEF OwnInv, TypeInv, EngineOK
<1>4. n \in Nat
  BY <1>1, CollectType, BurstAssumption DEF OwnInv
<1> HIDE DEF n
<1>5. /\ pc'[w] = IF n > 0 THEN "fwd" ELSE "rx"
      /\ \A v \in Workers \ {w} : pc'[v] = pc[v]
  BY <1>1 DEF OwnInv, TypeInv, TypeOK
<1>6. Live(w) = {} /\ Live(w)' = S
  <2>1. n = 0 => S = {}
    BY DEF Ptrs
  <2> QED BY <1>1, <1>2, <1>3, <1>4, <1>5, <2>1 DEF Live, FwdPkts, FwdCnt
<1>7. \A v \in Workers \ {w} : Live(v)' = Live(v)
  BY <1>2, <1>5 DEF Live, FwdPkts, FwdCnt
<1> HIDE DEF S
<1>8. Disjoint(Place, Hold') /\ Covers(Place, Hold') /\ Along(w)
  <2>1. Touches({<<"done", w>>, <<"app", w>>})
    BY <1>1, <1>2, <1>7 DEF Touches
  <2>2. \A p \in Place \ {<<"done", w>>, <<"app", w>>} : Hold'[p] = Hold[p]
    BY <2>1, Frame
  <2>3. /\ S \subseteq Hold[<<"done", w>>]
        /\ Hold'[<<"done", w>>] = Hold[<<"done", w>>] \ S
        /\ Hold'[<<"app", w>>] = Hold[<<"app", w>>] \cup S
    <3>1. /\ Hold[<<"done", w>>] = Range(done[w]) /\ Hold'[<<"done", w>>] = Range(done'[w])
          /\ Hold[<<"app", w>>] = Live(w) /\ Hold'[<<"app", w>>] = Live(w)'
      BY HoldIs
    <3> QED
      BY <1>2, <1>6, <3>1
  <2>4. Moves(Place, Hold, Hold', <<"done", w>>, <<"app", w>>, S)
    BY <2>2, <2>3, PlaceIs DEF Moves
  <2> QED BY <2>4, MoveOne, MoveAlong, EdgesAre DEF OwnInv
<1>9. InjOK'
  BY <1>2, <1>3, <1>5 DEF OwnInv, InjOK, FwdPkts, FwdCnt
<1>10. NoDoubleFree'
  BY <1>1 DEF OwnInv, NoDoubleFree
<1> QED BY <1>8, <1>9, <1>10

\* A forward splits what the worker holds between the NIC and the pool.
LEMMA OwnForward ==
    ASSUME OwnInv, NEW w \in Workers, ForwardOrFree(w)
    PROVE  Disjoint(Place, Hold') /\ Covers(Place, Hold') /\ InjOK' /\ NoDoubleFree' /\ Along(w)
<1>1. PICK k \in 0 .. FwdCnt(w) :
         TransmitN(w, k) /\ FreeBulk(FwdPkts(w), k + 1, FwdCnt(w))
  BY DEF ForwardOrFree
<1> DEFINE S == Ptrs(FwdPkts(w), 1, k)
           T == Ptrs(FwdPkts(w), k + 1, FwdCnt(w))
<1>2. /\ tx' = [tx EXCEPT ![w] = tx[w] \cup S]
      /\ pc[w] = "fwd"
      /\ pc' = [pc EXCEPT ![w] = "rx"]
      /\ UNCHANGED <<rx, burst, nb_rx, ops, rgx_dqd, inflight, done, force_quit>>
  BY <1>1 DEF TransmitN, Goto, workerVars
<1>3. /\ tx'[w] = tx[w] \cup S /\ pc'[w] = "rx"
      /\ \A v \in Workers \ {w} : tx'[v] = tx[v] /\ pc'[v] = pc[v]
  BY <1>2 DEF OwnInv, TypeInv, TypeOK
<1>4. Live(w) = S \cup T /\ S \cap T = {}
  <2>1. FwdCnt(w) \in Nat
    BY BurstAssumption DEF OwnInv, TypeInv, TypeOK, FwdCnt
  <2>2. \A i, j \in 1 .. FwdCnt(w) : FwdPkts(w)[i] = FwdPkts(w)[j] => i = j
    BY <1>2 DEF OwnInv, InjOK
  <2>3. Ptrs(FwdPkts(w), 1, FwdCnt(w)) = S \cup T /\ S \cap T = {}
    BY <2>1, <2>2, PtrsSplit
  <2> QED BY <2>3, <1>2 DEF Live
<1>5. Live(w)' = {}
  BY <1>3 DEF Live
<1>6. \A v \in Workers \ {w} : Live(v)' = Live(v)
  BY <1>2, <1>3 DEF Live, FwdPkts, FwdCnt
<1>7. NoDoubleFree' /\ pool' = pool \cup T
  BY <1>1, <1>4, HeldNotFree, FreeOnce
<1> HIDE DEF S, T
<1>8. Disjoint(Place, Hold') /\ Covers(Place, Hold') /\ Along(w)
  <2>1. Touches({<<"app", w>>, <<"tx", w>>, <<"pool">>})
    BY <1>2, <1>3, <1>6 DEF Touches
  <2>2. \A p \in Place \ {<<"app", w>>, <<"tx", w>>, <<"pool">>} : Hold'[p] = Hold[p]
    BY <2>1, Frame
  <2>3. /\ Hold[<<"app", w>>] = S \cup T
        /\ Hold'[<<"app", w>>] = {}
        /\ Hold'[<<"tx", w>>] = Hold[<<"tx", w>>] \cup S
        /\ Hold'[<<"pool">>] = Hold[<<"pool">>] \cup T
    BY <1>3, <1>4, <1>5, <1>7, HoldIs
  <2>4. Splits(Place, Hold, Hold', <<"app", w>>, <<"tx", w>>, <<"pool">>, S, T)
    BY <1>4, <2>2, <2>3, PlaceIs DEF Splits
  <2> QED BY <2>4, MoveTwo, SplitAlong, EdgesAre DEF OwnInv
<1>9. InjOK'
  BY <1>2, <1>3 DEF OwnInv, InjOK, FwdPkts, FwdCnt
<1> QED BY <1>7, <1>8, <1>9

\* A drain moves completed packets to the pool.
LEMMA OwnDrain ==
    ASSUME OwnInv, NEW w \in Workers, Drain(w)
    PROVE  Disjoint(Place, Hold') /\ Covers(Place, Hold') /\ InjOK' /\ NoDoubleFree' /\ Along(w)
<1> DEFINE n == Least(BurstSize, Len(done[w]))
           S == Ptrs(done[w], 1, n)
<1>1. /\ CollectN(w, n) /\ pc[w] = "drain"
      /\ pc' = [pc EXCEPT ![w] = IF n > 0 THEN "drain" ELSE "done"]
      /\ FreeBulk(done[w], 1, n)
  BY DEF Drain, Goto
<1>2. /\ Range(done'[w]) = Range(done[w]) \ S
      /\ S \subseteq Range(done[w])
      /\ IsInjective(done'[w])
      /\ \A v \in Workers \ {w} : /\ done'[v] = done[v] /\ ops'[v] = ops[v]
                                  /\ rgx_dqd'[v] = rgx_dqd[v]
      /\ UNCHANGED <<rx, tx, burst, nb_rx, inflight>>
  BY <1>1, CollectOwn
<1>3. S \cap pool = {}
  BY <1>2, HeldNotFree
<1>4. NoDoubleFree' /\ pool' = pool \cup S
  BY <1>1, <1>3, FreeOnce
<1> HIDE DEF n
<1>5. /\ pc'[w] \in {"drain", "done"}
      /\ \A v \in Workers \ {w} : pc'[v] = pc[v]
  BY <1>1 DEF OwnInv, TypeInv, TypeOK
<1>6. \A v \in Workers : Live(v)' = Live(v)
  <2>1. Live(w) = {} /\ Live(w)' = {}
    BY <1>1, <1>5 DEF Live
  <2>2. \A v \in Workers \ {w} : Live(v)' = Live(v)
    BY <1>2, <1>5 DEF Live, FwdPkts, FwdCnt
  <2> QED BY <2>1, <2>2
<1> HIDE DEF S
<1>7. Disjoint(Place, Hold') /\ Covers(Place, Hold') /\ Along(w)
  <2>1. Touches({<<"done", w>>, <<"pool">>})
    BY <1>2, <1>6 DEF Touches
  <2>2. \A p \in Place \ {<<"done", w>>, <<"pool">>} : Hold'[p] = Hold[p]
    BY <2>1, Frame
  <2>3. /\ S \subseteq Hold[<<"done", w>>]
        /\ Hold'[<<"done", w>>] = Hold[<<"done", w>>] \ S
        /\ Hold'[<<"pool">>] = Hold[<<"pool">>] \cup S
    BY <1>2, <1>4, HoldIs
  <2>4. Moves(Place, Hold, Hold', <<"done", w>>, <<"pool">>, S)
    BY <2>2, <2>3, PlaceIs DEF Moves
  <2> QED BY <2>4, MoveOne, MoveAlong, EdgesAre DEF OwnInv
<1>8. InjOK'
  BY <1>2, <1>5 DEF OwnInv, InjOK, FwdPkts, FwdCnt
<1> QED BY <1>4, <1>7, <1>8

\* The NIC takes a free buffer into a receive queue.
LEMMA OwnDeliver ==
    ASSUME OwnInv, NEW w \in Workers, NEW m \in Mbufs, Deliver(w, m)
    PROVE  Disjoint(Place, Hold') /\ Covers(Place, Hold') /\ InjOK' /\ NoDoubleFree' /\ Along(w)
<1>1. /\ m \in pool /\ pool' = pool \ {m}
      /\ rx' = [rx EXCEPT ![w] = Append(rx[w], m)]
      /\ UNCHANGED <<burst, nb_rx, ops, rgx_dqd, inflight, done, tx, pc, twice>>
  BY DEF Deliver, workerVars
<1>2. rx[w] \in Seq(Mbufs) /\ IsInjective(rx[w])
  BY DEF OwnInv, TypeInv, TypeOK, InjOK
<1>3. m \notin Range(rx[w])
  <2>1. Hold[<<"rx", w>>] \cap Hold[<<"pool">>] = {}
    BY PlaceIs DEF OwnInv, Disjoint
  <2> QED BY <1>1, <2>1, HoldIs
<1>4. /\ Range(rx'[w]) = Range(rx[w]) \cup {m}
      /\ IsInjective(rx'[w])
      /\ \A v \in Workers \ {w} : rx'[v] = rx[v]
  <2>1. Range(Append(rx[w], m)) = Range(rx[w]) \cup {m} /\ IsInjective(Append(rx[w], m))
    BY <1>2, <1>3, AppendAdds
  <2> QED BY <1>1, <2>1 DEF OwnInv, TypeInv, TypeOK
<1>5. \A v \in Workers : Live(v)' = Live(v)
  BY <1>1 DEF Live, FwdPkts, FwdCnt
<1>6. Disjoint(Place, Hold') /\ Covers(Place, Hold') /\ Along(w)
  <2>1. Touches({<<"pool">>, <<"rx", w>>})
    BY <1>1, <1>4, <1>5 DEF Touches
  <2>2. \A p \in Place \ {<<"pool">>, <<"rx", w>>} : Hold'[p] = Hold[p]
    BY <2>1, Frame
  <2>3. /\ {m} \subseteq Hold[<<"pool">>]
        /\ Hold'[<<"pool">>] = Hold[<<"pool">>] \ {m}
        /\ Hold'[<<"rx", w>>] = Hold[<<"rx", w>>] \cup {m}
    BY <1>1, <1>4, HoldIs
  <2>4. Moves(Place, Hold, Hold', <<"pool">>, <<"rx", w>>, {m})
    BY <2>2, <2>3, PlaceIs DEF Moves
  <2> QED BY <2>4, MoveOne, MoveAlong, EdgesAre DEF OwnInv
<1>7. InjOK'
  BY <1>1, <1>4 DEF OwnInv, InjOK, FwdPkts, FwdCnt
<1>8. NoDoubleFree'
  BY <1>1 DEF OwnInv, NoDoubleFree
<1> QED BY <1>6, <1>7, <1>8

\* The regex device finishes a packet.
LEMMA OwnComplete ==
    ASSUME OwnInv, NEW w \in Workers, NEW m \in Mbufs, Complete(w, m)
    PROVE  Disjoint(Place, Hold') /\ Covers(Place, Hold') /\ InjOK' /\ NoDoubleFree' /\ Along(w)
<1>1. /\ m \in inflight[w]
      /\ inflight' = [inflight EXCEPT ![w] = inflight[w] \ {m}]
      /\ done' = [done EXCEPT ![w] = Append(done[w], m)]
      /\ UNCHANGED <<pool, rx, tx, burst, nb_rx, ops, rgx_dqd, pc, twice>>
  BY DEF Complete, nicVars, workerVars
<1>2. done[w] \in Seq(Mbufs) /\ IsInjective(done[w])
  BY DEF OwnInv, TypeInv, TypeOK, InjOK
<1>3. m \notin Range(done[w])
  <2>1. Hold[<<"dev", w>>] \cap Hold[<<"done", w>>] = {}
    BY PlaceIs DEF OwnInv, Disjoint
  <2> QED BY <1>1, <2>1, HoldIs
<1>4. /\ Range(done'[w]) = Range(done[w]) \cup {m}
      /\ IsInjective(done'[w])
      /\ inflight'[w] = inflight[w] \ {m}
      /\ \A v \in Workers \ {w} : done'[v] = done[v] /\ inflight'[v] = inflight[v]
  <2>1. /\ Range(Append(done[w], m)) = Range(done[w]) \cup {m}
        /\ IsInjective(Append(done[w], m))
    BY <1>2, <1>3, AppendAdds
  <2> QED BY <1>1, <2>1 DEF OwnInv, TypeInv, TypeOK
<1>5. \A v \in Workers : Live(v)' = Live(v)
  BY <1>1 DEF Live, FwdPkts, FwdCnt
<1>6. Disjoint(Place, Hold') /\ Covers(Place, Hold') /\ Along(w)
  <2>1. Touches({<<"dev", w>>, <<"done", w>>})
    BY <1>1, <1>4, <1>5 DEF Touches
  <2>2. \A p \in Place \ {<<"dev", w>>, <<"done", w>>} : Hold'[p] = Hold[p]
    BY <2>1, Frame
  <2>3. /\ {m} \subseteq Hold[<<"dev", w>>]
        /\ Hold'[<<"dev", w>>] = Hold[<<"dev", w>>] \ {m}
        /\ Hold'[<<"done", w>>] = Hold[<<"done", w>>] \cup {m}
    BY <1>1, <1>4, HoldIs
  <2>4. Moves(Place, Hold, Hold', <<"dev", w>>, <<"done", w>>, {m})
    BY <2>2, <2>3, PlaceIs DEF Moves
  <2> QED BY <2>4, MoveOne, MoveAlong, EdgesAre DEF OwnInv
<1>7. InjOK'
  BY <1>1, <1>4 DEF OwnInv, InjOK, FwdPkts, FwdCnt
<1>8. NoDoubleFree'
  BY <1>1 DEF OwnInv, NoDoubleFree
<1> QED BY <1>6, <1>7, <1>8

\* The NIC frees a packet it has sent.
LEMMA OwnTxComplete ==
    ASSUME OwnInv, NEW w \in Workers, NEW m \in Mbufs, TxComplete(w, m)
    PROVE  Disjoint(Place, Hold') /\ Covers(Place, Hold') /\ InjOK' /\ NoDoubleFree' /\ Along(w)
<1>1. /\ m \in tx[w]
      /\ tx' = [tx EXCEPT ![w] = tx[w] \ {m}]
      /\ FreeBulk(<<m>>, 1, 1)
      /\ UNCHANGED <<rx, burst, nb_rx, ops, rgx_dqd, inflight, done, pc>>
  BY DEF TxComplete, workerVars
<1>2. Ptrs(<<m>>, 1, 1) = {m}
  BY DEF Ptrs
<1>3. NoDoubleFree' /\ pool' = pool \cup {m}
  <2>1. Ptrs(<<m>>, 1, 1) \cap pool = {}
    BY <1>1, <1>2, HeldNotFree
  <2> QED BY <1>1, <1>2, <2>1, FreeOnce
<1>4. /\ tx'[w] = tx[w] \ {m}
      /\ \A v \in Workers \ {w} : tx'[v] = tx[v]
  BY <1>1 DEF OwnInv, TypeInv, TypeOK
<1>5. \A v \in Workers : Live(v)' = Live(v)
  BY <1>1 DEF Live, FwdPkts, FwdCnt
<1>6. Disjoint(Place, Hold') /\ Covers(Place, Hold') /\ Along(w)
  <2>1. Touches({<<"tx", w>>, <<"pool">>})
    BY <1>1, <1>4, <1>5 DEF Touches
  <2>2. \A p \in Place \ {<<"tx", w>>, <<"pool">>} : Hold'[p] = Hold[p]
    BY <2>1, Frame
  <2>3. /\ {m} \subseteq Hold[<<"tx", w>>]
        /\ Hold'[<<"tx", w>>] = Hold[<<"tx", w>>] \ {m}
        /\ Hold'[<<"pool">>] = Hold[<<"pool">>] \cup {m}
    BY <1>1, <1>3, <1>4, HoldIs
  <2>4. Moves(Place, Hold, Hold', <<"tx", w>>, <<"pool">>, {m})
    BY <2>2, <2>3, PlaceIs DEF Moves
  <2> QED BY <2>4, MoveOne, MoveAlong, EdgesAre DEF OwnInv
<1>7. InjOK'
  BY <1>1 DEF OwnInv, InjOK, FwdPkts, FwdCnt
<1> QED BY <1>3, <1>6, <1>7

\* Steps that move no packet: starting, leaving the loop, the signal.
LEMMA OwnStill ==
    ASSUME OwnInv,
           \/ \E w \in Workers : StartWorker(w) \/ QuitLoop(w)
           \/ Signal
           \/ UNCHANGED vars
    PROVE  /\ Disjoint(Place, Hold') /\ Covers(Place, Hold') /\ InjOK' /\ NoDoubleFree'
           /\ \A p \in Place : Hold'[p] = Hold[p]
<1>1. /\ UNCHANGED <<pool, rx, tx, burst, nb_rx, ops, rgx_dqd, inflight, done, twice>>
      /\ \A v \in Workers :
            pc'[v] = pc[v] \/ (/\ pc[v] \notin {"enq", "fwd"}
                               /\ pc'[v] \notin {"enq", "fwd"})
  BY DEF StartWorker, QuitLoop, Signal, Goto, AfterLoop, vars, nicVars, workerVars,
         OwnInv, TypeInv, TypeOK
<1>2. \A v \in Workers : Live(v)' = Live(v)
  BY <1>1 DEF Live, FwdPkts, FwdCnt
<1>3. Touches({})
  BY <1>1, <1>2 DEF Touches
<1>4. \A p \in Place \ {} : Hold'[p] = Hold[p]
  BY <1>3, Frame
<1>5. Disjoint(Place, Hold') /\ Covers(Place, Hold')
  BY <1>4 DEF OwnInv, Disjoint, Covers
<1>6. InjOK'
  BY <1>1 DEF OwnInv, InjOK, FwdPkts, FwdCnt
<1>7. NoDoubleFree'
  BY <1>1 DEF OwnInv, NoDoubleFree
<1> QED BY <1>4, <1>5, <1>6, <1>7

LEMMA OwnInit == Init => OwnInv
<1> SUFFICES ASSUME Init PROVE OwnInv
  OBVIOUS
<1>1. \A w \in Workers : Range(rx[w]) = {} /\ Range(done[w]) = {} /\ Live(w) = {}
  BY DEF Init, Range, Live
<1>2. /\ Hold[<<"pool">>] = Mbufs
      /\ \A p \in Place : p # <<"pool">> => Hold[p] = {}
  <2>1. \A w \in Workers : /\ Hold[<<"rx", w>>] = {} /\ Hold[<<"app", w>>] = {}
                           /\ Hold[<<"dev", w>>] = {} /\ Hold[<<"done", w>>] = {}
                           /\ Hold[<<"tx", w>>] = {}
    <3>1. \A w \in Workers : inflight[w] = {} /\ tx[w] = {}
      BY DEF Init
    <3> QED BY <1>1, <3>1, HoldIs
  <2>2. Hold[<<"pool">>] = pool /\ pool = Mbufs
    BY HoldIs DEF Init
  <2>3. \A p \in Place : p # <<"pool">> => Hold[p] = {}
    BY <2>1, PlaceIs
  <2> QED BY <2>2, <2>3
<1>3. Disjoint(Place, Hold) /\ Covers(Place, Hold)
  BY <1>2, PlaceIs DEF Disjoint, Covers
<1>4. InjOK
  BY DEF Init, InjOK, IsInjective
<1> QED BY <1>3, <1>4, TypeInit DEF OwnInv, NoDoubleFree, Init

LEMMA OwnNext == OwnInv /\ [Next]_vars => OwnInv'
<1> SUFFICES ASSUME OwnInv, [Next]_vars PROVE OwnInv'
  OBVIOUS
<1>1. TypeInv'
  BY TypeNext DEF OwnInv
<1>2. Disjoint(Place, Hold') /\ Covers(Place, Hold') /\ InjOK' /\ NoDoubleFree'
  <2>1. CASE \E w \in Workers : WorkerStep(w)
    BY <2>1, OwnStill, OwnRx, OwnEnqueue, OwnDequeue, OwnForward, OwnDrain
       DEF WorkerStep
  <2>2. CASE DeviceStep
    BY <2>2, OwnDeliver, OwnComplete, OwnTxComplete DEF DeviceStep
  <2>3. CASE Signal \/ Finished \/ UNCHANGED vars
    BY <2>3, OwnStill DEF Finished
  <2> QED BY <2>1, <2>2, <2>3 DEF Next
<1> QED BY <1>1, <1>2 DEF OwnInv, Disjoint, Covers

\* Whatever part of a burst the devices accept, in whatever order operations
\* complete and whenever the signal comes, no packet buffer is in two places.
THEOREM OwnershipExclusive == Spec => []Exclusive
<1> QED BY OwnInit, OwnNext, OwnInvImplies, PTL DEF Spec

\* ... none is freed while it is free ...
THEOREM FreedOnce == Spec => []NoDoubleFree
<1> QED BY OwnInit, OwnNext, OwnInvImplies, PTL DEF Spec

\* ... and none disappears.
THEOREM NothingLost == Spec => []NoLeak
<1> QED BY OwnInit, OwnNext, OwnInvImplies, PTL DEF Spec

----------------------------------------------------------------------------
(* The refinement: the owner of a packet is the place that holds it.       *)

\* The one place that holds m in the contents F of the places.
HolderIn(F, m) ==
    IF \E p \in Place : m \in F[p] THEN CHOOSE p \in Place : m \in F[p] ELSE <<"nowhere">>

LEMMA HolderIs ==
    ASSUME NEW F, Disjoint(Place, F), NEW m, NEW p \in Place, m \in F[p]
    PROVE  HolderIn(F, m) = p
<1>1. \A q \in Place : m \in F[q] => q = p
  BY DEF Disjoint
<1> QED BY <1>1 DEF HolderIn

LEMMA HolderOfHold ==
    ASSUME NEW m
    PROVE  Holder(m) = HolderIn(Hold, m) /\ Holder(m)' = HolderIn(Hold', m)
<1>1. /\ \A p \in Place : Hold[p] = At(p)
      /\ \A p \in Place : Hold'[p] = At(p)'
  BY DEF Hold
<1> QED BY <1>1 DEF Holder, HolderIn

Owner == [m \in Mbufs |-> Holder(m)]

\* A packet whose owner changes goes along an edge of the worker that makes the step.
LEMMA StepMoves ==
    ASSUME OwnInv, OwnInv', NEW w \in Workers, Along(w)
    PROVE  Lifecycle!Move(w)
<1>1. Disjoint(Place, Hold) /\ Covers(Place, Hold) /\ Disjoint(Place, Hold') /\ Covers(Place, Hold')
  BY DEF OwnInv, Disjoint, Covers
<1>2. ASSUME NEW m \in Mbufs
      PROVE  /\ Owner'[m] \in Place
             /\ Owner'[m] # Owner[m] => <<Owner[m], Owner'[m]>> \in Lifecycle!Edges(w)
  <2>1. PICK p \in Place : m \in Hold[p]
    BY <1>1 DEF Covers
  <2>2. PICK q \in Place : m \in Hold'[q]
    BY <1>1 DEF Covers
  <2>3. HolderIn(Hold, m) = p
    BY <1>1, <2>1, HolderIs
  <2>4. HolderIn(Hold', m) = q
    BY <1>1, <2>2, HolderIs
  <2>5. Owner[m] = p /\ Owner'[m] = q
    BY <2>3, <2>4, HolderOfHold DEF Owner
  <2> QED BY <2>1, <2>2, <2>5 DEF Along
<1>3. Place = Lifecycle!Place
  BY DEF Place, Lifecycle!Place, Lifecycle!Pool
<1>4. Owner' \in [Mbufs -> Place]
  BY <1>2 DEF Owner
<1> QED BY <1>2, <1>3, <1>4 DEF Lifecycle!Move, Owner

LEMMA StillKeeps ==
    ASSUME \A p \in Place : Hold'[p] = Hold[p]
    PROVE  Owner' = Owner
<1>1. \A m \in Mbufs : HolderIn(Hold', m) = HolderIn(Hold, m)
  BY DEF HolderIn
<1> QED BY <1>1, HolderOfHold DEF Owner

LEMMA InitOwner == Init => Lifecycle!Init
<1> SUFFICES ASSUME Init PROVE Lifecycle!Init
  OBVIOUS
<1>1. OwnInv
  BY OwnInit
<1>2. \A m \in Mbufs : m \in Hold[<<"pool">>]
  BY HoldIs DEF Init
<1>3. \A m \in Mbufs : Holder(m) = <<"pool">>
  BY <1>1, <1>2, PlaceIs, HolderIs, HolderOfHold DEF OwnInv
<1> QED BY <1>3 DEF Lifecycle!Init, Lifecycle!Pool

LEMMA NextOwner == OwnInv /\ OwnInv' /\ [Next]_vars => [Lifecycle!Next]_Owner
<1> SUFFICES ASSUME OwnInv, OwnInv', [Next]_vars PROVE [Lifecycle!Next]_Owner
  OBVIOUS
<1>1. ASSUME NEW w \in Workers,
             RxBurst(w) \/ EnqueueBurst(w) \/ DequeueBurst(w) \/ ForwardOrFree(w) \/ Drain(w)
      PROVE  Lifecycle!Move(w)
  BY <1>1, OwnRx, OwnEnqueue, OwnDequeue, OwnForward, OwnDrain, StepMoves
<1>2. ASSUME NEW w \in Workers, NEW m \in Mbufs,
             Deliver(w, m) \/ Complete(w, m) \/ TxComplete(w, m)
      PROVE  Lifecycle!Move(w)
  BY <1>2, OwnDeliver, OwnComplete, OwnTxComplete, StepMoves
<1>3. ASSUME \/ \E w \in Workers : StartWorker(w) \/ QuitLoop(w)
             \/ Signal
             \/ UNCHANGED vars
      PROVE  Owner' = Owner
  BY <1>3, OwnStill, StillKeeps
<1>4. (\E w \in Workers : Lifecycle!Move(w)) \/ Owner' = Owner
  BY <1>1, <1>2, <1>3 DEF Next, WorkerStep, DeviceStep, Finished
<1> QED BY <1>4 DEF Lifecycle!Next

\* The packet path does what MbufLifecycle allows: each packet has one owner, and what
\* changes it is a step of one worker along one edge (worker_rx_pkts and the devices).
THEOREM RefinesLifecycle == Spec => ImplementsLifecycle
<1>1. Init => OwnInv /\ Lifecycle!Init
  BY OwnInit, InitOwner
<1>2. OwnInv /\ [Next]_vars => OwnInv'
  BY OwnNext
<1>3. OwnInv /\ OwnInv' /\ [Next]_vars => [Lifecycle!Next]_Owner
  BY NextOwner
<1> QED BY <1>1, <1>2, <1>3, PTL DEF Spec, ImplementsLifecycle, Lifecycle!Spec, Owner
=============================================================================
