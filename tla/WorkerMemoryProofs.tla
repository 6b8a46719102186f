------------------------- MODULE WorkerMemoryProofs -------------------------
(***************************************************************************)
(* Proofs about WorkerMemory, for any set of workers.                      *)
(*                                                                         *)
(* A pointer that is set need not point to something that is allocated, so *)
(* the invariant says at which places of a worker it does (Held), what a   *)
(* worker that got past an allocation still has (Needed), and that what is *)
(* allocated without a pointer is only the ops and the arrays of the loop  *)
(* (Pointed).                                                              *)
(***************************************************************************)
EXTENDS WorkerMemory, TLAPS

\* The pointers other than that to the ops are valid until the worker frees at its fail
\* label, and for the main core until it has made its report.
Held(w) ==
    main = "run" /\ (pc[w] # "returned" \/ w \in published) => ptr[w] \ {"ops"} \subseteq heap[w]

\* What the statements behind an allocation rely on.
Needed(w) ==
    main = "run" =>
        /\ pc[w] = "stats" => {"ops", "op_0", "op_rest"} \subseteq heap[w]
        /\ pc[w] \in {"lcore", "arrays", "loop", "end"} /\ engine = "rgx" =>
              {"ops", "op_0", "op_rest", "stats"} \subseteq heap[w]
        /\ pc[w] = "hs_stats" => "hsc" \in heap[w]
        /\ pc[w] \in {"lcore", "arrays", "loop", "end"} /\ engine = "hs" =>
              {"hsc", "hs_stats"} \subseteq heap[w]
        /\ pc[w] \in {"arrays", "loop", "end"} => "lcore_stats" \in heap[w]
        /\ w \in published => "app_stats" \in heap[w]

\* The places before the arrays of the loop.
Initialising == {"init", "ops", "stats", "hsc", "hs_stats", "lcore", "fail"}

\* What the fail label frees is all there is but ops[1..].
Pointed(w) ==
    pc[w] \in Initialising =>
        /\ heap[w] \subseteq ptr[w] \cup {"op_0", "op_rest"}
        /\ "op_0" \in heap[w] => "ops" \in ptr[w]

\* Each engine has its own allocations, and statistics are published at the end.
Order(w) ==
    /\ pc[w] \in {"ops", "stats"} => engine = "rgx"
    /\ pc[w] \in {"hsc", "hs_stats"} => engine = "hs"
    /\ w \in published => pc[w] \in {"leave", "returned"}
    /\ pc[w] = "leave" => w \in published

\* The pointers of lcore_vars and regex_conf.
Pointers == {"ops", "stats", "hsc", "hs_stats", "lcore_stats"}

WorkerInv(w) ==
    /\ ptr[w] \subseteq Pointers
    /\ Held(w) /\ Needed(w) /\ Pointed(w) /\ Order(w)
    /\ bad[w] \subseteq DeallocOps
    /\ pc[w] = "returned" /\ w \notin published => heap[w] \subseteq {"op_rest"}

MemoryInv == TypeOK /\ \A w \in Workers : WorkerInv(w)
-----------------------------------------------------------------------------
LEMMA MemoryInit == Init => MemoryInv
BY DEF Init, MemoryInv, TypeOK, WorkerInv, Held, Needed, Pointed, Order, Pointers, Initialising

LEMMA AllocOpsMemory ==
    ASSUME MemoryInv, NEW w \in Workers, AllocOps(w)
    PROVE  MemoryInv'
<1> USE DEF AllocOps, At, Alloc, Set, Goto, Panic, DeallocOps
<1>1. TypeOK'
  BY DEF MemoryInv, TypeOK, WorkerInv, Objects, Pointers
<1>2. ASSUME NEW v \in Workers
      PROVE  WorkerInv(v)'
  <2>1. CASE v = w
    BY <2>1 DEF MemoryInv, TypeOK, WorkerInv, Held, Needed, Pointed, Order, Pointers, Initialising
  <2>2. CASE v # w
    BY <2>2 DEF MemoryInv, TypeOK, WorkerInv, Held, Needed, Pointed, Order
  <2> QED
    BY <2>1, <2>2
<1> QED
  BY <1>1, <1>2 DEF MemoryInv

LEMMA InitChecksMemory ==
    ASSUME MemoryInv, NEW w \in Workers, InitChecks(w)
    PROVE  MemoryInv'
<1> USE DEF InitChecks, At, Goto, DeallocOps
<1>1. TypeOK'
  BY DEF MemoryInv, TypeOK, WorkerInv, Objects, Pointers
<1>2. ASSUME NEW v \in Workers
      PROVE  WorkerInv(v)'
  <2>1. CASE v = w
    BY <2>1 DEF MemoryInv, TypeOK, WorkerInv, Held, Needed, Pointed, Order, Pointers, Initialising
  <2>2. CASE v # w
    BY <2>2 DEF MemoryInv, TypeOK, WorkerInv, Held, Needed, Pointed, Order
  <2> QED
    BY <2>1, <2>2
<1> QED
  BY <1>1, <1>2 DEF MemoryInv

LEMMA AllocStatsMemory ==
    ASSUME MemoryInv, NEW w \in Workers, AllocStats(w)
    PROVE  MemoryInv'
<1> USE DEF AllocStats, At, Alloc, Set, Goto, Free, DeallocOps
<1>1. TypeOK'
  BY DEF MemoryInv, TypeOK, WorkerInv, Objects, Pointers
<1>2. ASSUME NEW v \in Workers
      PROVE  WorkerInv(v)'
  <2>1. CASE v = w
    BY <2>1 DEF MemoryInv, TypeOK, WorkerInv, Held, Needed, Pointed, Order, Pointers, Initialising
  <2>2. CASE v # w
    BY <2>2 DEF MemoryInv, TypeOK, WorkerInv, Held, Needed, Pointed, Order
  <2> QED
    BY <2>1, <2>2
<1> QED
  BY <1>1, <1>2 DEF MemoryInv

LEMMA AllocHscMemory ==
    ASSUME MemoryInv, NEW w \in Workers, AllocHsc(w)
    PROVE  MemoryInv'
<1> USE DEF AllocHsc, At, Alloc, Set, Goto, DeallocOps
<1>1. TypeOK'
  BY DEF MemoryInv, TypeOK, WorkerInv, Objects, Pointers
<1>2. ASSUME NEW v \in Workers
      PROVE  WorkerInv(v)'
  <2>1. CASE v = w
    BY <2>1 DEF MemoryInv, TypeOK, WorkerInv, Held, Needed, Pointed, Order, Pointers, Initialising
  <2>2. CASE v # w
    BY <2>2 DEF MemoryInv, TypeOK, WorkerInv, Held, Needed, Pointed, Order
  <2> QED
    BY <2>1, <2>2
<1> QED
  BY <1>1, <1>2 DEF MemoryInv

LEMMA AllocHsStatsMemory ==
    ASSUME MemoryInv, NEW w \in Workers, AllocHsStats(w)
    PROVE  MemoryInv'
<1> USE DEF AllocHsStats, At, Alloc, Set, Goto, DeallocOps
<1>1. TypeOK'
  BY DEF MemoryInv, TypeOK, WorkerInv, Objects, Pointers
<1>2. ASSUME NEW v \in Workers
      PROVE  WorkerInv(v)'
  <2>1. CASE v = w
    BY <2>1 DEF MemoryInv, TypeOK, WorkerInv, Held, Needed, Pointed, Order, Pointers, Initialising
  <2>2. CASE v # w
    BY <2>2 DEF MemoryInv, TypeOK, WorkerInv, Held, Needed, Pointed, Order
  <2> QED
    BY <2>1, <2>2
<1> QED
  BY <1>1, <1>2 DEF MemoryInv

LEMMA AllocLcoreMemory ==
    ASSUME MemoryInv, NEW w \in Workers, AllocLcore(w)
    PROVE  MemoryInv'
<1> USE DEF AllocLcore, At, Alloc, Set, Goto, DeallocOps
<1>1. TypeOK'
  BY DEF MemoryInv, TypeOK, WorkerInv, Objects, Pointers
<1>2. ASSUME NEW v \in Workers
      PROVE  WorkerInv(v)'
  <2>1. CASE v = w
    BY <2>1 DEF MemoryInv, TypeOK, WorkerInv, Held, Needed, Pointed, Order, Pointers, Initialising
  <2>2. CASE v # w
    BY <2>2 DEF MemoryInv, TypeOK, WorkerInv, Held, Needed, Pointed, Order
  <2> QED
    BY <2>1, <2>2
<1> QED
  BY <1>1, <1>2 DEF MemoryInv

LEMMA FailMemory ==
    ASSUME MemoryInv, NEW w \in Workers, Fail(w)
    PROVE  MemoryInv'
<1> USE DEF Fail, At, Free, FailFrees, Goto, DeallocOps
<1>1. TypeOK'
  BY DEF MemoryInv, TypeOK, WorkerInv, Objects, Pointers
<1>2. ASSUME NEW v \in Workers
      PROVE  WorkerInv(v)'
  <2>1. CASE v = w
    BY <2>1 DEF MemoryInv, TypeOK, WorkerInv, Held, Needed, Pointed, Order, Pointers, Initialising
  <2>2. CASE v # w
    BY <2>2 DEF MemoryInv, TypeOK, WorkerInv, Held, Needed, Pointed, Order
  <2> QED
    BY <2>1, <2>2
<1> QED
  BY <1>1, <1>2 DEF MemoryInv

LEMMA AllocArraysMemory ==
    ASSUME MemoryInv, NEW w \in Workers, AllocArrays(w)
    PROVE  MemoryInv'
<1> USE DEF AllocArrays, At, Alloc, Goto, DeallocOps
<1>1. TypeOK'
  BY DEF MemoryInv, TypeOK, WorkerInv, Objects, Pointers
<1>2. ASSUME NEW v \in Workers
      PROVE  WorkerInv(v)'
  <2>1. CASE v = w
    BY <2>1 DEF MemoryInv, TypeOK, WorkerInv, Held, Needed, Pointed, Order, Pointers, Initialising
  <2>2. CASE v # w
    BY <2>2 DEF MemoryInv, TypeOK, WorkerInv, Held, Needed, Pointed, Order
  <2> QED
    BY <2>1, <2>2
<1> QED
  BY <1>1, <1>2 DEF MemoryInv

LEMMA LoopMemory ==
    ASSUME MemoryInv, NEW w \in Workers, Loop(w)
    PROVE  MemoryInv'
<1> USE DEF Loop, At, LoopReads, Goto, DeallocOps
<1>1. TypeOK'
  BY DEF MemoryInv, TypeOK, WorkerInv, Objects, Pointers
<1>2. ASSUME NEW v \in Workers
      PROVE  WorkerInv(v)'
  <2>1. CASE v = w
    BY <2>1 DEF MemoryInv, TypeOK, WorkerInv, Held, Needed, Pointed, Order, Pointers, Initialising
  <2>2. CASE v # w
    BY <2>2 DEF MemoryInv, TypeOK, WorkerInv, Held, Needed, Pointed, Order
  <2> QED
    BY <2>1, <2>2
<1> QED
  BY <1>1, <1>2 DEF MemoryInv

LEMMA PublishMemory ==
    ASSUME MemoryInv, NEW w \in Workers, Publish(w)
    PROVE  MemoryInv'
<1> USE DEF Publish, At, Alloc, DrainReads, Goto, Panic, DeallocOps
<1>1. TypeOK'
  BY DEF MemoryInv, TypeOK, WorkerInv, Objects, Pointers
<1>2. ASSUME NEW v \in Workers
      PROVE  WorkerInv(v)'
  <2>1. CASE v = w
    BY <2>1 DEF MemoryInv, TypeOK, WorkerInv, Held, Needed, Pointed, Order, Pointers, Initialising
  <2>2. CASE v # w
    BY <2>2 DEF MemoryInv, TypeOK, WorkerInv, Held, Needed, Pointed, Order
  <2> QED
    BY <2>1, <2>2
<1> QED
  BY <1>1, <1>2 DEF MemoryInv

LEMMA LeaveMemory ==
    ASSUME MemoryInv, NEW w \in Workers, Leave(w)
    PROVE  MemoryInv'
<1> USE DEF Leave, At, Free, Goto, DeallocOps
<1>1. TypeOK'
  BY DEF MemoryInv, TypeOK, WorkerInv, Objects, Pointers
<1>2. ASSUME NEW v \in Workers
      PROVE  WorkerInv(v)'
  <2>1. CASE v = w
    BY <2>1 DEF MemoryInv, TypeOK, WorkerInv, Held, Needed, Pointed, Order, Pointers, Initialising
  <2>2. CASE v # w
    BY <2>2 DEF MemoryInv, TypeOK, WorkerInv, Held, Needed, Pointed, Order
  <2> QED
    BY <2>1, <2>2
<1> QED
  BY <1>1, <1>2 DEF MemoryInv

LEMMA DumpMemory ==
    ASSUME MemoryInv, Dump
    PROVE  MemoryInv'
<1>1. TypeOK'
  BY DEF Dump, MemoryInv, TypeOK, Objects
<1>2. ASSUME NEW v \in Workers
      PROVE  WorkerInv(v)'
  BY DEF Dump, MemoryInv, TypeOK, WorkerInv, Held, Needed, Pointed, Order, Pointers, Initialising
<1> QED
  BY <1>1, <1>2 DEF MemoryInv

LEMMA MemoryStep == MemoryInv /\ [Next]_vars => MemoryInv'
<1> SUFFICES ASSUME MemoryInv, [Next]_vars
             PROVE  MemoryInv'
  OBVIOUS
<1>1. CASE \E w \in Workers : WorkerStep(w)
  BY <1>1, AllocOpsMemory, InitChecksMemory, AllocStatsMemory, AllocHscMemory, AllocHsStatsMemory, AllocLcoreMemory, FailMemory, AllocArraysMemory, LoopMemory, PublishMemory, LeaveMemory DEF WorkerStep
<1>2. CASE Dump
  BY <1>2, DumpMemory
<1>3. CASE Ended \/ UNCHANGED vars
  BY <1>3 DEF Ended, vars, MemoryInv, TypeOK, WorkerInv, Held, Needed, Pointed, Order
<1> QED
  BY <1>1, <1>2, <1>3 DEF Next

LEMMA MemoryInvariant == Spec => []MemoryInv
BY MemoryInit, MemoryStep, PTL DEF Spec

\* The objects of the workers are those the code allocates.
THEOREM MemoryTypes == Spec => []TypeOK
<1>1. MemoryInv => TypeOK
  BY DEF MemoryInv
<1> QED
  BY <1>1, MemoryInvariant, PTL

\* However the workers fail or finish, the report reads statistics that are there, and
\* nothing but the ops is freed twice (worker_init, worker_run, app_stats_dump).
THEOREM ReportReadsLiveStats == Spec => []StatsOutliveReaders
<1>1. MemoryInv => StatsOutliveReaders
  BY DEF MemoryInv, WorkerInv, StatsOutliveReaders
<1> QED
  BY <1>1, MemoryInvariant, PTL

\* A worker whose initialisation failed leaves nothing but ops[1..] (the fail label).
THEOREM FailureReleases == Spec => []FailReleases
<1>1. MemoryInv => FailReleases
  BY DEF MemoryInv, WorkerInv, FailReleases
<1> QED
  BY <1>1, MemoryInvariant, PTL
=============================================================================
