---------------------------- MODULE WorkerMemory ----------------------------
(***************************************************************************)
(* The heap objects of a worker of regex-test.c: what worker_init          *)
(* allocates and its fail label frees, what worker_rx_pkts adds, what      *)
(* worker_run and app_stats_dump free.  Every rte_calloc may fail; some    *)
(* failures are handled, some end the program (rte_panic).                 *)
(*                                                                         *)
(* A pointer that is not NULL need not point to a live object: ptr[w] is   *)
(* the set of pointers that are set, heap[w] the set of live objects.      *)
(*                                                                         *)
(* Abstracted: the arrays' contents; ops[1..] are one object "op_rest".    *)
(***************************************************************************)
EXTENDS FiniteSets

CONSTANT Workers

VARIABLES
    engine,     \* "rgx", "hs" or "none": what the arguments enable, at most one
    heap,       \* heap[w]: the live objects of worker w
    ptr,        \* ptr[w]: the pointers of lcore_vars and regex_conf that are set
    bad,        \* history: bad[w]: objects freed or read while not live
    published,  \* the workers whose sv->stats entry is set
    pc,         \* pc[w]
    main        \* "run", "dumped" or "panic"

vars == <<engine, heap, ptr, bad, published, pc, main>>

Objects == {"ops", "op_0", "op_rest", "stats", "hsc", "hs_stats", "lcore_stats",
            "pkts_burst", "collector", "app_stats"}

Init ==
    /\ engine \in {"rgx", "hs", "none"}
    /\ heap = [w \in Workers |-> {}]
    /\ ptr = [w \in Workers |-> {}]
    /\ bad = [w \in Workers |-> {}]
    /\ published = {}
    /\ pc = [w \in Workers |-> "init"]
    /\ main = "run"

Goto(w, label) == pc' = [pc EXCEPT ![w] = label]

Alloc(w, objs) == heap' = [heap EXCEPT ![w] = @ \cup objs]

\* rte_free of the objects objs of worker w.
Free(w, objs) ==
    /\ heap' = [heap EXCEPT ![w] = @ \ objs]
    /\ bad' = [bad EXCEPT ![w] = @ \cup (objs \ heap[w])]

Set(w, p) == ptr' = [ptr EXCEPT ![w] = @ \cup {p}]

\* regexdev_deallocate_ops frees the array and its first element, and clears
\* its own parameter only: the caller's pointer stays set.
DeallocOps == {"ops", "op_0"}

\* rte_panic
Panic(w) == main' = "panic" /\ UNCHANGED <<heap, ptr, bad, published, pc, engine>>

At(w, label) == main = "run" /\ pc[w] = label

----------------------------------------------------------------------------
(* worker_init                                                             *)

\* The selftest of queue pair 0 and rte_regexdev_info_get.
InitChecks(w) ==
    /\ At(w, "init")
    /\ \/ engine = "rgx" /\ (Goto(w, "ops") \/ Goto(w, "fail"))
       \/ engine # "rgx" /\ Goto(w, IF engine = "hs" THEN "hsc" ELSE "lcore")
    /\ UNCHANGED <<heap, ptr, bad, published, main, engine>>

\* regexdev_allocate_ops: the array, then every op on its own.
AllocOps(w) ==
    /\ At(w, "ops")
    /\ \/ /\ Alloc(w, {"ops", "op_0", "op_rest"})
          /\ Set(w, "ops")
          /\ Goto(w, "stats")
          /\ UNCHANGED <<bad, published, main, engine>>
       \/ Goto(w, "fail") /\ UNCHANGED <<heap, ptr, bad, published, main, engine>>
       \/ Panic(w)

\* The histogram; when that fails the ops are deallocated here.
AllocStats(w) ==
    /\ At(w, "stats")
    /\ \/ /\ Alloc(w, {"stats"}) /\ Set(w, "stats") /\ Goto(w, "lcore")
          /\ UNCHANGED bad
       \/ /\ Free(w, DeallocOps) /\ Goto(w, "fail")
          /\ UNCHANGED ptr
    /\ UNCHANGED <<published, main, engine>>

AllocHsc(w) ==
    /\ At(w, "hsc")
    /\ \/ Alloc(w, {"hsc"}) /\ Set(w, "hsc") /\ Goto(w, "hs_stats")
       \/ Goto(w, "fail") /\ UNCHANGED <<heap, ptr>>
    /\ UNCHANGED <<bad, published, main, engine>>

AllocHsStats(w) ==
    /\ At(w, "hs_stats")
    /\ \/ Alloc(w, {"hs_stats"}) /\ Set(w, "hs_stats") /\ Goto(w, "lcore")
       \/ Goto(w, "fail") /\ UNCHANGED <<heap, ptr>>
    /\ UNCHANGED <<bad, published, main, engine>>

AllocLcore(w) ==
    /\ At(w, "lcore")
    /\ \/ Alloc(w, {"lcore_stats"}) /\ Set(w, "lcore_stats") /\ Goto(w, "arrays")
       \/ Goto(w, "fail") /\ UNCHANGED <<heap, ptr>>
    /\ UNCHANGED <<bad, published, main, engine>>

\* What the fail label frees: every object whose pointer is set.
FailFrees(w) == (ptr[w] \ {"ops"}) \cup (IF "ops" \in ptr[w] THEN DeallocOps ELSE {})

\* Plausible bug: the scan context is freed and its statistics are not.
FailForgetsHsStats(w) ==
    /\ At(w, "fail")
    /\ Free(w, FailFrees(w) \ {"hs_stats"})
    /\ Goto(w, "returned")
    /\ UNCHANGED <<ptr, published, main, engine>>

\* Plausible bug: rgxc, an element of the array of main, is freed like hsc.
FailFreesConf(w) ==
    /\ At(w, "fail")
    /\ Free(w, FailFrees(w) \cup {"rgxc"})
    /\ Goto(w, "returned")
    /\ UNCHANGED <<ptr, published, main, engine>>

\* The fail label; worker_run returns -1 and publishes nothing.
Fail(w) ==
    /\ At(w, "fail")
    /\ Free(w, FailFrees(w))
    /\ Goto(w, "returned")
    /\ UNCHANGED <<ptr, published, main, engine>>

----------------------------------------------------------------------------
(* worker_rx_pkts and the end of worker_run                                *)

\* The two arrays.  Without them the loop is skipped; the statistics are
\* returned all the same.
AllocArrays(w) ==
    /\ At(w, "arrays")
    /\ \/ Alloc(w, {"pkts_burst", "collector"}) /\ Goto(w, "loop")
       \/ Goto(w, "end") /\ UNCHANGED heap
    /\ UNCHANGED <<ptr, bad, published, main, engine>>

\* What the loop touches in every iteration, and what the drain does.
LoopReads  == IF engine = "rgx" THEN {"ops", "op_0", "op_rest", "stats", "lcore_stats"}
              ELSE IF engine = "hs" THEN {"hsc", "hs_stats", "lcore_stats"}
              ELSE {"lcore_stats"}
DrainReads == IF engine = "rgx" THEN {"ops", "op_0", "op_rest"} ELSE {}

Loop(w) ==
    /\ At(w, "loop")
    /\ bad' = [bad EXCEPT ![w] = @ \cup (LoopReads \ heap[w])]
    /\ Goto(w, "end")
    /\ UNCHANGED <<heap, ptr, published, main, engine>>

\* The end label: the drain, then the app_stats with the pointers to the
\* statistics, stored in sv->stats.
Publish(w) ==
    /\ At(w, "end")
    /\ \/ /\ Alloc(w, {"app_stats"})
          /\ published' = published \cup {w}
          /\ bad' = [bad EXCEPT ![w] = @ \cup (DrainReads \ heap[w])]
          /\ Goto(w, "leave")
          /\ UNCHANGED <<ptr, main, engine>>
       \/ Panic(w)

\* Plausible bugs: worker_run frees the statistics it has published.
LeaveFreesStats(w) ==
    /\ At(w, "leave")
    /\ Free(w, {"stats", "hs_stats"} \cap ptr[w])
    /\ Goto(w, "returned")
    /\ UNCHANGED <<ptr, published, main, engine>>

\* worker_run deallocates the ops and returns.
Leave(w) ==
    /\ At(w, "leave")
    /\ Free(w, IF "ops" \in ptr[w] THEN DeallocOps ELSE {})
    /\ Goto(w, "returned")
    /\ UNCHANGED <<ptr, published, main, engine>>

----------------------------------------------------------------------------
\* app_stats_dump, when every worker has returned: reads what the published
\* app_stats point to, then frees the scan and the lcore statistics.
Dump ==
    LET Reads(w) == {"app_stats"} \cup
                    (ptr[w] \cap {"stats", "hs_stats", "lcore_stats"})
        Frees(w) == ptr[w] \cap {"hs_stats", "lcore_stats"}
    IN  /\ main = "run"
        /\ \A w \in Workers : pc[w] = "returned"
        /\ bad' = [w \in Workers |->
              IF w \in published THEN bad[w] \cup (Reads(w) \ heap[w]) ELSE bad[w]]
        /\ heap' = [w \in Workers |->
              IF w \in published THEN heap[w] \ Frees(w) ELSE heap[w]]
        /\ main' = "dumped"
        /\ UNCHANGED <<ptr, published, pc, engine>>

Ended == main # "run" /\ UNCHANGED vars

WorkerStep(w) ==
    \/ InitChecks(w) \/ AllocOps(w) \/ AllocStats(w) \/ AllocHsc(w) \/ AllocHsStats(w)
    \/ AllocLcore(w) \/ Fail(w) \/ AllocArrays(w) \/ Loop(w) \/ Publish(w) \/ Leave(w)

Next == (\E w \in Workers : WorkerStep(w)) \/ Dump \/ Ended

Spec == Init /\ [][Next]_vars

----------------------------------------------------------------------------
\* Type invariant; bad in particular only ever holds objects of the worker, so
\* that nothing else is passed to rte_free.
TypeOK ==
    /\ engine \in {"rgx", "hs", "none"}
    /\ heap \in [Workers -> SUBSET Objects]
    /\ ptr \in [Workers -> SUBSET Objects]
    /\ bad \in [Workers -> SUBSET Objects]
    /\ published \subseteq Workers
    /\ pc \in [Workers -> {"init", "ops", "stats", "hsc", "hs_stats", "lcore",
                           "fail", "arrays", "loop", "end", "leave", "returned"}]
    /\ main \in {"run", "dumped", "panic"}

\* However the workers fail or finish, nothing is read or freed after it was
\* freed, the ops of a worker without a histogram excepted: in particular
\* app_stats_dump reads statistics that are still there.
StatsOutliveReaders == \A w \in Workers : bad[w] \subseteq DeallocOps

\* A worker whose initialisation failed leaves nothing behind but ops[1..].
FailReleases ==
    \A w \in Workers :
        pc[w] = "returned" /\ w \notin published => heap[w] \subseteq {"op_rest"}
=============================================================================
