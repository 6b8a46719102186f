---------------------------- MODULE RegexWorker ----------------------------
(***************************************************************************)
(* The packet path of regex-test.c: worker_run / worker_rx_pkts, one       *)
(* polling thread per lcore.  A worker owns one receive queue of the port, *)
(* one queue pair of the regex device and one transmit queue; all workers  *)
(* share one mbuf pool.  What can go wrong is ownership: a packet buffer   *)
(* is a pointer copied from array to array (pkts_burst, ops[i]->user_ptr,  *)
(* the descriptors of two devices), nothing ever clears an array, and the  *)
(* same ops array is used to submit and to collect.  So the arrays are     *)
(* modelled as the C arrays they are, stale entries included, and "who     *)
(* holds the packet" is derived from the counters, never stored.           *)
(*                                                                         *)
(* One action is one call on a shared object with the local work before    *)
(* and after it.  The NIC, the regex device and the signal are actions of  *)
(* their own, so they interleave with every step.                          *)
(*                                                                         *)
(* Abstracted: packet contents, the MAC swap, group selection, statistics  *)
(* (module BurstStats), and the collector array, which receives the        *)
(* user_ptrs of ops and is passed on in the same iteration: the model      *)
(* passes ops on directly.                                                 *)
(***************************************************************************)
EXTENDS Naturals, Sequences, FiniteSets, Functions

CONSTANTS
    Workers,     \* the worker lcores (nb_worker_cores of them)
    Mbufs,       \* the packet buffers of the pool
    NULL,        \* the NULL pointer
    BurstSize,   \* port_burst_size
    RxDesc,      \* port_rx_descriptors: capacity of a receive queue
    TxDesc,      \* port_tx_descriptors: capacity of a transmit queue
    NbDesc,      \* rgx_descriptors: capacity of a regex queue pair
    Engine,      \* "rgx", "hs" or "none": lv->rgxc, lv->hsc or neither is set
    FwdMode      \* forwarding_mode

ASSUME NullAssumption   == NULL \notin Mbufs
ASSUME BurstAssumption  == BurstSize \in Nat \ {0}
ASSUME DescAssumption   == RxDesc \in Nat /\ TxDesc \in Nat /\ NbDesc \in Nat
ASSUME EngineAssumption == Engine \in {"rgx", "hs", "none"}
ASSUME FwdAssumption    == FwdMode \in {0, 1, 2}

VARIABLES
    pool,        \* mbufs the mempool can hand out
    rx,          \* rx[w]: receive queue, in arrival order
    burst,       \* burst[w]: the array pkts_burst
    nb_rx,       \* nb_rx[w]: how many entries of burst the last receive filled
    ops,         \* ops[w][i]: ops[i]->user_ptr
    rgx_dqd,     \* rgx_dqd[w]: how many entries of ops the last dequeue filled
    inflight,    \* inflight[w]: packets the regex device is working on
    done,        \* done[w]: completed operations, in completion order
    tx,          \* tx[w]: packets in the transmit queue
    pc,          \* pc[w]: where the worker is
    force_quit,  \* the flag signal_handler sets
    twice        \* history: packets freed while they were already free

nicVars    == <<rx, tx>>
workerVars == <<burst, nb_rx, ops, rgx_dqd>>
vars == <<pool, rx, burst, nb_rx, ops, rgx_dqd, inflight, done, tx, pc,
          force_quit, twice>>

Slots == 1 .. BurstSize
Least(a, b) == IF a <= b THEN a ELSE b

\* The pointers in positions lo..hi of an array or sequence.
Ptrs(a, lo, hi) == {a[i] : i \in lo .. hi}

\* Overwrites the first n entries of the array a; the rest keeps what it held.
Fill(a, s, n) == [i \in Slots |-> IF i <= n THEN s[i] ELSE a[i]]

\* Removes the first n elements of a queue.
Drop(s, n) == SubSeq(s, n + 1, Len(s))

----------------------------------------------------------------------------
Init ==
    /\ pool = Mbufs
    /\ rx = [w \in Workers |-> <<>>]
    /\ burst = [w \in Workers |-> [i \in Slots |-> NULL]]
    /\ nb_rx = [w \in Workers |-> 0]
    /\ ops = [w \in Workers |-> [i \in Slots |-> NULL]]
    /\ rgx_dqd = [w \in Workers |-> 0]
    /\ inflight = [w \in Workers |-> {}]
    /\ done = [w \in Workers |-> <<>>]
    /\ tx = [w \in Workers |-> {}]
    /\ pc = [w \in Workers |-> "start"]
    /\ force_quit = FALSE
    /\ twice = {}

Goto(w, label) == pc' = [pc EXCEPT ![w] = label]

\* rte_pktmbuf_free_bulk(&a[lo], hi - lo + 1): the pointers go back to the pool.
FreeBulk(a, lo, hi) ==
    LET freed == Ptrs(a, lo, hi)
    IN  /\ pool' = pool \cup freed
        /\ twice' = twice \cup (freed \cap pool)

----------------------------------------------------------------------------
(* worker_run up to the polling loop.  worker_init may fail: the worker    *)
(* returns and its queue is never polled.  The two callocs at the top of   *)
(* worker_rx_pkts may fail: the worker goes straight to its end label.     *)

AfterLoop == IF Engine = "rgx" THEN "drain" ELSE "done"

StartWorker(w) ==
    /\ pc[w] = "start"
    /\ \/ Goto(w, "rx")
       \/ Goto(w, AfterLoop)
       \/ Goto(w, "failed")
    /\ UNCHANGED <<pool, nicVars, workerVars, inflight, done, force_quit, twice>>

\* while (!force_quit) with rte_eth_rx_burst of n packets; the worker goes on
\* at idle when there were none.
ReceiveN(w, n, idle) ==
    /\ pc[w] = "rx"
    /\ ~force_quit
    /\ burst' = [burst EXCEPT ![w] = Fill(@, rx[w], n)]
    /\ nb_rx' = [nb_rx EXCEPT ![w] = n]
    /\ rx' = [rx EXCEPT ![w] = Drop(@, n)]
    /\ Goto(w, IF n = 0 THEN idle ELSE IF Engine = "rgx" THEN "enq" ELSE "fwd")
    /\ UNCHANGED <<pool, ops, rgx_dqd, inflight, done, tx, force_quit, twice>>

\* Plausible bug: collecting only in the iterations that received something.
RxSkipsCollect(w) == ReceiveN(w, Least(BurstSize, Len(rx[w])), "rx")

\* At most BurstSize packets; without any, the regex worker still collects.
RxBurst(w) ==
    ReceiveN(w, Least(BurstSize, Len(rx[w])), IF Engine = "rgx" THEN "deq" ELSE "rx")

\* Descriptors of the queue pair that are taken: submitted and not collected.
Outstanding(w) == Cardinality(inflight[w]) + Len(done[w])

\* Fill one op per received packet and rte_regexdev_enqueue_burst: the device
\* takes the first k of them, as many as it likes and has descriptors for.
SubmitN(w, k) ==
    /\ pc[w] = "enq"
    /\ k + Outstanding(w) <= NbDesc
    /\ ops' = [ops EXCEPT ![w] = Fill(@, burst[w], nb_rx[w])]
    /\ inflight' = [inflight EXCEPT ![w] = @ \cup Ptrs(burst[w], 1, k)]
    /\ Goto(w, "deq")
    /\ UNCHANGED <<nicVars, burst, nb_rx, rgx_dqd, done, force_quit>>

\* Plausible bugs: after a partial enqueue, freeing up to the end of the array,
\* the whole burst, or nothing.
EnqueueFreesArray(w) ==
    \E k \in 0 .. nb_rx[w] : SubmitN(w, k) /\ FreeBulk(burst[w], k + 1, BurstSize)
EnqueueFreesAll(w) ==
    \E k \in 0 .. nb_rx[w] :
        SubmitN(w, k) /\ (IF k < nb_rx[w] THEN FreeBulk(burst[w], 1, nb_rx[w])
                                         ELSE UNCHANGED <<pool, twice>>)
EnqueueForgetsRejected(w) ==
    \E k \in 0 .. nb_rx[w] : SubmitN(w, k) /\ UNCHANGED <<pool, twice>>

\* The packets the device rejected are freed.
EnqueueBurst(w) ==
    \E k \in 0 .. nb_rx[w] : SubmitN(w, k) /\ FreeBulk(burst[w], k + 1, nb_rx[w])

\* rte_regexdev_dequeue_burst of n into the same ops: the device overwrites the
\* user_ptr of the first n, the others are what the enqueue left.
CollectN(w, n) ==
    /\ ops' = [ops EXCEPT ![w] = Fill(@, done[w], n)]
    /\ done' = [done EXCEPT ![w] = Drop(@, n)]
    /\ rgx_dqd' = [rgx_dqd EXCEPT ![w] = n]
    /\ UNCHANGED <<nicVars, burst, nb_rx, inflight, force_quit>>

\* Plausible bugs: using what the enqueue left in ops; waiting in the loop until
\* there is something to collect.
DequeueKeepsOps(w) ==
    LET n == Least(BurstSize, Len(done[w]))
    IN  /\ pc[w] = "deq"
        /\ done' = [done EXCEPT ![w] = Drop(@, n)]
        /\ rgx_dqd' = [rgx_dqd EXCEPT ![w] = n]
        /\ Goto(w, IF n > 0 THEN "fwd" ELSE "rx")
        /\ UNCHANGED <<pool, nicVars, burst, nb_rx, ops, inflight, force_quit, twice>>
DequeueWaits(w) ==
    /\ pc[w] = "deq"
    /\ Len(done[w]) > 0
    /\ CollectN(w, Least(BurstSize, Len(done[w])))
    /\ Goto(w, "fwd")
    /\ UNCHANGED <<pool, twice>>

\* One collect in every iteration of the loop.
DequeueBurst(w) ==
    LET n == Least(BurstSize, Len(done[w]))
    IN  /\ pc[w] = "deq"
        /\ CollectN(w, n)
        /\ Goto(w, IF n > 0 THEN "fwd" ELSE "rx")
        /\ UNCHANGED <<pool, twice>>

\* What the worker passes on: the collected operations with the regex device,
\* the received burst without it (Hyperscan scans in place).
FwdPkts(w) == IF Engine = "rgx" THEN ops[w] ELSE burst[w]
FwdCnt(w)  == IF Engine = "rgx" THEN rgx_dqd[w] ELSE nb_rx[w]

\* rte_eth_tx_burst takes the first k.  Mode 0 does not transmit; the port of
\* mode 2 is not one that init_port starts, so its queue takes nothing.
TransmitN(w, k) ==
    /\ pc[w] = "fwd"
    /\ k > 0 => FwdMode = 1 /\ k + Cardinality(tx[w]) <= TxDesc
    /\ tx' = [tx EXCEPT ![w] = @ \cup Ptrs(FwdPkts(w), 1, k)]
    /\ Goto(w, "rx")
    /\ UNCHANGED <<rx, workerVars, inflight, done, force_quit>>

\* forward_or_free_pkts: what is not transmitted is freed.
ForwardOrFree(w) ==
    \E k \in 0 .. FwdCnt(w) :
        TransmitN(w, k) /\ FreeBulk(FwdPkts(w), k + 1, FwdCnt(w))

QuitLoop(w) ==
    /\ pc[w] = "rx"
    /\ force_quit
    /\ Goto(w, AfterLoop)
    /\ UNCHANGED <<pool, nicVars, workerVars, inflight, done, force_quit, twice>>

\* Plausible bug: a drain that collects and never frees.
DrainForgets(w) ==
    LET n == Least(BurstSize, Len(done[w]))
    IN  /\ pc[w] = "drain"
        /\ CollectN(w, n)
        /\ Goto(w, IF n > 0 THEN "drain" ELSE "done")
        /\ UNCHANGED <<pool, twice>>

\* The end label: collect and free until a collect returns nothing.
Drain(w) ==
    LET n == Least(BurstSize, Len(done[w]))
    IN  /\ pc[w] = "drain"
        /\ CollectN(w, n)
        /\ FreeBulk(done[w], 1, n)
        /\ Goto(w, IF n > 0 THEN "drain" ELSE "done")

----------------------------------------------------------------------------
(* The devices and the signal.                                             *)

\* The NIC takes a buffer from the pool and puts a packet in queue w.
Deliver(w, m) ==
    /\ m \in pool
    /\ Len(rx[w]) < RxDesc
    /\ pool' = pool \ {m}
    /\ rx' = [rx EXCEPT ![w] = Append(@, m)]
    /\ UNCHANGED <<workerVars, inflight, done, tx, pc, force_quit, twice>>

\* The regex device finishes an operation; queue pairs may be out of order.
Complete(w, m) ==
    /\ m \in inflight[w]
    /\ inflight' = [inflight EXCEPT ![w] = @ \ {m}]
    /\ done' = [done EXCEPT ![w] = Append(@, m)]
    /\ UNCHANGED <<pool, nicVars, workerVars, pc, force_quit, twice>>

\* The NIC has sent the packet and frees it.
TxComplete(w, m) ==
    /\ m \in tx[w]
    /\ tx' = [tx EXCEPT ![w] = @ \ {m}]
    /\ FreeBulk(<<m>>, 1, 1)
    /\ UNCHANGED <<rx, workerVars, inflight, done, pc, force_quit>>

\* signal_handler
Signal ==
    /\ ~force_quit
    /\ force_quit' = TRUE
    /\ UNCHANGED <<pool, nicVars, workerVars, inflight, done, pc, twice>>

----------------------------------------------------------------------------
WorkerStep(w) ==
    \/ StartWorker(w)
    \/ RxBurst(w)
    \/ EnqueueBurst(w)
    \/ DequeueBurst(w)
    \/ ForwardOrFree(w)
    \/ QuitLoop(w)
    \/ Drain(w)

DeviceStep ==
    \E w \in Workers, m \in Mbufs :
        Deliver(w, m) \/ Complete(w, m) \/ TxComplete(w, m)

\* The program has ended: no worker has anything left to do.
Finished ==
    /\ \A w \in Workers : pc[w] \in {"done", "failed"}
    /\ UNCHANGED vars

Next == (\E w \in Workers : WorkerStep(w)) \/ DeviceStep \/ Signal \/ Finished

Spec == Init /\ [][Next]_vars

\* A worker is a busy loop on a core of its own, and both devices finish what
\* they accepted.  Packets need not arrive and the signal need not come.
Fairness ==
    /\ \A w \in Workers : WF_vars(WorkerStep(w))
    /\ \A w \in Workers, m \in Mbufs :
          WF_vars(Complete(w, m)) /\ WF_vars(TxComplete(w, m))

FairSpec == Spec /\ Fairness

----------------------------------------------------------------------------
(* Who holds a packet.                                                     *)

Place == {<<"pool">>} \cup ({"rx", "app", "dev", "done", "tx"} \X Workers)

\* The packets the worker's own arrays hold: the live part of one array.
Live(w) ==
    CASE pc[w] = "enq" -> Ptrs(burst[w], 1, nb_rx[w])
      [] pc[w] = "fwd" -> Ptrs(FwdPkts(w), 1, FwdCnt(w))
      [] OTHER         -> {}

At(p) ==
    CASE p = <<"pool">>  -> pool
      [] p[1] = "rx"     -> Range(rx[p[2]])
      [] p[1] = "app"    -> Live(p[2])
      [] p[1] = "dev"    -> inflight[p[2]]
      [] p[1] = "done"   -> Range(done[p[2]])
      [] p[1] = "tx"     -> tx[p[2]]

\* Type invariant: every pointer that is used is a buffer, and every count
\* stays inside the array it indexes.
TypeOK ==
    /\ pool \subseteq Mbufs
    /\ rx \in [Workers -> Seq(Mbufs)]
    /\ burst \in [Workers -> [Slots -> Mbufs \cup {NULL}]]
    /\ nb_rx \in [Workers -> 0 .. BurstSize]
    /\ ops \in [Workers -> [Slots -> Mbufs \cup {NULL}]]
    /\ rgx_dqd \in [Workers -> 0 .. BurstSize]
    /\ inflight \in [Workers -> SUBSET Mbufs]
    /\ done \in [Workers -> Seq(Mbufs)]
    /\ tx \in [Workers -> SUBSET Mbufs]
    /\ pc \in [Workers -> {"start", "rx", "enq", "deq", "fwd", "drain",
                            "done", "failed"}]
    /\ force_quit \in BOOLEAN
    /\ twice \subseteq Mbufs

\* No packet is in two places, or twice in one: a buffer the regex device or
\* the NIC still works on is in no other queue, in no live array entry and not
\* in the pool.  Threatened by the partial enqueue and transmit
\* (regex-test.c:575-583, 735-742) and by the stale entries of ops.
Exclusive ==
    /\ \A p, q \in Place : p # q => At(p) \cap At(q) = {}
    /\ \A w \in Workers :
          /\ IsInjective(rx[w])
          /\ IsInjective(done[w])
          /\ pc[w] = "enq" =>
                \A i, j \in 1 .. nb_rx[w] : burst[w][i] = burst[w][j] => i = j
          /\ pc[w] = "fwd" =>
                \A i, j \in 1 .. FwdCnt(w) : FwdPkts(w)[i] = FwdPkts(w)[j] => i = j

\* No packet is given back to the pool while it is there already.
NoDoubleFree == twice = {}

\* No packet is lost: whatever was rejected, dropped or drained, each buffer is
\* in the pool or in a place that will pass it on.
NoLeak == \A m \in Mbufs : \E p \in Place : m \in At(p)

\* The place that holds m; NoLeak says there is one, Exclusive that it is unique.
Holder(m) ==
    IF \E p \in Place : m \in At(p)
    THEN CHOOSE p \in Place : m \in At(p)
    ELSE <<"nowhere">>
Lifecycle == INSTANCE MbufLifecycle WITH owner <- [m \in Mbufs |-> Holder(m)]

\* The packet path implements MbufLifecycle: the owner of a packet is the place
\* that holds it, and every step moves packets along an edge of one worker.
ImplementsLifecycle == Lifecycle!Spec

\* A packet in the queue of a polling worker is picked up or the program is
\* told to stop; a failed worker polls nothing.
Polling(w) == pc[w] \in {"rx", "enq", "deq", "fwd"}
Served ==
    \A w \in Workers, m \in Mbufs :
        Polling(w) /\ m \in Range(rx[w]) ~> m \notin Range(rx[w]) \/ force_quit

\* A packet given to the regex device is freed or transmitted, unless the
\* program is told to stop meanwhile: collecting runs in every iteration of the
\* loop, whether or not packets arrive (regex-test.c:756).
Returned ==
    \A w \in Workers, m \in Mbufs :
        m \in inflight[w] ~> m \in pool \cup tx[w] \/ force_quit

\* Once the signal has come every worker leaves its loop and its drain, so that
\* rte_eal_mp_wait_lcore returns (regex-test.c:1330).
Terminates ==
    force_quit ~> \A w \in Workers : pc[w] \in {"done", "failed"}

\* An empty pool fills again while the program runs: the NIC is not starved by
\* packets held by the application.
PoolRefills == pool = {} ~> pool # {} \/ force_quit
=============================================================================
