---------------------------- MODULE AppLifecycle ----------------------------
(***************************************************************************)
(* main of regex-test.c and its workers: launch, queue assignment, the     *)
(* port counters every worker resets, the signal, the join, the report     *)
(* and the order in which the devices and the pool are taken down.         *)
(*                                                                         *)
(* Abstracted: packets are counted, the regex device answers at once (see  *)
(* RegexWorker for both), memory is that of WorkerMemory.                  *)
(***************************************************************************)
EXTENDS Naturals, FiniteSets, Functions

CONSTANTS
    Workers,     \* the worker lcores; the port has as many queues
    RxDesc,      \* capacity of a receive queue
    MaxPkts,     \* bound: packets that arrive
    NONE         \* no queue, no value

ASSUME CountAssumption == IsFiniteSet(Workers) /\ Workers # {} /\ {RxDesc, MaxPkts} \subseteq Nat
ASSUME NoneAssumption  == NONE \notin Nat

VARIABLES
    main,        \* where main is
    pc,          \* pc[w]: where worker w is
    wq_id,       \* the shared counter of assigned queues
    qid,         \* qid[w]: the queue worker w took
    backlog,     \* backlog[q]: packets waiting in receive queue q
    arrived,     \* history: packets the port has received
    rx_good,     \* the port's counter rx_good_packets
    processed,   \* processed[w]: packets worker w has received and scanned
    printed,     \* the value of rx_good in the report
    statsOf,     \* sv.stats: statsOf[q], the packets a worker published
    reported,    \* what app_stats_dump adds up
    up,          \* the parts that are running
    force_quit

workerVars == <<wq_id, qid, processed, printed, statsOf>>
vars == <<main, pc, workerVars, backlog, arrived, rx_good, reported, up, force_quit>>

NbQueues == Cardinality(Workers)
Queues   == 0 .. NbQueues - 1
Parts    == {"regexdev", "port", "pool"}

\* The port is started before the workers are launched.
Init ==
    /\ main = "launch"
    /\ pc = [w \in Workers |-> "off"]
    /\ wq_id = 0
    /\ qid = [w \in Workers |-> NONE]
    /\ backlog = [q \in Queues |-> 0]
    /\ arrived = 0
    /\ rx_good = 0
    /\ processed = [w \in Workers |-> 0]
    /\ printed = NONE
    /\ statsOf = [q \in Queues |-> NONE]
    /\ reported = NONE
    /\ up = Parts
    /\ force_quit = FALSE

Goto(w, label) == pc' = [pc EXCEPT ![w] = label]

----------------------------------------------------------------------------
(* A worker.                                                               *)

\* Plausible bug: the counter is read and written back, so that a worker may
\* see the value from before the other's update.
TakeQueueRacy(w) ==
    /\ pc[w] = "take"
    /\ \E seen \in {wq_id} \cup {q \in Queues : q + 1 = wq_id} :
          /\ wq_id' = seen + 1
          /\ qid' = [qid EXCEPT ![w] = seen]
    /\ Goto(w, "init")
    /\ UNCHANGED <<main, processed, printed, statsOf, backlog, arrived, rx_good,
                   reported, up, force_quit>>

\* Plausible bug: the value after the increment, not the one before it.
TakeQueueAfter(w) ==
    /\ pc[w] = "take"
    /\ wq_id' = wq_id + 1
    /\ qid' = [qid EXCEPT ![w] = wq_id + 1]
    /\ Goto(w, IF wq_id + 1 > NbQueues THEN "returned" ELSE "init")
    /\ UNCHANGED <<main, processed, printed, statsOf, backlog, arrived, rx_good,
                   reported, up, force_quit>>

\* The atomic increment; a worker beyond the queues returns.
TakeQueue(w) ==
    /\ pc[w] = "take"
    /\ wq_id' = wq_id + 1
    /\ qid' = [qid EXCEPT ![w] = wq_id]
    /\ Goto(w, IF wq_id > NbQueues THEN "returned" ELSE "init")
    /\ UNCHANGED <<main, processed, printed, statsOf, backlog, arrived, rx_good,
                   reported, up, force_quit>>

\* worker_init: a failed worker returns -1 and publishes nothing; one without
\* the arrays of worker_rx_pkts goes to the end label.
InitWorker(w) ==
    /\ pc[w] = "init"
    /\ Goto(w, "reset") \/ Goto(w, "end") \/ Goto(w, "returned")
    /\ UNCHANGED <<main, workerVars, backlog, arrived, rx_good, reported, up, force_quit>>

\* rte_eth_stats_reset, once per worker, of the port they share.
ResetStats(w) ==
    /\ pc[w] = "reset"
    /\ rx_good' = 0
    /\ Goto(w, "loop")
    /\ UNCHANGED <<main, workerVars, backlog, arrived, reported, up, force_quit>>

\* An iteration that receives n packets of the worker's queue.
Poll(w) ==
    /\ pc[w] = "loop"
    /\ ~force_quit
    /\ \E n \in 1 .. backlog[qid[w]] :
          /\ backlog' = [backlog EXCEPT ![qid[w]] = @ - n]
          /\ processed' = [processed EXCEPT ![w] = @ + n]
    /\ UNCHANGED <<main, pc, wq_id, qid, printed, statsOf, arrived, rx_good,
                   reported, up, force_quit>>

\* force_quit ends the loop.
LeaveLoop(w) ==
    /\ pc[w] = "loop"
    /\ force_quit
    /\ Goto(w, "end")
    /\ UNCHANGED <<main, workerVars, backlog, arrived, rx_good, reported, up, force_quit>>

\* The end label: the worker of queue 0 prints the port counters.
PrintStats(w) ==
    /\ pc[w] = "end"
    /\ printed' = IF qid[w] = 0 THEN rx_good ELSE printed
    /\ Goto(w, "publish")
    /\ UNCHANGED <<main, wq_id, qid, processed, statsOf, backlog, arrived, rx_good,
                   reported, up, force_quit>>

\* Plausible bug: the entry is that of the port, which all workers share.
PublishOfPort(w) ==
    /\ pc[w] = "publish"
    /\ statsOf' = [statsOf EXCEPT ![0] = processed[w]]
    /\ Goto(w, "returned")
    /\ UNCHANGED <<main, wq_id, qid, processed, printed, backlog, arrived, rx_good,
                   reported, up, force_quit>>

\* sv->stats[lv.qid] = ... and the worker returns.
Publish(w) ==
    /\ pc[w] = "publish"
    /\ statsOf' = [statsOf EXCEPT ![qid[w]] = processed[w]]
    /\ Goto(w, "returned")
    /\ UNCHANGED <<main, wq_id, qid, processed, printed, backlog, arrived, rx_good,
                   reported, up, force_quit>>

----------------------------------------------------------------------------
(* main, the port and the signal.                                          *)

mainSame == <<pc, workerVars, backlog, arrived, rx_good, force_quit>>

Launch ==
    /\ main = "launch"
    /\ main' = "sleep"
    /\ pc' = [w \in Workers |-> "take"]
    /\ UNCHANGED <<workerVars, backlog, arrived, rx_good, reported, up, force_quit>>

WakeUp ==
    /\ main = "sleep" /\ force_quit
    /\ main' = "join"
    /\ UNCHANGED <<mainSame, reported, up>>

\* app_stats_dump skips the entries that are NULL.
Summed == SumFunction([q \in Queues |-> IF statsOf[q] = NONE THEN 0 ELSE statsOf[q]])

\* Plausible bug: the report does not wait for the workers.
DumpAtOnce ==
    /\ main = "join"
    /\ reported' = Summed
    /\ main' = "dumped"
    /\ UNCHANGED <<mainSame, up>>

\* Plausible bug: waiting for the statistics of every queue, which a worker
\* whose initialisation failed never publishes.
JoinNeedsStats ==
    /\ main = "join"
    /\ \A q \in Queues : statsOf[q] # NONE
    /\ reported' = Summed
    /\ main' = "dumped"
    /\ UNCHANGED <<mainSame, up>>

\* rte_eal_mp_wait_lcore returns when every worker has, then app_stats_dump.
JoinAndDump ==
    /\ main = "join"
    /\ \A w \in Workers : pc[w] = "returned"
    /\ reported' = Summed
    /\ main' = "dumped"
    /\ UNCHANGED <<mainSame, up>>

\* The next part is taken down: the regex device, the port, the pool.
TakeDown ==
    /\ main = "dumped"
    /\ \E part \in up :
          /\ part = "port" => "regexdev" \notin up
          /\ part = "pool" => up = {"pool"}
          /\ up' = up \ {part}
    /\ main' = IF up' = {} THEN "exited" ELSE main
    /\ UNCHANGED <<mainSame, reported>>

\* A packet arrives in queue q, or is missed when the queue is full.
Arrive(q) ==
    /\ "port" \in up
    /\ arrived < MaxPkts
    /\ arrived' = arrived + 1
    /\ IF backlog[q] < RxDesc
       THEN backlog' = [backlog EXCEPT ![q] = @ + 1] /\ rx_good' = rx_good + 1
       ELSE UNCHANGED <<backlog, rx_good>>
    /\ UNCHANGED <<main, pc, workerVars, reported, up, force_quit>>

\* signal_handler; it is installed before anything is started.
Signal ==
    /\ ~force_quit
    /\ force_quit' = TRUE
    /\ UNCHANGED <<main, pc, workerVars, backlog, arrived, rx_good, reported, up>>

Exited == main = "exited" /\ UNCHANGED vars

WorkerStep(w) ==
    TakeQueue(w) \/ InitWorker(w) \/ ResetStats(w) \/ Poll(w) \/ LeaveLoop(w)
        \/ PrintStats(w) \/ Publish(w)

MainStep == Launch \/ WakeUp \/ JoinAndDump \/ TakeDown

Next ==
    \/ \E w \in Workers : WorkerStep(w)
    \/ MainStep
    \/ \E q \in Queues : Arrive(q)
    \/ Signal
    \/ Exited

Spec == Init /\ [][Next]_vars

\* main and every worker are threads that run; packets and the signal need not
\* come.
FairSpec == Spec /\ WF_vars(MainStep) /\ \A w \in Workers : WF_vars(WorkerStep(w))

----------------------------------------------------------------------------
\* Type invariant; qid in particular is a queue of the port.
TypeOK ==
    /\ main \in {"launch", "sleep", "join", "dumped", "exited"}
    /\ pc \in [Workers -> {"off", "take", "init", "reset", "loop", "end", "publish", "returned"}]
    /\ wq_id \in 0 .. NbQueues
    /\ qid \in [Workers -> Queues \cup {NONE}]
    /\ backlog \in [Queues -> 0 .. RxDesc]
    /\ rx_good \in 0 .. MaxPkts
    /\ processed \in [Workers -> 0 .. MaxPkts]
    /\ printed \in 0 .. MaxPkts \cup {NONE}
    /\ statsOf \in [Queues -> 0 .. MaxPkts \cup {NONE}]
    /\ reported \in 0 .. MaxPkts \cup {NONE}
    /\ up \subseteq Parts
    /\ force_quit \in BOOLEAN

\* No two workers poll the same receive queue and queue pair, neither of which
\* is safe to share between threads, and no queue number is outside the arrays
\* although worker_run compares it with ">" (regex-test.c:934).
OwnQueue ==
    \A v, w \in Workers :
        /\ qid[w] # NONE => qid[w] < NbQueues
        /\ v # w /\ qid[v] # NONE => qid[v] # qid[w]

\* The report covers every packet a worker has taken, and is made once: no
\* worker adds to its statistics or publishes them after they were summed up.
ReportComplete ==
    reported # NONE => reported = SumFunction(processed)

\* A worker that may still touch the devices or free packets finds them up.
DevicesOutliveWorkers ==
    (\E w \in Workers : pc[w] \in {"init", "reset", "loop", "end"}) => up = Parts

\* Once the signal has come the program ends.
Exits == force_quit ~> main = "exited"
=============================================================================
