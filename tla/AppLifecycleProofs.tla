------------------------- MODULE AppLifecycleProofs -------------------------
(***************************************************************************)
(* Proofs about AppLifecycle, for any finite set of workers.               *)
(*                                                                         *)
(* That no queue number is beyond the arrays, although worker_run compares *)
(* it with ">", is a matter of counting: the numbers taken are those below *)
(* wq_id, and wq_id is the number of the workers that have one (Counted).  *)
(* A worker about to take a number has none, so there is one left for it.  *)
(*                                                                         *)
(* That the report has every packet, and no more than arrived, is a matter *)
(* of sums over workers and queues (Published, Reported, Flow).            *)
(***************************************************************************)
EXTENDS AppLifecycle, DataTheorems

ControlOK ==
    /\ main \in {"launch", "sleep", "join", "dumped", "exited"}
    /\ pc \in [Workers -> {"off", "take", "init", "reset", "loop", "end", "publish", "returned"}]
    /\ qid \in [Workers -> Nat \cup {NONE}]
    /\ wq_id \in Nat
    /\ up \subseteq Parts
    /\ force_quit \in BOOLEAN

\* The workers that have taken a queue.
Taken == {w \in Workers : qid[w] # NONE}

Counted ==
    /\ wq_id = Cardinality(Taken)
    /\ \A w \in Workers : pc[w] \in {"off", "take"} <=> qid[w] = NONE
    /\ \A w \in Taken : qid[w] < wq_id
    /\ \A v, w \in Taken : v # w => qid[v] # qid[w]

\* main takes nothing down before every worker has returned.
Ordered ==
    /\ main = "launch" => \A w \in Workers : pc[w] = "off"
    /\ main \in {"launch", "sleep", "join"} => up = Parts
    /\ main \in {"dumped", "exited"} => \A w \in Workers : pc[w] = "returned"

AppInv == ControlOK /\ Counted /\ Ordered
-----------------------------------------------------------------------------
LEMMA AppInit == Init => AppInv
<1> SUFFICES ASSUME Init
             PROVE  AppInv
  OBVIOUS
<1>1. ControlOK /\ Ordered
  BY DEF Init, ControlOK, Ordered
<1>2. Taken = {}
  BY DEF Init, Taken
<1>3. Counted
  BY <1>2, FS_EmptySet DEF Init, Counted
<1> QED
  BY <1>1, <1>3 DEF AppInv

\* As many numbers as workers have been taken at most, and fewer while one is left.
LEMMA TakenCount ==
    ASSUME AppInv
    PROVE  /\ IsFiniteSet(Taken) /\ NbQueues \in Nat /\ wq_id <= NbQueues
           /\ \A w \in Workers : pc[w] = "take" => wq_id < NbQueues
<1>1. Taken \subseteq Workers
  BY DEF Taken
<1>2. IsFiniteSet(Taken) /\ NbQueues \in Nat /\ wq_id <= NbQueues
  BY <1>1, CountAssumption, FS_Subset, FS_CardinalityType DEF AppInv, Counted, NbQueues
<1>3. ASSUME NEW w \in Workers, pc[w] = "take"
      PROVE  wq_id # NbQueues
  <2>1. w \notin Taken
    BY <1>3 DEF AppInv, Counted, Taken
  <2> QED
    BY <1>1, <2>1, CountAssumption, FS_Subset DEF AppInv, Counted, NbQueues
<1> QED
  BY <1>2, <1>3 DEF AppInv, ControlOK

LEMMA TakeQueueApp ==
    ASSUME AppInv, NEW w \in Workers, TakeQueue(w)
    PROVE  AppInv'
<1> USE DEF AppInv, TakeQueue, Goto
<1>1. w \notin Taken /\ wq_id # NONE
  BY NoneAssumption DEF ControlOK, Counted, Taken
<1>2. Taken' = Taken \cup {w}
  BY <1>1 DEF ControlOK, Taken
<1>3. Cardinality(Taken') = Cardinality(Taken) + 1
  BY <1>1, <1>2, TakenCount, FS_AddElement
<1>4. ControlOK'
  BY DEF ControlOK
<1>5. Counted'
  <2>1. wq_id' = Cardinality(Taken')
    BY <1>3 DEF Counted
  <2>2. \A v \in Workers : pc'[v] \in {"off", "take"} <=> qid'[v] = NONE
    BY <1>1 DEF ControlOK, Counted
  <2>3. \A v \in Taken' : qid'[v] < wq_id'
    BY <1>2, NoneAssumption DEF ControlOK, Counted, Taken
  <2>4. \A u, v \in Taken' : u # v => qid'[u] # qid'[v]
    BY <1>2, NoneAssumption DEF ControlOK, Counted, Taken
  <2> QED
    BY <2>1, <2>2, <2>3, <2>4 DEF Counted
<1>6. Ordered'
  BY DEF ControlOK, Ordered
<1> QED
  BY <1>4, <1>5, <1>6

\* A step that takes no queue.
LEMMA SameQueues ==
    ASSUME AppInv, UNCHANGED <<qid, wq_id>>,
           \A w \in Workers : pc'[w] \in {"off", "take"} <=> pc[w] \in {"off", "take"}
    PROVE  Counted'
<1>1. Taken' = Taken
  BY DEF Taken
<1> QED
  BY <1>1 DEF AppInv, Counted

LEMMA WorkerApp ==
    ASSUME AppInv, NEW w \in Workers,
           \/ InitWorker(w) \/ ResetStats(w) \/ Poll(w) \/ LeaveLoop(w) \/ PrintStats(w) \/ Publish(w)
    PROVE  AppInv'
<1> USE DEF InitWorker, ResetStats, Poll, LeaveLoop, PrintStats, Publish, Goto, workerVars
<1>1. ControlOK'
  BY DEF AppInv, ControlOK
<1>2. Counted'
  BY SameQueues DEF AppInv, ControlOK
<1>3. Ordered'
  BY DEF AppInv, ControlOK, Ordered
<1> QED
  BY <1>1, <1>2, <1>3 DEF AppInv

LEMMA MainApp ==
    ASSUME AppInv, MainStep
    PROVE  AppInv'
<1> USE DEF workerVars, mainSame
<1>1. CASE Launch
  <2>1. ControlOK' /\ Ordered'
    BY <1>1 DEF Launch, AppInv, ControlOK, Ordered
  <2>2. Counted'
    BY <1>1, SameQueues DEF Launch, AppInv, ControlOK, Ordered
  <2> QED
    BY <2>1, <2>2 DEF AppInv
<1>2. CASE WakeUp \/ JoinAndDump \/ TakeDown
  <2>1. ControlOK' /\ Ordered'
    BY <1>2 DEF WakeUp, JoinAndDump, TakeDown, AppInv, ControlOK, Ordered
  <2>2. Counted'
    BY <1>2, SameQueues DEF WakeUp, JoinAndDump, TakeDown, AppInv, ControlOK
  <2> QED
    BY <2>1, <2>2 DEF AppInv
<1> QED
  BY <1>1, <1>2 DEF MainStep

LEMMA AppStep == AppInv /\ [Next]_vars => AppInv'
<1> SUFFICES ASSUME AppInv, [Next]_vars
             PROVE  AppInv'
  OBVIOUS
<1>1. CASE \E w \in Workers : WorkerStep(w)
  BY <1>1, TakeQueueApp, WorkerApp DEF WorkerStep
<1>2. CASE MainStep
  BY <1>2, MainApp
<1>3. CASE (\E q \in Queues : Arrive(q)) \/ Signal \/ Exited \/ UNCHANGED vars
  <2>1. UNCHANGED <<main, pc, qid, wq_id, up>> /\ force_quit' \in BOOLEAN
    BY <1>3 DEF Arrive, Signal, Exited, vars, workerVars, AppInv, ControlOK
  <2>2. Counted'
    BY <2>1, SameQueues
  <2> QED
    BY <2>1, <2>2 DEF AppInv, ControlOK, Ordered
<1> QED
  BY <1>1, <1>2, <1>3 DEF Next

LEMMA AppInvariant == Spec => []AppInv
BY AppInit, AppStep, PTL DEF Spec

\* No two workers have the same queue, and none has one beyond the last (worker_run).
THEOREM QueuesAreOwn == Spec => []OwnQueue
<1>1. AppInv => OwnQueue
  <2> SUFFICES ASSUME AppInv
               PROVE  OwnQueue
    OBVIOUS
  <2>1. wq_id <= NbQueues /\ NbQueues \in Nat
    BY TakenCount
  <2> QED
    BY <2>1, NoneAssumption DEF AppInv, ControlOK, Counted, Taken, OwnQueue
<1> QED
  BY <1>1, AppInvariant, PTL

\* Workers that may still poll the devices find them running (the end of main).
THEOREM DevicesStay == Spec => []DevicesOutliveWorkers
<1>1. AppInv => DevicesOutliveWorkers
  BY DEF AppInv, ControlOK, Ordered, DevicesOutliveWorkers
<1> QED
  BY <1>1, AppInvariant, PTL

-----------------------------------------------------------------------------
(* What is published and reported.                                         *)

\* What the report takes the statistics of queue q for.
Entry(q) == IF statsOf[q] = NONE THEN 0 ELSE statsOf[q]

\* Entries are those of returned workers; a worker that returned without one
\* has processed nothing.
Published ==
    /\ processed \in [Workers -> Nat]
    /\ statsOf \in [Queues -> Nat \cup {NONE}]
    /\ \A w \in Workers : pc[w] \in {"off", "take", "init", "reset"} => processed[w] = 0
    /\ \A q \in Queues : statsOf[q] # NONE =>
          \E w \in Workers : pc[w] = "returned" /\ qid[w] = q /\ statsOf[q] = processed[w]
    /\ \A w \in Workers : pc[w] = "returned" => processed[w] = Entry(qid[w])

Reported ==
    IF main \in {"launch", "sleep", "join"} THEN reported = NONE
    ELSE reported = SumFunction(processed)

\* Every packet that was taken or waits has arrived.
Flow ==
    /\ backlog \in [Queues -> 0 .. RxDesc]
    /\ arrived \in 0 .. MaxPkts
    /\ rx_good \in 0 .. arrived
    /\ printed \in 0 .. arrived \cup {NONE}
    /\ SumFunction(processed) + SumFunction(backlog) <= arrived

FlowInv == AppInv /\ Published /\ Reported /\ Flow

\* A worker that has taken a queue has one of the port, and no other has it.
LEMMA OwnEntry ==
    ASSUME AppInv
    PROVE  /\ IsFiniteSet(Queues) /\ NONE \notin Queues /\ 0 \in Queues
           /\ \A w \in Workers : pc[w] \notin {"off", "take"} => qid[w] \in Queues
           /\ \A v, w \in Workers : qid[v] = qid[w] /\ qid[w] \in Queues => v = w
<1>1. NbQueues \in Nat /\ wq_id <= NbQueues
  BY TakenCount
<1>2. IsFiniteSet(Queues) /\ NONE \notin Queues
  BY <1>1, FS_Interval, NoneAssumption DEF Queues
<1>3. 0 \in Queues
  BY <1>1, CountAssumption, FS_EmptySet DEF Queues, NbQueues
<1>4. \A w \in Workers : pc[w] \notin {"off", "take"} => qid[w] \in Queues
  BY <1>1, NoneAssumption DEF AppInv, ControlOK, Counted, Taken, Queues
<1>5. \A v, w \in Workers : qid[v] = qid[w] /\ qid[w] \in Queues => v = w
  BY <1>2 DEF AppInv, Counted, Taken
<1> QED
  BY <1>2, <1>3, <1>4, <1>5

LEMMA FlowInit == Init => FlowInv
<1> SUFFICES ASSUME Init
             PROVE  FlowInv
  OBVIOUS
<1>1. AppInv
  BY AppInit
<1>2. Published /\ Reported
  BY DEF Init, Published, Reported, Entry
<1>3. SumFunction(processed) = 0 /\ SumFunction(backlog) = 0
  BY <1>1, OwnEntry, CountAssumption, SumZero DEF Init, SumFunction
<1>4. Flow
  BY <1>3, CountAssumption DEF Init, Flow
<1> QED
  BY <1>1, <1>2, <1>4 DEF FlowInv

\* Steps that touch neither what was processed nor what is published.
LEMMA PublishedSame ==
    ASSUME Published, UNCHANGED <<processed, statsOf, qid>>,
           \A w \in Workers : pc'[w] = "returned" <=> pc[w] = "returned",
           \A w \in Workers : pc'[w] \in {"off", "take", "init", "reset"}
                                  => pc[w] \in {"off", "take", "init", "reset"}
    PROVE  Published'
BY DEF Published, Entry

LEMMA PublishedStep ==
    ASSUME AppInv, AppInv', Published, Next
    PROVE  Published'
<1> USE DEF AppInv, ControlOK, Goto, workerVars, mainSame
<1>1. ASSUME NEW w \in Workers, TakeQueue(w)
      PROVE  Published'
  <2>1. pc' = [pc EXCEPT ![w] = "init"] /\ qid' = [qid EXCEPT ![w] = wq_id]
    <3>1. pc[w] = "take"
      BY <1>1 DEF TakeQueue
    <3>2. wq_id < NbQueues /\ NbQueues \in Nat
      BY <3>1, TakenCount
    <3>3. ~(wq_id > NbQueues)
      BY <3>2
    <3> QED
      BY <1>1, <3>3 DEF TakeQueue
  <2>2. UNCHANGED <<processed, statsOf>> /\ pc[w] = "take"
    BY <1>1 DEF TakeQueue
  <2> QED
    BY <2>1, <2>2 DEF Published, Entry
<1>2. ASSUME NEW w \in Workers, InitWorker(w)
      PROVE  Published'
  <2>1. UNCHANGED <<processed, statsOf, qid>> /\ pc[w] = "init"
    BY <1>2 DEF InitWorker
  <2>2. PICK label \in {"reset", "end", "returned"} : pc' = [pc EXCEPT ![w] = label]
    BY <1>2 DEF InitWorker
  <2>3. processed[w] = 0
    BY <2>1 DEF Published
  <2>4. qid[w] \in Queues
    BY <2>1, OwnEntry
  <2>5. statsOf[qid[w]] = NONE
    BY <2>1, <2>4, OwnEntry DEF Published
  <2> QED
    BY <2>1, <2>2, <2>3, <2>5 DEF Published, Entry
<1>3. ASSUME NEW w \in Workers, ResetStats(w) \/ LeaveLoop(w) \/ PrintStats(w)
      PROVE  Published'
  <2>1. UNCHANGED <<processed, statsOf, qid>> /\ pc[w] \in {"reset", "loop", "end"}
    BY <1>3 DEF ResetStats, LeaveLoop, PrintStats
  <2>2. PICK label \in {"loop", "end", "publish"} : pc' = [pc EXCEPT ![w] = label]
    BY <1>3 DEF ResetStats, LeaveLoop, PrintStats
  <2> QED
    BY <2>1, <2>2, PublishedSame
<1>4. ASSUME NEW w \in Workers, Poll(w)
      PROVE  Published'
  <2>1. UNCHANGED <<pc, statsOf, qid>> /\ pc[w] = "loop" /\ qid[w] \in Queues
    BY <1>4, OwnEntry DEF Poll
  <2>2. PICK n \in 1 .. backlog[qid[w]] : processed' = [processed EXCEPT ![w] = @ + n]
    BY <1>4 DEF Poll
  <2>3. processed' \in [Workers -> Nat]
    BY <2>2 DEF Published
  <2> QED
    BY <2>1, <2>2, <2>3 DEF Published, Entry
<1>5. ASSUME NEW w \in Workers, Publish(w)
      PROVE  Published'
  <2>1. UNCHANGED <<processed, qid>> /\ pc[w] = "publish" /\ qid[w] \in Queues
    BY <1>5, OwnEntry DEF Publish
  <2>2. /\ pc' = [pc EXCEPT ![w] = "returned"]
        /\ statsOf' = [statsOf EXCEPT ![qid[w]] = processed[w]]
    BY <1>5 DEF Publish
  <2>3. statsOf' \in [Queues -> Nat \cup {NONE}] /\ statsOf'[qid[w]] = processed[w]
    BY <2>1, <2>2 DEF Published
  <2>4. \A v \in Workers : pc'[v] = "returned" => processed'[v] = Entry(qid[v])'
    <3>1. \A v \in Workers \ {w} : pc[v] = "returned" => qid[v] \in Queues /\ qid[v] # qid[w]
      BY <2>1, OwnEntry
    <3>2. processed[w] # NONE
      BY NoneAssumption DEF Published
    <3> QED
      BY <2>1, <2>2, <2>3, <3>1, <3>2 DEF Published, Entry
  <2>5. \A q \in Queues : statsOf'[q] # NONE =>
           \E v \in Workers : pc'[v] = "returned" /\ qid'[v] = q /\ statsOf'[q] = processed'[v]
    BY <2>1, <2>2 DEF Published
  <2>6. \A v \in Workers : pc'[v] \in {"off", "take", "init", "reset"} => processed'[v] = 0
    BY <2>1, <2>2 DEF Published
  <2> QED
    BY <2>1, <2>3, <2>4, <2>5, <2>6 DEF Published
<1>6. CASE Launch
  <2>1. UNCHANGED <<processed, statsOf, qid>>
    BY <1>6 DEF Launch
  <2>2. \A w \in Workers : pc[w] = "off" /\ pc'[w] = "take"
    BY <1>6 DEF Launch, Ordered
  <2> QED
    BY <2>1, <2>2, PublishedSame
<1>7. CASE WakeUp \/ JoinAndDump \/ TakeDown \/ (\E q \in Queues : Arrive(q)) \/ Signal \/ Exited
  <2>1. UNCHANGED <<processed, statsOf, qid, pc>>
    BY <1>7 DEF WakeUp, JoinAndDump, TakeDown, Arrive, Signal, Exited, vars
  <2> QED
    BY <2>1, PublishedSame
<1> QED
  BY <1>1, <1>2, <1>3, <1>4, <1>5, <1>6, <1>7 DEF Next, WorkerStep, MainStep

\* When every worker has returned the entries add up to what was processed: the
\* queue of a worker carries its count to the entry of that queue.
LEMMA EntriesAddUp ==
    ASSUME AppInv, Published, \A w \in Workers : pc[w] = "returned"
    PROVE  Summed = SumFunction(processed)
<1> DEFINE g == [q \in Queues |-> IF statsOf[q] = NONE THEN 0 ELSE statsOf[q]]
<1>1. IsFiniteSet(Workers) /\ IsFiniteSet(Queues)
  BY OwnEntry, CountAssumption
<1>2. Numbers(processed, Workers) /\ Numbers(g, Queues)
  BY DEF Published, Numbers
<1>3. \A w \in Workers : qid[w] \in Queues /\ g[qid[w]] = processed[w]
  BY OwnEntry DEF Published, Entry
<1>4. \A v, w \in Workers : v # w => qid[v] # qid[w]
  BY <1>3, OwnEntry
<1>5. \A q \in Queues : (\A w \in Workers : qid[w] # q) => g[q] = 0
  BY DEF Published
<1>6. DOMAIN processed = Workers /\ Summed = SumFunctionOnSet(g, Queues)
  BY DEF Published, Summed, SumFunction
<1> HIDE DEF g
<1>7. SumFunctionOnSet(processed, Workers) = SumFunctionOnSet(g, Queues)
  BY <1>1, <1>2, <1>3, <1>4, <1>5, SumCarried
<1> QED
  BY <1>6, <1>7 DEF SumFunction

LEMMA ReportedStep ==
    ASSUME AppInv, Published, Reported, Next
    PROVE  Reported'
<1> USE DEF workerVars, mainSame
<1>1. ASSUME NEW w \in Workers, WorkerStep(w)
      PROVE  Reported'
  <2>1. main \in {"launch", "sleep", "join"} \/ pc[w] = "returned"
    BY DEF AppInv, ControlOK, Ordered
  <2>2. pc[w] # "returned"
    BY <1>1 DEF WorkerStep, TakeQueue, InitWorker, ResetStats, Poll, LeaveLoop, PrintStats, Publish
  <2>3. UNCHANGED <<main, reported>>
    BY <1>1 DEF WorkerStep, TakeQueue, InitWorker, ResetStats, Poll, LeaveLoop, PrintStats, Publish
  <2> QED
    BY <2>1, <2>2, <2>3 DEF Reported
<1>2. CASE Launch \/ WakeUp
  BY <1>2 DEF Launch, WakeUp, Reported
<1>3. CASE JoinAndDump
  BY <1>3, EntriesAddUp DEF JoinAndDump, Reported
<1>4. CASE TakeDown
  BY <1>4 DEF TakeDown, Reported
<1>5. CASE (\E q \in Queues : Arrive(q)) \/ Signal \/ Exited
  BY <1>5 DEF Arrive, Signal, Exited, vars, Reported
<1> QED
  BY <1>1, <1>2, <1>3, <1>4, <1>5 DEF Next, MainStep

\* The two sums of Flow, with what the lemmas about sums ask for.
LEMMA FlowSums ==
    ASSUME AppInv, Published, Flow
    PROVE  /\ DOMAIN processed = Workers /\ DOMAIN backlog = Queues
           /\ Numbers(processed, Workers) /\ Numbers(backlog, Queues)
           /\ IsFiniteSet(Workers) /\ IsFiniteSet(Queues)
           /\ SumFunction(processed) \in Nat /\ SumFunction(backlog) \in Nat
<1>1. DOMAIN processed = Workers /\ DOMAIN backlog = Queues
  BY DEF Published, Flow
<1>2. Numbers(processed, Workers) /\ Numbers(backlog, Queues)
  BY CountAssumption DEF Published, Flow, Numbers
<1>3. IsFiniteSet(Workers) /\ IsFiniteSet(Queues)
  BY OwnEntry, CountAssumption
<1> QED
  BY <1>1, <1>2, <1>3, SumType DEF SumFunction

LEMMA PollFlow ==
    ASSUME AppInv, Published, Flow, NEW w \in Workers, Poll(w)
    PROVE  Flow'
<1> DEFINE q == qid[w]
<1>1. q \in Queues
  BY OwnEntry DEF Poll
<1> HIDE DEF q
<1>2. PICK n \in 1 .. backlog[q] :
          /\ backlog' = [backlog EXCEPT ![q] = @ - n]
          /\ processed' = [processed EXCEPT ![w] = @ + n]
  BY DEF Poll, q
<1>3. backlog[q] \in 0 .. RxDesc /\ processed[w] \in Nat
  BY <1>1 DEF Flow, Published
<1>4. n \in Nat /\ backlog[q] - n \in 0 .. RxDesc
  BY <1>2, <1>3, CountAssumption
<1>5. backlog' \in [Queues -> 0 .. RxDesc] /\ processed' \in [Workers -> Nat]
  <2>1. processed[w] + n \in Nat
    BY <1>3, <1>4
  <2>2. backlog \in [Queues -> 0 .. RxDesc] /\ processed \in [Workers -> Nat]
    BY DEF Flow, Published
  <2>3. backlog' \in [Queues -> 0 .. RxDesc]
    BY <1>2, <1>4, <2>2
  <2> QED
    BY <1>2, <2>1, <2>2, <2>3
<1>6. SumFunction(processed') = SumFunction(processed) + n
  <2>1. /\ Numbers(processed', Workers) /\ DOMAIN processed' = Workers
        /\ \A v \in Workers \ {w} : processed'[v] = processed[v]
        /\ processed'[w] = processed[w] + n
    BY <1>2, <1>5 DEF Numbers, Published
  <2>2. SumFunctionOnSet(processed', Workers) + processed[w]
            = SumFunctionOnSet(processed, Workers) + processed'[w]
    BY <2>1, FlowSums, SumChange
  <2>3. SumFunctionOnSet(processed', Workers) \in Nat
    BY <2>1, FlowSums, SumType
  <2> QED
    BY <1>3, <1>4, <2>1, <2>2, <2>3, FlowSums DEF SumFunction
<1>7. SumFunction(backlog') + n = SumFunction(backlog)
  <2>1. /\ Numbers(backlog', Queues) /\ DOMAIN backlog' = Queues
        /\ \A r \in Queues \ {q} : backlog'[r] = backlog[r]
        /\ backlog'[q] = backlog[q] - n
    BY <1>1, <1>2, <1>5, CountAssumption DEF Numbers, Flow
  <2>2. SumFunctionOnSet(backlog', Queues) + backlog[q]
            = SumFunctionOnSet(backlog, Queues) + backlog'[q]
    BY <1>1, <2>1, FlowSums, SumChange
  <2>3. SumFunctionOnSet(backlog', Queues) \in Nat
    BY <2>1, FlowSums, SumType
  <2>4. backlog[q] \in Nat
    BY <1>3, CountAssumption
  <2> QED
    BY <1>4, <2>1, <2>2, <2>3, <2>4, FlowSums DEF SumFunction
<1>8. SumFunction(backlog') \in Nat
  <2>1. Numbers(backlog', Queues) /\ DOMAIN backlog' = Queues
    BY <1>5, CountAssumption DEF Numbers
  <2> QED
    BY <2>1, FlowSums, SumType DEF SumFunction
<1>9. SumFunction(processed') + SumFunction(backlog') <= arrived'
  <2>1. arrived' = arrived /\ arrived \in Nat /\ SumFunction(processed) + SumFunction(backlog) <= arrived
    BY CountAssumption DEF Poll, Flow
  <2> QED
    BY <1>4, <1>6, <1>7, <1>8, <2>1, FlowSums
<1>10. UNCHANGED <<arrived, rx_good, printed>>
  BY DEF Poll
<1> QED
  BY <1>5, <1>9, <1>10 DEF Flow

LEMMA ArriveFlow ==
    ASSUME AppInv, Published, Flow, NEW q \in Queues, Arrive(q)
    PROVE  Flow'
<1>1. /\ arrived \in Nat /\ arrived' = arrived + 1 /\ arrived' \in 0 .. MaxPkts
      /\ UNCHANGED <<printed, processed>>
      /\ SumFunction(processed) + SumFunction(backlog) <= arrived
  BY CountAssumption DEF Arrive, Flow, workerVars
<1>2. printed' \in 0 .. arrived' \cup {NONE}
  BY <1>1 DEF Flow
<1>3. CASE UNCHANGED <<backlog, rx_good>>
  <2>1. SumFunction(processed') + SumFunction(backlog') <= arrived'
    BY <1>1, <1>3, FlowSums
  <2> QED
    BY <1>1, <1>2, <1>3, <2>1 DEF Flow
<1>4. CASE /\ backlog[q] < RxDesc /\ backlog' = [backlog EXCEPT ![q] = @ + 1]
           /\ rx_good' = rx_good + 1
  <2>1. backlog[q] \in 0 .. RxDesc /\ backlog[q] + 1 \in 0 .. RxDesc
    BY <1>4, CountAssumption DEF Flow
  <2>2. backlog' \in [Queues -> 0 .. RxDesc]
    BY <1>4, <2>1 DEF Flow
  <2>3. /\ Numbers(backlog', Queues) /\ DOMAIN backlog' = Queues
        /\ \A r \in Queues \ {q} : backlog'[r] = backlog[r]
        /\ backlog'[q] = backlog[q] + 1
    BY <1>4, <2>2, CountAssumption DEF Numbers, Flow
  <2>4. SumFunctionOnSet(backlog', Queues) + backlog[q]
            = SumFunctionOnSet(backlog, Queues) + backlog'[q]
    BY <2>3, FlowSums, SumChange
  <2>5. SumFunctionOnSet(backlog', Queues) \in Nat
    BY <2>3, FlowSums, SumType
  <2>6. SumFunction(backlog') = SumFunction(backlog) + 1
    BY <2>1, <2>3, <2>4, <2>5, FlowSums, CountAssumption DEF SumFunction
  <2>7. SumFunction(processed') + SumFunction(backlog') <= arrived'
    BY <1>1, <2>6, FlowSums
  <2>8. rx_good' \in 0 .. arrived'
    BY <1>1, <1>4 DEF Flow
  <2> QED
    BY <1>1, <1>2, <2>2, <2>7, <2>8 DEF Flow
<1> QED
  BY <1>3, <1>4 DEF Arrive

LEMMA FlowStep ==
    ASSUME AppInv, Published, Flow, Next
    PROVE  Flow'
<1> USE DEF workerVars, mainSame
<1>1. ASSUME NEW w \in Workers, TakeQueue(w) \/ InitWorker(w) \/ LeaveLoop(w) \/ Publish(w)
      PROVE  Flow'
  BY <1>1 DEF TakeQueue, InitWorker, LeaveLoop, Publish, Flow
<1>2. ASSUME NEW w \in Workers, ResetStats(w)
      PROVE  Flow'
  BY <1>2 DEF ResetStats, Flow
<1>3. ASSUME NEW w \in Workers, PrintStats(w)
      PROVE  Flow'
  BY <1>3 DEF PrintStats, Flow
<1>4. CASE MainStep \/ Signal \/ Exited
  BY <1>4 DEF MainStep, Launch, WakeUp, JoinAndDump, TakeDown, Signal, Exited, vars, Flow
<1> QED
  BY <1>1, <1>2, <1>3, <1>4, PollFlow, ArriveFlow DEF Next, WorkerStep

LEMMA FlowInvStep == FlowInv /\ [Next]_vars => FlowInv'
<1> SUFFICES ASSUME FlowInv, [Next]_vars
             PROVE  FlowInv'
  OBVIOUS
<1>1. AppInv'
  BY AppStep DEF FlowInv
<1>2. CASE Next
  BY <1>1, <1>2, PublishedStep, ReportedStep, FlowStep DEF FlowInv
<1>3. CASE UNCHANGED vars
  BY <1>1, <1>3 DEF vars, workerVars, FlowInv, Published, Entry, Reported, Flow
<1> QED
  BY <1>2, <1>3

LEMMA FlowInvariant == Spec => []FlowInv
BY FlowInit, FlowInvStep, PTL DEF Spec

\* app_stats_dump reports all that the workers took, whichever of them failed.
THEOREM ReportIsComplete == Spec => []ReportComplete
<1>1. FlowInv => ReportComplete
  BY DEF FlowInv, Reported, ReportComplete
<1> QED
  BY <1>1, FlowInvariant, PTL

\* The types of main, the workers and the port: no counter exceeds the packets
\* that arrived, a sum over the workers or the queues included.
THEOREM TypeCorrect == Spec => []TypeOK
<1>1. FlowInv => TypeOK
  <2> SUFFICES ASSUME FlowInv
               PROVE  TypeOK
    OBVIOUS
  <2>1. AppInv /\ Published /\ Reported /\ Flow
    BY DEF FlowInv
  <2>2. wq_id \in 0 .. NbQueues /\ qid \in [Workers -> Queues \cup {NONE}]
    <3>1. wq_id \in Nat /\ wq_id <= NbQueues /\ NbQueues \in Nat
      BY <2>1, TakenCount DEF AppInv, ControlOK
    <3>2. \A w \in Workers : qid[w] \in Queues \cup {NONE}
      BY <2>1, OwnEntry DEF AppInv, Counted
    <3> QED
      BY <2>1, <3>1, <3>2 DEF AppInv, ControlOK
  <2>3. \A w \in Workers : processed[w] \in 0 .. MaxPkts
    <3> SUFFICES ASSUME NEW w \in Workers
                 PROVE  processed[w] \in 0 .. MaxPkts
      OBVIOUS
    <3>1. processed[w] <= SumFunction(processed)
      BY <2>1, FlowSums, SumMember DEF SumFunction
    <3>2. processed[w] \in Nat /\ arrived \in 0 .. MaxPkts
      BY <2>1 DEF Published, Flow
    <3>3. SumFunction(processed) + SumFunction(backlog) <= arrived
      BY <2>1 DEF Flow
    <3> QED
      BY <2>1, <3>1, <3>2, <3>3, FlowSums, CountAssumption
  <2>4. processed \in [Workers -> 0 .. MaxPkts]
    BY <2>1, <2>3 DEF Published
  <2>5. statsOf \in [Queues -> 0 .. MaxPkts \cup {NONE}]
    BY <2>1, <2>3 DEF Published
  <2>6. reported \in 0 .. MaxPkts \cup {NONE}
    <3>1. /\ SumFunction(processed) + SumFunction(backlog) <= arrived
          /\ arrived \in 0 .. MaxPkts
      BY <2>1 DEF Flow
    <3>2. SumFunction(processed) \in 0 .. MaxPkts
      BY <2>1, <3>1, FlowSums, CountAssumption
    <3> QED
      BY <2>1, <3>2 DEF Reported
  <2>7. rx_good \in 0 .. MaxPkts /\ printed \in 0 .. MaxPkts \cup {NONE}
    BY <2>1, CountAssumption DEF Flow
  <2>8. up \subseteq Parts /\ force_quit \in BOOLEAN
    BY <2>1 DEF AppInv, ControlOK
  <2> QED
    BY <2>1, <2>2, <2>4, <2>5, <2>6, <2>7, <2>8 DEF TypeOK, AppInv, ControlOK, Flow
<1> QED
  BY <1>1, FlowInvariant, PTL
=============================================================================
