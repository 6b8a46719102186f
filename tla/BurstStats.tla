----------------------------- MODULE BurstStats -----------------------------
(***************************************************************************)
(* What regex-test.c counts on the regex path: the histogram of burst      *)
(* sizes every worker keeps (struct regex_stats_burst), the round robin    *)
(* over rule subsets, useful and wasted iterations, and the aggregation    *)
(* app_stats_dump prints when all workers have returned.                   *)
(*                                                                         *)
(* The array stats has bucket_cnt elements, indexed from 0.  The model     *)
(* gives it two more cells, which stand for the memory behind it, so that  *)
(* an access past the end changes something that can be looked at.         *)
(*                                                                         *)
(* Abstracted: which packets (module RegexWorker).  An operation counts    *)
(* Matches matches; cycles are counted in iterations, not in time; the RTT *)
(* sums are updated where matches is and are not modelled again.           *)
(***************************************************************************)
EXTENDS Naturals, FiniteSets, FiniteSetsExt

CONSTANTS
    Workers,
    BurstSize,    \* port_burst_size
    BucketSize,   \* rgx_stats_histogram_bucket_size
    NbDesc,       \* rgx_descriptors
    SubsetCnt,    \* rgx_subset_cnt
    Matches,      \* nb_matches of every operation
    MaxLoops      \* bound: iterations of all workers together

ASSUME SizeAssumption == BurstSize \in Nat \ {0} /\ BucketSize \in 1 .. BurstSize
ASSUME MoreAssumption ==
    /\ IsFiniteSet(Workers)
    /\ NbDesc \in Nat /\ SubsetCnt \in Nat \ {0} /\ {Matches, MaxLoops} \subseteq Nat

\* The derived argument: integer division, so that the last bucket may end
\* before the largest burst.
BucketCnt == BurstSize \div BucketSize

VARIABLES
    stats,      \* stats[w][i]: histogram cell i of worker w
    selector,   \* selector[w]: group0_selector
    served,     \* history: served[w][g]: operations of group g the device accepted
    rejected,   \* history: rejected[w][g]: operations of group g it did not accept
    inflight,   \* inflight[w]: operations in the queue pair
    total,      \* history: total[w]: packets accepted, collected and drained
    outside,    \* history: outside[w]: packets of accepted and collected bursts
                \* that are larger than the last bucket
    loops,      \* loops[w]: useful and wasted iterations
    pc,         \* pc[w]: "loop", "drain" or "done"
    report      \* the aggregate app_stats_dump prints; none before

vars == <<stats, selector, served, rejected, inflight, total, outside, loops, pc, report>>

Cells   == 0 .. BucketCnt + 1      \* the last two are behind the array
Buckets == 0 .. BucketCnt - 1
Groups  == 1 .. SubsetCnt

ZeroCell == [enq_cnt |-> 0, enq_pkts |-> 0, deq_cnt |-> 0, deq_pkts |-> 0, matches |-> 0]
NoReport == [b \in {} |-> ZeroCell]

Init ==
    /\ stats = [w \in Workers |-> [i \in Cells |-> ZeroCell]]
    /\ selector = [w \in Workers |-> 1]
    /\ served = [w \in Workers |-> [g \in Groups |-> 0]]
    /\ rejected = [w \in Workers |-> [g \in Groups |-> 0]]
    /\ inflight = [w \in Workers |-> 0]
    /\ total = [w \in Workers |-> [enqd |-> 0, dqd |-> 0, drained |-> 0]]
    /\ outside = [w \in Workers |-> [enq |-> 0, deq |-> 0]]
    /\ loops = [w \in Workers |-> [useful |-> 0, wasted |-> 0]]
    /\ pc = [w \in Workers |-> "loop"]
    /\ report = NoReport

----------------------------------------------------------------------------
(* One iteration of the polling loop.                                      *)

\* The value of stats_i when the for loop over the buckets is left: the first
\* bucket, counted from 1, that n fits in, or one more than there are.
StatsI(n) == Min({i \in 1 .. BucketCnt : n <= i * BucketSize} \cup {BucketCnt + 1})

\* A burst of n, or m matches, in a cell.
CountEnq(cell, n)     == [cell EXCEPT !.enq_cnt = @ + 1, !.enq_pkts = @ + n]
CountDeq(cell, n)     == [cell EXCEPT !.deq_cnt = @ + 1, !.deq_pkts = @ + n]
CountMatches(cell, m) == [cell EXCEPT !.matches = @ + m]

\* Plausible bug: a burst as large as the bucket goes to the next one.
AddEnqStrict(s, n) ==
    LET i == Min({b \in 1 .. BucketCnt : n < b * BucketSize} \cup {BucketCnt + 1})
    IN  IF i > BucketCnt THEN s
        ELSE [s EXCEPT ![i - 1] = CountEnq(@, n)]

\* The histogram after an enqueue of n: cell stats_i - 1, if the loop broke.
AddEnq(s, n) ==
    IF StatsI(n) > BucketCnt THEN s
    ELSE [s EXCEPT ![StatsI(n) - 1] = CountEnq(@, n)]

\* The histogram after a collect of n > 0: burst and packets in cell
\* stats_i - 1, but the matches of the n operations in cell stats_i.
AddDeq(s, n) ==
    LET c == IF StatsI(n) > BucketCnt THEN s
             ELSE [s EXCEPT ![StatsI(n) - 1] = CountDeq(@, n)]
    IN  [c EXCEPT ![StatsI(n)] = CountMatches(@, n * Matches)]

\* Plausible bug: the selector wraps only after it left the range.
NextGroupLate(g) == IF g > SubsetCnt THEN 1 ELSE g + 1

\* group0_selector after one packet; with one subset every op gets group 1.
NextGroup(g) == IF g + 1 > SubsetCnt THEN 1 ELSE g + 1

\* The selector n packets after it was g.
SelectorAfter[n \in 0 .. BurstSize] ==
    [g \in 1 .. SubsetCnt + 1 |-> IF n = 0 THEN g ELSE NextGroup(SelectorAfter[n - 1][g])]

\* How many of the operations i \in I of a burst get group g when the selector
\* is sel at its start.
InGroup(I, sel, g) == Cardinality({i \in I : SelectorAfter[i - 1][sel] = g})

\* Plausible bug: the selector starts at 1 in every burst.
PrepareRestarts(w, nb, e) ==
    /\ served' = [served EXCEPT ![w] = [g \in Groups |-> @[g] + InGroup(1 .. e, 1, g)]]
    /\ rejected' = [rejected EXCEPT ![w] =
          [g \in Groups |-> @[g] + InGroup(e + 1 .. nb, 1, g)]]
    /\ UNCHANGED selector

\* The operations of nb received packets are prepared and the device accepts the
\* first e.  The selector has moved past the others too, whose packets are freed.
Prepare(w, nb, e) ==
    /\ served' = [served EXCEPT ![w] =
          [g \in Groups |-> @[g] + InGroup(1 .. e, selector[w], g)]]
    /\ rejected' = [rejected EXCEPT ![w] =
          [g \in Groups |-> @[g] + InGroup(e + 1 .. nb, selector[w], g)]]
    /\ selector' = [selector EXCEPT ![w] = SelectorAfter[nb][@]]

\* The packets of a burst of n that no bucket counts.
Beyond(n) == IF n > BucketCnt * BucketSize THEN n ELSE 0

\* nb packets received, e of them accepted by the device, d operations
\* collected; the iteration is wasted when there was nothing of either.
Iterate(w, nb, e, d) ==
    /\ pc[w] = "loop"
    /\ SumFunction([x \in Workers |-> loops[x].useful + loops[x].wasted]) < MaxLoops
    /\ e <= nb
    /\ inflight[w] + e <= NbDesc
    /\ d <= inflight[w] + e
    /\ Prepare(w, nb, e)
    /\ LET enq == IF nb > 0 THEN AddEnq(stats[w], e) ELSE stats[w]
       IN  stats' = [stats EXCEPT ![w] = IF d > 0 THEN AddDeq(enq, d) ELSE enq]
    /\ inflight' = [inflight EXCEPT ![w] = @ + e - d]
    /\ total' = [total EXCEPT ![w] =
          [enqd |-> @.enqd + e, dqd |-> @.dqd + d, drained |-> @.drained]]
    /\ outside' = [outside EXCEPT ![w] =
          [enq |-> @.enq + Beyond(e), deq |-> @.deq + Beyond(d)]]
    /\ loops' = IF nb = 0 /\ d = 0
                THEN [loops EXCEPT ![w].wasted = @ + 1]
                ELSE [loops EXCEPT ![w].useful = @ + 1]
    /\ UNCHANGED <<pc, report>>

\* force_quit is seen.
Quit(w) ==
    /\ pc[w] = "loop"
    /\ pc' = [pc EXCEPT ![w] = "drain"]
    /\ UNCHANGED <<stats, selector, served, rejected, inflight, total, outside, loops, report>>

\* The drain collects d operations; it frees them and counts nothing.
DrainSome(w, d) ==
    /\ pc[w] = "drain"
    /\ d \in 1 .. inflight[w]
    /\ inflight' = [inflight EXCEPT ![w] = @ - d]
    /\ total' = [total EXCEPT ![w].drained = @ + d]
    /\ UNCHANGED <<stats, selector, served, rejected, outside, loops, pc, report>>

\* The first empty collect ends the drain, whatever is still in flight.
DrainEnd(w) ==
    /\ pc[w] = "drain"
    /\ pc' = [pc EXCEPT ![w] = "done"]
    /\ UNCHANGED <<stats, selector, served, rejected, inflight, total, outside, loops, report>>

----------------------------------------------------------------------------
(* app_stats_dump, after rte_eal_mp_wait_lcore.                            *)

\* The field f of bucket b, summed over the workers.
Sum(b, f) == SumFunction([w \in Workers |-> stats[w][b][f]])

\* Plausible bug: the collected packets of one worker only.
DumpOneWorker ==
    /\ \A w \in Workers : pc[w] = "done"
    /\ report = NoReport
    /\ report' = [b \in Buckets |->
          [enq_cnt  |-> Sum(b, "enq_pkts"),
           enq_pkts |-> Sum(b, "enq_pkts"),
           deq_cnt  |-> Sum(b, "deq_cnt"),
           deq_pkts |-> stats[CHOOSE w \in Workers : TRUE][b].deq_pkts,
           matches  |-> Sum(b, "matches")]]
    /\ UNCHANGED <<stats, selector, served, rejected, inflight, total, outside, loops, pc>>

\* enq_burst_cnt is the sum of enq_burst_pkts_cnt (regex-test.c:991).
Dump ==
    /\ \A w \in Workers : pc[w] = "done"
    /\ report = NoReport
    /\ report' = [b \in Buckets |->
          [enq_cnt  |-> Sum(b, "enq_pkts"),
           enq_pkts |-> Sum(b, "enq_pkts"),
           deq_cnt  |-> Sum(b, "deq_cnt"),
           deq_pkts |-> Sum(b, "deq_pkts"),
           matches  |-> Sum(b, "matches")]]
    /\ UNCHANGED <<stats, selector, served, rejected, inflight, total, outside, loops, pc>>

Printed == report # NoReport /\ UNCHANGED vars

Next ==
    \/ \E w \in Workers :
          \/ \E nb, e, d \in 0 .. BurstSize : Iterate(w, nb, e, d)
          \/ Quit(w)
          \/ \E d \in 1 .. BurstSize : DrainSome(w, d)
          \/ DrainEnd(w)
    \/ Dump
    \/ Printed

Spec == Init /\ [][Next]_vars

----------------------------------------------------------------------------
\* The packets a worker's histogram holds in the buckets of the array.
Recorded(w, f) == SumFunction([b \in Buckets |-> stats[w][b][f]])

\* Type invariant; the group selector in particular is a configured subset.
TypeOK ==
    /\ \A w \in Workers, i \in Cells : stats[w][i] \in [DOMAIN ZeroCell -> Nat]
    /\ selector \in [Workers -> Groups]
    /\ {served, rejected} \subseteq [Workers -> [Groups -> Nat]]
    /\ inflight \in [Workers -> 0 .. NbDesc]
    /\ pc \in [Workers -> {"loop", "drain", "done"}]

\* A bucket holds bursts of its own range only (regex-test.c:744-752, 763-770):
\* the packets in it are at most its burst size times its bursts, and more than
\* the previous burst size times them.  The code counts a burst as large as the
\* limit in the bucket, where regex-test.h:199 says "less than this burst size".
\* Empty enqueues are counted in the first bucket.
BucketRange ==
    \A w \in Workers, b \in Buckets :
        LET c == stats[w][b] IN
        /\ c.enq_pkts <= (b + 1) * BucketSize * c.enq_cnt
        /\ c.deq_pkts <= (b + 1) * BucketSize * c.deq_cnt
        /\ b > 0 => c.enq_pkts >= (b * BucketSize + 1) * c.enq_cnt
        /\ c.deq_pkts >= (b * BucketSize + 1) * c.deq_cnt

\* The traffic of a worker can be read off its histogram and the bursts larger
\* than the last bucket, which it does not record: together they are the packets
\* accepted, and those that were collected, are in flight or were drained.
Balance ==
    \A w \in Workers :
        /\ Recorded(w, "enq_pkts") + outside[w].enq = total[w].enqd
        /\ Recorded(w, "deq_pkts") + outside[w].deq + inflight[w] + total[w].drained
              = total[w].enqd

\* The histogram of a worker says what it did with the bursts: each is in the
\* bucket of its size, exactly those larger than the last bucket are missing (the
\* loops at regex-test.c:744-752 and 763-770 end without counting them when the
\* quotient of 321-322 was rounded down), and no other packet is lost or counted
\* twice.
HistogramRight == BucketRange /\ Balance

\* The device serves the rule subsets evenly, but for what it rejects itself: a
\* subset has at most one accepted operation less than another one and than that
\* by its own rejected ones, past which the selector moves on all the same
\* (regex-test.c:709-714, 734-742).
EvenGroups ==
    \A w \in Workers, g, h \in Groups : served[w][g] <= served[w][h] + rejected[w][h] + 1

\* The printed aggregate accounts for the traffic: its buckets, and the bursts
\* larger than the last of them, add up to the packets all workers had accepted
\* and had collected in their loops.
ReportAddsUp ==
    report # NoReport =>
        /\ SumFunction([b \in Buckets |-> report[b].enq_pkts])
                + SumFunction([w \in Workers |-> outside[w].enq])
              = SumFunction([w \in Workers |-> total[w].enqd])
        /\ SumFunction([b \in Buckets |-> report[b].deq_pkts])
                + SumFunction([w \in Workers |-> outside[w].deq])
              = SumFunction([w \in Workers |-> total[w].dqd])

\* What the comment at regex-test.h:199 says of an element of the histogram:
\* "covers less than this burst size but more than the previous burst size".
\* So the matches in it are those of its own bursts; behind the array there are
\* none.
MatchesInBucket ==
    \A w \in Workers, i \in Cells :
        stats[w][i].matches = Matches * stats[w][i].deq_pkts
=============================================================================
