--------------------------- MODULE MbufLifecycle ---------------------------
(***************************************************************************)
(* What the packet path of regex-test.c promises, without arrays or        *)
(* counters: every packet buffer has exactly one owner, and changes owner  *)
(* only along the edges below.  A packet received by a worker is scanned,  *)
(* collected and sent by that worker, and comes back to the pool.          *)
(***************************************************************************)
CONSTANTS Workers, Mbufs

VARIABLE owner      \* owner[m]: the place that holds packet m

Pool  == <<"pool">>
Place == {Pool} \cup ({"rx", "app", "dev", "done", "tx"} \X Workers)

\* The ways a packet may change hands on behalf of worker w.
Edges(w) ==
    { <<Pool, <<"rx", w>>>>,            \* the NIC receives it
      <<<<"rx", w>>, <<"app", w>>>>,    \* the worker picks it up
      <<<<"app", w>>, <<"dev", w>>>>,   \* it is submitted to the regex device
      <<<<"dev", w>>, <<"done", w>>>>,  \* the device completes it
      <<<<"done", w>>, <<"app", w>>>>,  \* the worker collects it
      <<<<"done", w>>, Pool>>,          \* ... or drains it
      <<<<"app", w>>, <<"tx", w>>>>,    \* it is forwarded
      <<<<"app", w>>, Pool>>,           \* ... or dropped
      <<<<"tx", w>>, Pool>> }           \* the NIC has sent it

Init == owner = [m \in Mbufs |-> Pool]

Move(w) ==
    /\ owner' \in [Mbufs -> Place]
    /\ \A m \in Mbufs : owner'[m] # owner[m] => <<owner[m], owner'[m]>> \in Edges(w)

Next == \E w \in Workers : Move(w)

Spec == Init /\ [][Next]_owner
=============================================================================
