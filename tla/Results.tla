------------------------------ MODULE Results ------------------------------
(***************************************************************************)
(* What src/autotest/process.py makes of the file of the results: the rows *)
(* are split by engine, the rates of either engine are computed, the two   *)
(* tables are put together in the order of the file, the columns only one  *)
(* of them has are filled with 0, and the rates are added.                 *)
(*                                                                         *)
(* A row is its configuration and the columns in which it has a value; of  *)
(* a rate the model keeps whether there is one (1) or not (0).             *)
(***************************************************************************)
EXTENDS Naturals, Sequences, Selections

Enabled(c, e) == IF e = "rgx" THEN c.rgx_enabled = 1 ELSE c.hs_enabled = 1

\* process_rgx_cols, process_hs_cols: the rows of an engine, which keep their index.
Frame(rows, e) ==
    Select([i \in DOMAIN rows |-> i], {i \in DOMAIN rows : Enabled(rows[i].cfg, e)})

\* process_rgx_cols fails without the column of the ratios, when there is a row.
Processable(rows) ==
    \A i \in DOMAIN rows : Enabled(rows[i].cfg, "rgx") => "rule_subset_ratio" \in DOMAIN rows[i].cfg

\* A mutant: the tables stay one behind the other.
ConcatUnsorted(rows) == Frame(rows, "rgx") \o Frame(rows, "hs")

\* pd.concat and sort_index
Concat(rows) == Sorted(Frame(rows, "rgx") \o Frame(rows, "hs"))

\* The rate of an engine: a NaN, also that of a row that was recorded without being
\* valid, becomes 0 like the empty cells of the other engine (fillna).
Rate(row, e) == IF Enabled(row.cfg, e) /\ e \in row.vals THEN 1 ELSE 0

\* postprocess_all raises an error for a row with two rates, and adds them otherwise;
\* with the latencies, which are there when the rates are, it does the same.
TwoRates(rows) == \E i \in DOMAIN rows : Rate(rows[i], "rgx") > 0 /\ Rate(rows[i], "hs") > 0

Processed(rows) ==
    LET index == Concat(rows) IN
    [k \in DOMAIN index |->
        [cfg |-> rows[index[k]].cfg, rate |-> Rate(rows[index[k]], "rgx") + Rate(rows[index[k]], "hs")]]
=============================================================================
