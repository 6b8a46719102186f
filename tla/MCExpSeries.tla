----------------------------- MODULE MCExpSeries -----------------------------
(* The parameter files of the repository and the trigger of the runner.     *)
EXTENDS ExpSeries

AllFiles == {HsVsRxpCores, Latency, Heatmap, RuleSubsets, PrefixMem, BigExp, MinPktSize}

\* This file in two: both sizes with one target, so that precompilations meet, and both
\* targets with one size, so that the engines alternate.
OneTarget == [HsVsRxpCores EXCEPT !.params[3] = <<"target_tp", <<1>>>>]
OneSize   == [HsVsRxpCores EXCEPT !.params[1] = Sizes(1)[1]]
CutFiles  == (AllFiles \ {HsVsRxpCores}) \cup {OneTarget, OneSize}

\* register_parameter_event
RegisteredTriggers == {"n_rules", "rgx_enabled", "rule_subset_ratio"}
=============================================================================
