----------------------------- MODULE ParamFiles -----------------------------
(***************************************************************************)
(* The files src/autotest/params_*.py that describe a series: the number   *)
(* of repetitions, the parameters with their values, and the filters over  *)
(* their combinations.                                                     *)
(*                                                                         *)
(* A file keeps its parameters in their order.  Those left out have one    *)
(* value that neither the filters nor the rules depend on.  The values of  *)
(* the others stand for longer lists, and where a file varies several      *)
(* parameters that nothing but the generator or the program reads, one of  *)
(* them (target_tp or pkt_size) stands for all.  What is cut down besides  *)
(* is said with the file.                                                  *)
(***************************************************************************)
EXTENDS Naturals, Sequences, FiniteSets, Selections

\* n_rules, whose position is the first everywhere, and the keywords, at the end.
Sizes(n) == << <<"n_rules", [i \in 1..n |-> i]>> >>
Keyword(content, pcre) ==
    << <<"rules_use_content_kw", content>>, <<"rules_use_pcre_kw", pcre>> >>

Engines(rgx, hs) == << <<"rgx_enabled", rgx>>, <<"hs_enabled", hs>> >>
Whole == << <<"rule_subset_ratio", <<"1.0">>>> >>

\* A file; rgxFlags are the values of hs_flags the last but one filter lets through
\* for the regex device.
File(reps, rgxFlags, params) == [reps |-> reps, rgxFlags |-> rgxFlags, params |-> params]

\* Both engines and several sizes, and between them what only the generator reads, so
\* that the rules of a size are prepared again and again; the keyword pcre, which is 1
\* in the file, would add three commands to every script.
HsVsRxpCores ==
    File(1, {"default"}, Sizes(2) \o Whole \o << <<"target_tp", <<1, 2>>>>,
                                                 <<"hs_flags", <<"default">>>> >>
                         \o Engines(<<0, 1>>, <<0, 1>>) \o Keyword(<<1>>, <<0>>))

\* Both engines, twice.
Latency ==
    File(2, {"default"}, Sizes(1) \o Whole \o << <<"hs_flags", <<"default">>>> >>
                         \o Engines(<<0, 1>>, <<0, 1>>) \o Keyword(<<1>>, <<1>>))

\* The regex device and sizes of packets; of the sizes of the rule base one.
Heatmap ==
    File(1, {"default"}, Sizes(1) \o Whole \o << <<"pkt_size", <<128, 256>>>>,
                                                 <<"hs_flags", <<"default">>>> >>
                         \o Engines(<<1>>, <<0>>) \o Keyword(<<1>>, <<1>>))

\* The rules are dealt out to more and more subsets.
RuleSubsets ==
    File(1, {"default"}, Sizes(1) \o << <<"rule_subset_ratio", <<"1.0", "0.1x10">>>>,
                                        <<"hs_flags", <<"default">>>> >>
                         \o Engines(<<1>>, <<0>>) \o Keyword(<<1>>, <<1>>))

\* Rules made of prefixes, which are not split and have no pcre; the filter over
\* hs_flags is missing; g_nreps is 2.
PrefixMem ==
    File(1, {"default"}, Sizes(2) \o << <<"hs_flags", <<"default">>>> >>
                         \o Engines(<<1>>, <<0>>) \o Keyword(<<1>>, <<0>>))

\* The keyword pcre comes and goes, and the filter gives the regex device the flags
\* that are NOT the first; without the configurations for Hyperscan, g_nreps is 2.
BigExp ==
    File(1, {"other"}, Sizes(1) \o << <<"hs_flags", <<"default", "other">>>> >>
                       \o Engines(<<1>>, <<0>>) \o Keyword(<<1>>, <<1, 0>>))

\* g_nreps is missing; 0 stands for that.
MinPktSize ==
    File(0, {"other"}, Sizes(2) \o << <<"pkt_size", <<512, 1500>>>>,
                                      <<"hs_flags", <<"default", "other">>>> >>
                       \o Engines(<<1>>, <<0>>) \o Keyword(<<1>>, <<1>>))
-----------------------------------------------------------------------------
(* itertools.product over the parameters, the last one changing fastest.   *)
Product(ps) ==
    LET product[k \in 0 .. Len(ps)] ==
            IF k = 0 THEN << <<>> >>
            ELSE LET name == ps[k][1]
                     vals == ps[k][2]
                     n    == Len(vals)
                 IN  [i \in 1 .. Len(product[k - 1]) * n |->
                         Put(product[k - 1][((i - 1) \div n) + 1], name, vals[((i - 1) % n) + 1])]
    IN  product[Len(ps)]

\* g_param_filters: one engine, its flags, and some keyword.
Admitted(f, c) ==
    /\ c.rgx_enabled + c.hs_enabled = 1
    /\ c.rgx_enabled = 1 => c.hs_flags \in f.rgxFlags
    /\ c.rules_use_content_kw + c.rules_use_pcre_kw > 0

\* The combinations the filters admit.
Combinations(f) ==
    LET all == Product(f.params)
    IN  Select(all, {i \in DOMAIN all : Admitted(f, all[i])})

\* The parameters the filters and the preparation of the rules read.
Needed == {"n_rules", "rgx_enabled", "hs_enabled", "rules_use_content_kw", "rules_use_pcre_kw"}

\* _build_configs: n_repeats copies of every combination the filters admit.
PlanOf(f) ==
    LET admitted == Combinations(f)
    IN  [i \in 1 .. f.reps * Len(admitted) |-> admitted[((i - 1) \div f.reps) + 1]]

\* The parameters a series changes.
Varied(f) ==
    {k \in {f.params[i][1] : i \in DOMAIN f.params} :
        Cardinality({PlanOf(f)[i][k] : i \in DOMAIN PlanOf(f)}) > 1}

\* get_param_vals, with the name in front
Given(f, name) == Select(f.params, {i \in DOMAIN f.params : f.params[i][1] = name})

\* precompile_rxpc: a product of its own, for the regex device and without a filter.
PrecompiledOf(f) ==
    Product(Given(f, "n_rules") \o Given(f, "rules_use_content_kw") \o Given(f, "rules_use_pcre_kw")
            \o Engines(<<1>>, <<0>>))
=============================================================================
