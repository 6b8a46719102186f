------------------------------ MODULE RuleTools ------------------------------
(***************************************************************************)
(* The tools for rules, src/data/rule_sampler.py and src/data/rule_lib.py: *)
(* a rule base is reduced to the working set, the rules whose patterns     *)
(* both compilers take (gen_working_set), and a sample of the working set  *)
(* is cut into the numbered patterns of a run, dealt out to subsets or     *)
(* converted for Hyperscan (as prep_rules.sh calls the tools).  Some rule  *)
(* bases are made (gen_prefixes, prefixes_4b_64k_generate.py,              *)
(* regex-gen.py).  The tools for DOCA work on the options of a rule        *)
(* (DocaRules).                                                            *)
(*                                                                         *)
(* Each tool passes its result on in a file whose lines have numbers, and  *)
(* the compilers answer in these numbers: what they say of line i is about *)
(* a rule only through the table of the tool that wrote the line.          *)
(*                                                                         *)
(* A rule is its sid and the values of its options content and pcre, in    *)
(* order.  Of a pattern the model keeps its text and the answers to the    *)
(* questions that are asked about it: is it a negated content (neg), does  *)
(* the pcre end with a modifier rxpc knows (mod), does it compile for      *)
(* either engine (rxpc, hs), is it long enough to be kept (long).          *)
(***************************************************************************)
EXTENDS Naturals, Sequences, FiniteSets, SequencesExt, DocaRules

CONSTANTS
    RuleBases,   \* the rule bases considered
    MaxRules,    \* max_rules of gen_working_set
    Ratios,      \* the ratios of the subsets, in tenths
    WordSize,    \* letters of a prefix
    MaxPrefixes, \* the number of rules that are made
    Segments,    \* segments of a random regular expression
    RawRules     \* the rules given to the tools for DOCA, lists of options

ASSUME ToolsAssumption ==
    {MaxRules, MaxPrefixes} \subseteq Nat /\ WordSize \in Nat \ {0, 1} /\ Segments \subseteq 3..10

\* A rule base as the files have it: lists of patterns; a pcre has a slash that is not
\* escaped, the expression of a content none (suricata_content_to_regex).
WellFormed(db) ==
    /\ IsList(db)
    /\ \A i \in DOMAIN db : IsList(db[i].content) /\ IsList(db[i].pcre)
    /\ \A i, j \in DOMAIN db : Range(db[i].content) \cap Range(db[j].pcre) = {}

ASSUME BasesAssumption ==
    \A db \in RuleBases : WellFormed(db) /\ \A i, j \in DOMAIN db : db[i].sid = db[j].sid => i = j

ASSUME RatiosAssumption == Ratios \subseteq Seq(Nat)

ASSUME OptionsAssumption == \A opts \in RawRules : IsRule(opts)

VARIABLES
    tool,        \* the tool that runs next
    base,        \* the rule base
    iterative,   \* argument of gen_working_set
    working,     \* the file the filters read and write
    uncompiled,  \* the last summary of rxpc
    kws,         \* the keywords the patterns are taken from
    sampled,     \* the rules of a run
    regexes,     \* their patterns, one per line
    numbered,    \* the numbered list for rxpc
    ratio,       \* the ratios of the run
    subsets,     \* the list dealt out
    hyperscan,   \* current.hyperscan
    raw,         \* a rule given to the tools for DOCA
    cleaned,     \* the options left of it
    accepted     \* filter keeps it

filtering == <<working, uncompiled>>
running   == <<kws, sampled, regexes, numbered, ratio, subsets, hyperscan>>
doca      == <<raw, cleaned, accepted>>
toolVars  == <<tool, base, iterative, filtering, running, doca>>

\* What a loop over a sequence has seen when it breaks at the k-th element; 0: it does not.
Before(s, k) == IF k = 0 THEN s ELSE SubSeq(s, 1, k - 1)

\* The lines a list of rules is turned into: a pattern and the sid it is from.
Lines(db, patterns) ==
    FlattenSeq([i \in DOMAIN db |->
        [j \in DOMAIN patterns[i] |-> [sid |-> db[i].sid, pat |-> patterns[i][j]]]])
-----------------------------------------------------------------------------
(* filter_rxpc                                                             *)

FirstNegated(r) == Earliest({j \in DOMAIN r.content : r.content[j].neg})
FirstIllegal(r) == Earliest({j \in DOMAIN r.pcre : ~r.pcre[j].mod})

\* A rule with a negated content or a pcre without a modifier of rxpc is given up,
\* after the patterns in front of that one have been numbered.
Legal(r)     == FirstNegated(r) = 0 /\ FirstIllegal(r) = 0
Submitted(r) == Before(r.content, FirstNegated(r)) \o Before(r.pcre, FirstIllegal(r))

\* The lines for rxpc.
RxpcLines(db) == Lines(db, [i \in DOMAIN db |-> Submitted(db[i])])

\* The patterns submitted of the rules in front of the i-th.
Ahead(db, i) == SumFunctionOnSet([k \in DOMAIN db |-> Len(Submitted(db[k]))], 1..(i - 1))

\* The rules read before the number of the next pattern reaches max_rules.
ReadRules(db) == {i \in DOMAIN db : Ahead(db, i) + 1 < MaxRules}

\* rxpc names at least one pattern that it cannot compile, when there is one.
Reports(lines) ==
    LET bad == {i \in DOMAIN lines : ~lines[i].pat.rxpc} IN {r \in SUBSET bad : bad # {} => r # {}}

\* A mutant: the table is filled after the number has been advanced.
SidOfLate(lines, i) == lines[IF i = 1 THEN Len(lines) ELSE i - 1].sid

\* id2sid
SidOf(lines, i) == lines[i].sid

\* A mutant: the loop filters the rule base again.
BaseAgain == base

\* filter_rxpc reads the rule base first, and then what it has written itself.
DbIn == working

FilterRxpc ==
    /\ tool = "rxpc"
    /\ \E read \in {ReadRules(DbIn)} : \E lines \in {RxpcLines(Select(DbIn, read))} :
       \E reported \in Reports(lines) :
          /\ uncompiled' = Cardinality(reported)
          /\ working' = Select(DbIn, {k \in DOMAIN DbIn :
                 /\ DbIn[k].sid \in {DbIn[i].sid : i \in read} /\ Legal(DbIn[k])
                 /\ DbIn[k].sid \notin {SidOf(lines, i) : i \in reported}})
    /\ tool' = "summary"
    /\ UNCHANGED <<base, iterative, running, doca>>

\* full_rxpc_filter: again, until the summary counts nothing.
Summary ==
    /\ tool = "summary"
    /\ tool' = IF iterative /\ uncompiled > 0 THEN "rxpc" ELSE "hs"
    /\ UNCHANGED <<base, iterative, filtering, running, doca>>
-----------------------------------------------------------------------------
(* filter_hyperscan                                                        *)

\* to_hyperscan on rules: the pcres of a rule, then its contents between slashes.
HsPatterns(r) == r.pcre \o r.content

\* hscheck names the lines that do not compile by the numbers written in front of
\* them, which begin with 1; the table id2sid begins with 0.  The last line is not
\* in the table: KeyError.
FilterHyperscan ==
    /\ tool = "hs"
    /\ LET lines == Lines(working, [i \in DOMAIN working |-> HsPatterns(working[i])])
           bad   == {i \in DOMAIN lines : ~lines[i].pat.hs}
       IN IF Len(lines) \in bad
          THEN tool' = "failed" /\ UNCHANGED working
          ELSE /\ tool' = "sample"
               /\ working' = Select(working, {k \in DOMAIN working :
                                 working[k].sid \notin {lines[i + 1].sid : i \in bad}})
    /\ UNCHANGED <<base, iterative, uncompiled, running, doca>>
-----------------------------------------------------------------------------
(* The patterns of a run                                                   *)

\* random.sample: some of the rules, in any order.
Sample ==
    /\ tool = "sample"
    /\ \E some \in SUBSET Range(working) : sampled' \in SetToSeqs(some)
    /\ kws' \in SUBSET Keywords \ {{}}
    /\ tool' = "extract"
    /\ UNCHANGED <<base, iterative, filtering, regexes, numbered, ratio, subsets, hyperscan, doca>>

\* extract_content_strings
Contents(db) == FlattenSeq([i \in DOMAIN db |-> db[i].content])

\* extract_pcres
Pcres(db) == FlattenSeq([i \in DOMAIN db |-> db[i].pcre])

\* sort | uniq, grep
Unique(s) == SetToSeq({p \in Range(s) : p.long})

\* The contents are written first, the pcres behind them.
Extract ==
    /\ tool = "extract"
    /\ regexes' = (IF "content" \in kws THEN Unique(Contents(sampled)) ELSE <<>>)
                  \o (IF "pcre" \in kws THEN Unique(Pcres(sampled)) ELSE <<>>)
    /\ tool' \in {"number", "convert"}
    /\ UNCHANGED <<base, iterative, filtering, kws, sampled, numbered, ratio, subsets, hyperscan, doca>>

\* awk '{print NR "," $0}'
Number ==
    /\ tool = "number"
    /\ numbered' = [i \in DOMAIN regexes |-> <<i, regexes[i]>>]
    /\ ratio' \in Ratios
    /\ tool' = "subsets"
    /\ UNCHANGED <<base, iterative, filtering, kws, sampled, regexes, subsets, hyperscan, doca>>

Total(s) == SumFunctionOnSet(s, DOMAIN s)

\* int(ratio * total) of one ratio: a product that is a whole number may be
\* represented by the number below.
Counts(r, total) ==
    {n \in 0..total : 10 * n <= r * total /\ r * total <= 10 * (n + 1)}

\* A mutant: what rounding leaves is not given to the last subset.
DealtUnadjusted(counts, total) == counts

\* The last subset takes what rounding leaves.
Dealt(counts, total) == [counts EXCEPT ![Len(counts)] = total - (Total(counts) - @)]

\* rules_to_subsets; the ValueErrors for ratios that do not make 1 and for fewer
\* rules than ratios.
RulesToSubsets ==
    /\ tool = "subsets"
    /\ IF Total(ratio) # 10 \/ Len(numbered) <= Len(ratio)
       THEN tool' = "failed" /\ UNCHANGED subsets
       ELSE /\ tool' = "done"
            /\ \E counts \in [DOMAIN ratio -> 0..Len(numbered)] :
                  /\ \A i \in DOMAIN ratio : counts[i] \in Counts(ratio[i], Len(numbered))
                  /\ LET dealt == Dealt(counts, Len(numbered))
                         First(i) == SumFunctionOnSet(dealt, 1..(i - 1)) + 1
                     IN subsets' = [i \in DOMAIN dealt |->
                                       SubSeq(numbered, First(i), First(i) + dealt[i] - 1)]
    /\ UNCHANGED <<base, iterative, filtering, kws, sampled, regexes, numbered, ratio, hyperscan, doca>>

\* to_hyperscan on patterns: what is between the slashes, without the modifiers.
ToHyperscan ==
    /\ tool = "convert"
    /\ hyperscan' = [i \in DOMAIN regexes |-> regexes[i].text]
    /\ tool' = "done"
    /\ UNCHANGED <<base, iterative, filtering, kws, sampled, regexes, numbered, ratio, subsets, doca>>
-----------------------------------------------------------------------------
(* Rule bases that are made                                                *)

PatLen == 5   \* rules_patlen_greaterthan

\* A pattern that compiles everywhere, of a length.
Simple(text, length) ==
    [text |-> text, neg |-> FALSE, mod |-> TRUE, rxpc |-> TRUE, hs |-> TRUE, long |-> length >= PatLen]

\* The words of n letters, as itertools has them: the last letter changes fastest.
Words(n, letters) ==
    [i \in 1..letters^n |-> [j \in 1..n |-> (((i - 1) \div letters^(n - j)) % letters) + 1]]

\* The first n of those at the positions in K.
FirstOf(words, K, n) == [i \in 1..n |-> Select(words, K)[i]]

\* gen_prefixes: the combinations of the letters.
GenPrefixes(size, letters, max) ==
    LET words == Words(size, letters)
    IN FirstOf(words, {i \in DOMAIN words : \A j \in 2..size : words[i][j - 1] < words[i][j]}, max)

\* is_alphabetical
IsAlphabetical(w) == \A j \in 2..Len(w) : w[j - 1] <= w[j]

\* prefixes_4b_64k_generate.py: the words whose letters are not in order.
GenWords(size, letters, wanted) ==
    LET words == Words(size, letters)
    IN FirstOf(words, {i \in DOMAIN words : ~IsAlphabetical(words[i])}, wanted)

\* A rule with one content for every pattern, numbered from a first sid.
RulesOf(patterns, first) ==
    [i \in DOMAIN patterns |-> [sid |-> first + i - 1, content |-> <<patterns[i]>>, pcre |-> <<>>]]

Contained(words) == [i \in DOMAIN words |-> Simple(words[i], Len(words[i]))]

\* rules_from_patterns
RulesFromPatterns(words) == RulesOf(Contained(words), 0)

\* generate_regex_segment with the configuration of main: one character; random_valid_regex:
\* between 3 and 10 of them.  Two patterns stand for those of one length.
RandomRegexes == {Simple(<<n, k>>, n) : n \in Segments, k \in 1..2}

\* generate_and_write_patterns: the patterns may repeat.
RandomRules(n) == {RulesOf(patterns, 1) : patterns \in [1..n -> RandomRegexes]}

\* An alphabet as large as the words wanted need.
Letters == MaxPrefixes + WordSize - 1

MadeBases ==
    {RulesFromPatterns(GenPrefixes(WordSize, Letters, MaxPrefixes)),
     RulesOf(Contained(GenWords(WordSize, Letters, MaxPrefixes)), 1)}
    \cup RandomRules(MaxPrefixes)
-----------------------------------------------------------------------------
(* cleanfix and filter                                                     *)

CleanFix ==
    /\ tool = "cleanfix"
    /\ IF CleanAndFix(raw) = {}
       THEN tool' = "failed" /\ UNCHANGED cleaned
       ELSE tool' = "filter" /\ cleaned' \in CleanAndFix(raw)
    /\ UNCHANGED <<base, iterative, filtering, running, raw, accepted>>

\* doca_filter
DocaFilter ==
    /\ tool = "filter"
    /\ \E header \in BadHeaders \cup {"plain"} : accepted' = Accepted(cleaned, header)
    /\ tool' = "done"
    /\ UNCHANGED <<base, iterative, filtering, running, raw, cleaned>>
-----------------------------------------------------------------------------
ToolsInit ==
    /\ \/ tool = "rxpc" /\ base \in RuleBases /\ iterative \in BOOLEAN /\ raw = <<>>
       \/ tool = "sample" /\ base \in MadeBases /\ iterative = TRUE /\ raw = <<>>
       \/ tool = "cleanfix" /\ base = <<>> /\ iterative = FALSE /\ raw \in RawRules
    /\ working = base /\ uncompiled = 0
    /\ kws = {} /\ sampled = <<>> /\ regexes = <<>> /\ numbered = <<>> /\ ratio = <<>>
    /\ subsets = <<>> /\ hyperscan = <<>>
    /\ cleaned = <<>> /\ accepted = FALSE

\* The tools have run.
Ended == tool \in {"done", "failed"} /\ UNCHANGED toolVars

\* main: the action asked for, or the next of the script
ToolsNext ==
    \/ FilterRxpc \/ Summary \/ FilterHyperscan \/ Sample \/ Extract
    \/ Number \/ RulesToSubsets \/ ToHyperscan \/ CleanFix \/ DocaFilter \/ Ended

ToolsSpec == ToolsInit /\ [][ToolsNext]_toolVars

\* The loop of full_rxpc_filter goes on.
FairTools == ToolsSpec /\ WF_toolVars(FilterRxpc \/ Summary)
-----------------------------------------------------------------------------
Filtered == tool \notin {"rxpc", "summary"}

\* The content or pcre the option at a place stands behind, if there is one.
Owner(opts, at) ==
    LET front == {o \in Range(opts) : o.name \in Keywords /\ o.at < at}
    IN {o \in front : \A p \in front : p.at <= o.at}

ModifiersOf(opts) == {o \in Range(opts) : o.name \in ContentModifiers}

\* The iterated filter keeps the rules of the rule base all of whose patterns can be
\* given to rxpc and compile, no more and no fewer, although rxpc answers in numbers
\* of patterns, of which a rule has several, and need not name all that fail at once
\* (filter_rxpc, full_rxpc_filter).
WorkingSetExact ==
    iterative /\ tool = "hs" =>
        working = Select(base, {i \in ReadRules(base) :
            Legal(base[i]) /\ \A p \in Range(Submitted(base[i])) : p.rxpc})

\* Every long pattern of the keywords asked for, of every rule of the sample, is in
\* exactly one subset and has a number of its own, and there are as many subsets as
\* ratios, whatever rounding does; with an iterated working set all of them compile
\* (extract_contents and extract_pcres of prep_rules.sh, rules_to_subsets).
PatternsDealtOut ==
    tool = "done" /\ subsets # <<>> =>
        LET list  == FlattenSeq(subsets)
            asked == UNION {Range(sampled[j][k]) : j \in DOMAIN sampled, k \in kws}
        IN /\ Len(subsets) = Len(ratio)
           /\ \A i \in DOMAIN list : list[i][1] = i
           /\ {list[i][2] : i \in DOMAIN list} = {p \in asked : p.long}
           /\ \A i, j \in DOMAIN list : list[i][2] = list[j][2] => i = j
           /\ iterative => \A i \in DOMAIN list : list[i][2].rxpc

\* The iteration of full_rxpc_filter comes to an end: every time rxpc names a pattern
\* its rule goes.
FilterEnds == <>Filtered

\* What clean_and_fix leaves of a rule has the contents that are not negated, in their
\* order, and no pcre; a modifier is left if and only if the content it stands behind
\* is, and stands behind the same one.  (A modifier in front of every content takes all
\* of its name with it.)  The loops of clean_and_fix walk over two lists while one of
\* them becomes shorter; a modifier that stays without its content is one of the content
\* before (clean_and_fix, clean_dangling_modifiers).
CleanedRight ==
    tool = "filter" =>
        LET kept == {m \in ModifiersOf(raw) :
                        /\ \E o \in Owner(raw, m.at) : ~Unwanted(o)
                        /\ \A n \in ModifiersOf(raw) : n.name = m.name => Owner(raw, n.at) # {}}
        IN /\ \A i, j \in DOMAIN cleaned : i < j => cleaned[i].at < cleaned[j].at
           /\ {o \in Range(cleaned) : o.name \in Keywords} =
                 {o \in Range(raw) : IsContent(o) /\ ~o.neg}
           /\ ModifiersOf(cleaned) = kept
           /\ \A m \in kept : Owner(cleaned, m.at) = Owner(raw, m.at)

\* "RXPC + HS filtered working set written to" (rule_sampler.py:533): what is written
\* compiles for Hyperscan.
HsFiltered ==
    tool = "sample" =>
        \A i \in DOMAIN working : \A p \in Range(HsPatterns(working[i])) : p.hs
=============================================================================
