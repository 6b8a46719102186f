------------------------------ MODULE PrepRules ------------------------------
(***************************************************************************)
(* The rules of a run, prepared on the receiving machine by                *)
(* src/autotest/scripts/prep_rules.sh: a sample of the rule base is cut    *)
(* into its patterns, the patterns are listed, and the list is compiled    *)
(* for the regex device or converted for Hyperscan.                        *)
(*                                                                         *)
(* The script runs in two ways: once per configuration in the pane of the  *)
(* receiver, and before the first configuration several times AT ONCE, to  *)
(* fill the directory with compiled rules.  All of them work in the same   *)
(* directory, and because curr_id_uniq is the empty string most of the     *)
(* files in between have the same name for every job.                      *)
(*                                                                         *)
(* A file is the set of patterns in it; a pattern is the keyword it came   *)
(* from and the size of the sample, as the sample is drawn with a fixed    *)
(* seed.  A step is one command that reads or writes a file which has the  *)
(* same name for every job, with the commands around it that touch only    *)
(* files named after $curr_id: those commute with every step of the other  *)
(* jobs, whose $curr_id is another.                                        *)
(***************************************************************************)
EXTENDS Naturals, Sequences, FiniteSets, SequencesExt, Selections

CONSTANT NOFILE     \* no file of that name

VARIABLES
    dir,    \* the directory $EXPATH of the receiver
    jobs    \* the scripts that run: their configuration and their next commands

prepVars == <<dir, jobs>>

Keywords == {"content", "pcre"}

\* rules_use_content_kw, rules_use_pcre_kw: the keywords patterns are taken from.
Kw(c) == {k \in Keywords : \/ k = "content" /\ c.rules_use_content_kw = 1
                           \/ k = "pcre"    /\ c.rules_use_pcre_kw = 1}

\* An undefined template variable renders as nothing.
Ratio(c) == IF "rule_subset_ratio" \in DOMAIN c THEN c.rule_subset_ratio ELSE ""

\* The name of the files of a configuration: "all database defining variables".
CurrId(c) == <<c.n_rules, Kw(c), Ratio(c)>>

\* The patterns a configuration asks for.
PatternsOf(c) == {<<k, c.n_rules>> : k \in Kw(c)}

\* What reading a file yields, missing or not.
Read(f) == IF f = NOFILE THEN {} ELSE f

\* A function of file names, with the files that were never written left out.
At(files, id) == IF id \in DOMAIN files THEN files[id] ELSE NOFILE

EmptyDir == [tmp         |-> [k \in Keywords |-> NOFILE],     \* .pcres.tmp, .contents.tmp
             list        |-> [k \in Keywords |-> NOFILE],     \* .pcres, .contents
             regexes     |-> NOFILE,                          \* .regexes
             rxpc        |-> NOFILE,                          \* .rxpc
             precompiled |-> <<>>,                            \* $curr_id.rof2.binary, precompiled_$curr_id
             current     |-> NOFILE,                          \* current.rof2.binary
             hyperscan   |-> NOFILE]                          \* current.hyperscan

-----------------------------------------------------------------------------
(* extract_contents and extract_pcres: extract, sort | uniq; grep; append. *)
Extraction(k) == << <<"uniq", k>>, <<"grep", k>>, <<"append", k>> >>

\* A mutant: the list of the job before is not removed.
ScriptNoClean(c) ==
    (IF "content" \in Kw(c) THEN Extraction("content") ELSE <<>>)
    \o (IF "pcre" \in Kw(c) THEN Extraction("pcre") ELSE <<>>)
    \o (IF c.rgx_enabled = 1 THEN << <<"number">>, <<"find">>, <<"rxpc">>, <<"use">> >>
        ELSE << <<"convert">> >>)

\* The commands the template renders to for a configuration.
Script(c) ==
    << <<"clean">> >>
    \o (IF "content" \in Kw(c) THEN Extraction("content") ELSE <<>>)
    \o (IF "pcre" \in Kw(c) THEN Extraction("pcre") ELSE <<>>)
    \o (IF Kw(c) = {} THEN <<>>        \* EXPRUN-FAILED, exit 1
        ELSE IF c.rgx_enabled = 1
             THEN << <<"number">>, <<"find">>, <<"rxpc">>, <<"use">> >>
             ELSE IF c.hs_enabled = 1 THEN << <<"convert">> >> ELSE <<>>)

NewJob(c) == [cfg |-> c, todo |-> Script(c)]

\* What one command does to the directory.  A file that is written into is
\* truncated first; a copy of a file that is not there does nothing.
\*   clean   sample the rule base into $curr_id.rules, remove the list of patterns
\*   uniq    extract the patterns of a keyword, sort them
\*   number  number the lines and deal the rules out to the subsets: awk, mv and
\*           rules_to_subsets (62-66), the one step with several commands on names
\*           that all scripts share; a script without company cannot tell
\*   find    use the precompiled rules of this configuration, if there are any
\*   rxpc    compile the numbered list and keep the result
Effect(d, c, cmd) ==
    LET id == CurrId(c) IN
    CASE cmd[1] = "clean"   -> [d EXCEPT !.regexes = NOFILE]
      [] cmd[1] = "uniq"    -> [d EXCEPT !.tmp[cmd[2]] = {<<cmd[2], c.n_rules>>}]
      [] cmd[1] = "grep"    -> [d EXCEPT !.list[cmd[2]] = Read(d.tmp[cmd[2]])]
      [] cmd[1] = "append"  -> [d EXCEPT !.regexes = Read(@) \cup Read(d.list[cmd[2]])]
      [] cmd[1] = "number"  -> [d EXCEPT !.rxpc = Read(d.regexes)]
      [] cmd[1] \in {"find", "use"} ->
            IF At(d.precompiled, id) = NOFILE THEN d
            ELSE [d EXCEPT !.current = At(d.precompiled, id)]
      [] cmd[1] = "rxpc"    -> IF Read(d.rxpc) = {} THEN d
                               ELSE [d EXCEPT !.precompiled = Put(@, id, d.rxpc)]
      [] cmd[1] = "convert" -> [d EXCEPT !.hyperscan = Read(d.regexes)]

\* A precompiled file that is found ends the script.
Rest(d, c, todo) ==
    IF todo[1][1] = "find" /\ At(d.precompiled, CurrId(c)) # NOFILE THEN <<>> ELSE Tail(todo)

PrepInit == dir = EmptyDir /\ jobs = <<>>

JobStep(j) ==
    /\ jobs[j].todo # <<>>
    /\ dir' = Effect(dir, jobs[j].cfg, Head(jobs[j].todo))
    /\ jobs' = [jobs EXCEPT ![j].todo = Rest(dir, jobs[j].cfg, @)]

Running == Select(jobs, {j \in DOMAIN jobs : jobs[j].todo # <<>>})

\* The shell is back at its prompt when the last job, the one in the foreground,
\* has ended: its last command compiles working_set_uniq.rxpc, which nothing
\* writes, so the "&& wait" behind a list of jobs does not wait for the others.
Prompt == jobs = <<>> \/ Last(jobs).todo = <<>>

\* The rules the program will load for a configuration.
RulesInPlace(c) == IF c.rgx_enabled = 1 THEN dir.current ELSE dir.hyperscan

PrepTypeOK ==
    /\ dir.regexes = NOFILE \/ \A p \in dir.regexes : p[1] \in Keywords
    /\ \A f \in {dir.rxpc, dir.current, dir.hyperscan} :
          f = NOFILE \/ \A p \in f : p[1] \in Keywords
    /\ \A j \in DOMAIN jobs : \E n \in 0..Len(Script(jobs[j].cfg)) :
          jobs[j].todo = SubSeq(Script(jobs[j].cfg), n + 1, Len(Script(jobs[j].cfg)))
=============================================================================
