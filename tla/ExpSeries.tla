------------------------------ MODULE ExpSeries ------------------------------
(***************************************************************************)
(* A series of experiments: the main function of                           *)
(* src/autotest/exp_runner.py over the ParameterHandler, the               *)
(* ParameterEventManager and the DataManager of src/autotest/expelib.py.   *)
(*                                                                         *)
(* The program takes the configurations one after the other, prepares the  *)
(* rules when a parameter of its trigger changed, repeats the run until    *)
(* its result is valid, and then writes the results and the state of the   *)
(* parameters to two files, in that order.  It may stop at any statement,  *)
(* by an exception or by its user, and is then started again from the two  *)
(* files.                                                                  *)
(*                                                                         *)
(* A run (module ExpRunner) is one step here; the columns of its result    *)
(* are the marker of the engine and "app", the line the program prints     *)
(* last.  The writing of a file is one step, too: a stop between its       *)
(* truncation and the last byte is left out.                               *)
(***************************************************************************)
EXTENDS PrepRules, ParamFiles, Results

CONSTANTS
    Files,       \* the parameter files considered
    Triggers,    \* the parameters the preparation of the rules is registered for
    MaxCrashes,  \* bound on the stops of the program
    MaxInvalid,  \* bound on the rows recorded without being valid
    NONE         \* None

ASSUME SeriesAssumption == MaxCrashes \in Nat /\ MaxInvalid \in Nat

\* A file has a list of parameters with lists of values; without one that the filters
\* or the scripts read, the program would end before its first run.
ASSUME FilesAssumption ==
    \A f \in Files :
        /\ f.reps \in Nat
        /\ Needed \subseteq {f.params[k][1] : k \in DOMAIN f.params}
        /\ f.params \in Seq({f.params[k] : k \in DOMAIN f.params})
        /\ \A k \in DOMAIN f.params : Len(f.params[k][2]) \in Nat

VARIABLES
    file,      \* the parameter file, the argument exp_params
    pc,        \* what main does
    sets,      \* params_sets: the configurations left
    curr,      \* curr_params
    prev,      \* _previous_params
    blank,     \* trigger_on_blank
    entries,   \* DataManager.entries
    columns,   \* DataManager.columns
    csv,       \* the file of the results: its header and its rows
    saved,     \* the file of the state of the parameters
    crashes,   \* stops so far
    resumes,   \* starts from a saved state so far
    prepared,  \* the callback prepared the rules in place, and nothing else ran
    cut,       \* the configurations whose output was cut off in a valid run
    shared     \* the names under which a script that did not run alone compiles rules

memory == <<sets, curr, prev, blank, entries, columns, prepared>>
disk   == <<csv, saved>>
ghosts == <<crashes, resumes, cut, shared>>
vars   == <<file, pc, memory, disk, ghosts, prepVars>>
-----------------------------------------------------------------------------
\* What a file says, computed once.
Said == [f \in Files |->
            [plan        |-> PlanOf(f),
             configs     |-> {PlanOf(f)[i] : i \in DOMAIN PlanOf(f)},
             varied      |-> Varied(f),
             precompiled |-> PrecompiledOf(f)]]

Plan        == Said[file].plan
Configs     == Said[file].configs
Precompiled == Said[file].precompiled
AllConfigs  == UNION {Said[f].configs : f \in Files}

\* The columns of a result; a row has values in some of those it has.
ResultColumns == {"app", "rgx", "hs"}
RowsOf(D) == {r \in [cfg : D, vals : SUBSET ResultColumns, keys : SUBSET ResultColumns] :
                 r.vals \subseteq r.keys}

\* What the file of the state holds.
StatesOf(D) == [sets : Seq(D), curr : D]

\* None is none of the values it is told from.
ASSUME NoneAssumption == /\ NONE \notin AllConfigs
                         /\ NONE \notin Seq(RowsOf(AllConfigs))
                         /\ NONE \notin StatesOf(AllConfigs)

\* The engines and the keywords are switched on and off.
ASSUME FlagsAssumption ==
    \A c \in AllConfigs :
        {c.rgx_enabled, c.hs_enabled, c.rules_use_content_kw, c.rules_use_pcre_kw} \subseteq {0, 1}

\* The configurations rules are prepared for.
Ruled(f) == Said[f].configs \cup {Said[f].precompiled[i] : i \in DOMAIN Said[f].precompiled}
AllRuled == UNION {Ruled(f) : f \in Files}

\* A missing file is no file of patterns.
ASSUME NoFileAssumption == \A c \in AllRuled : \A F \in SUBSET PatternsOf(c) : F # NOFILE

Count(s, Test(_)) == Cardinality({i \in DOMAIN s : Test(s[i])})
-----------------------------------------------------------------------------
(* DataManager                                                             *)

Engine(c) == IF c.rgx_enabled = 1 THEN "rgx" ELSE "hs"

\* A mutant: the markers of both engines.
ValidBoth(vals) == {"rgx", "hs"} \subseteq vals

\* validate_results: a result with the marker of either engine.
Valid(vals) == "rgx" \in vals \/ "hs" \in vals

\* A row has a value in some columns (vals) and NaN in the others of its keys.
Row(vals, keys) == [cfg |-> curr, vals |-> vals, keys |-> keys]

\* update_cols
UpdateCols(vals) == columns \cup vals

\* has_invalid, after fill_invalid: a column of the data manager has no value.
HasInvalid(vals, cols) == ~(cols \subseteq vals)

\* add_entry: the columns are extended first; a row with a NaN needs force.
AddEntry(vals, force) ==
    /\ columns' = UpdateCols(vals)
    /\ entries' = IF ~HasInvalid(vals, columns') \/ force
                  THEN Append(entries, Row(vals, columns'))
                  ELSE entries

\* results_to_csv: the columns of all rows, sorted; every row has all of them.
Header(rows) == UNION {rows[i].keys : i \in DOMAIN rows}

\* The column that comes first: only there a NaN is read back as written,
\* as the values after it keep the blank of their separator.
First(header) == IF "app" \in header THEN "app" ELSE IF "hs" \in header THEN "hs" ELSE "index"

\* A mutant: a row with a NaN in any column is not added.
LoadedStrict(rows) == SelectSeq(rows, LAMBDA r : Header(rows) \subseteq r.vals)

\* load_from_csv: a row whose first value is NaN is not added, and the others
\* have all columns.
Loaded(rows) ==
    LET header == Header(rows)
        kept   == Select(rows, {i \in DOMAIN rows : First(header) \in rows[i].vals \cup {"index"}})
    IN [i \in DOMAIN kept |-> [kept[i] EXCEPT !.keys = header]]
-----------------------------------------------------------------------------
Init ==
    /\ PrepInit
    /\ file \in Files /\ pc = "off" /\ crashes = 0 /\ resumes = 0 /\ cut = {}
    /\ sets = <<>> /\ curr = NONE /\ prev = NONE /\ blank = TRUE
    /\ entries = <<>> /\ columns = {} /\ csv = NONE /\ saved = NONE
    /\ prepared = FALSE /\ shared = {}

\* load_state puts the configuration of the last run in front of the ones left.
Resumed == <<saved.curr>> \o saved.sets

\* The file is imported by name: without g_nreps, AttributeError.
LoadFile ==
    /\ pc = "off" /\ file.reps = 0
    /\ pc' = "refused"
    /\ UNCHANGED <<file, memory, disk, ghosts, prepVars>>

NewDataManager == columns' = {}

NewEventManager(onBlank) == prev' = NONE /\ blank' = onBlank

\* main up to setup(): from the saved state when there is one.
Start ==
    /\ pc = "off" /\ file.reps > 0
    /\ pc' = "setup"
    /\ NewDataManager /\ NewEventManager(saved = NONE)
    /\ IF saved = NONE
       THEN /\ sets' = Plan /\ entries' = <<>>
            /\ UNCHANGED resumes
       ELSE /\ sets' = Resumed /\ entries' = Loaded(csv)
            /\ resumes' = resumes + 1
    /\ curr' = NONE /\ prepared' = FALSE
    /\ UNCHANGED <<file, disk, crashes, cut, shared, prepVars>>

\* remote_tmux_stop: the panes are killed, with what runs in them.
StopPanes == jobs' = <<>>

\* FileGenerator: the directory of the experiment is removed.
CleanDir == dir' = EmptyDir

Setup ==
    /\ pc = "setup"
    /\ pc' = "precompile"
    /\ StopPanes /\ CleanDir /\ shared' = {}
    /\ UNCHANGED <<file, memory, disk, crashes, resumes, cut>>

\* The names of the scripts that run, when there are several.
Company(js) ==
    LET busy == {j \in DOMAIN js : js[j].todo # <<>>}
    IN  IF \E i, j \in busy : i # j THEN {CurrId(js[j].cfg) : j \in busy} ELSE {}

\* precompile_rxpc: "sh a & sh b && wait".
Precompile ==
    /\ pc = "precompile"
    /\ pc' = "next"
    /\ jobs' = [j \in DOMAIN Precompiled |-> NewJob(Precompiled[j])]
    /\ shared' = Company(jobs')
    /\ UNCHANGED <<file, memory, disk, crashes, resumes, cut, dir>>

\* _get_param_diff
ParamDiff(c) ==
    IF prev = NONE THEN (IF blank THEN DOMAIN c ELSE {})
    ELSE {k \in DOMAIN prev : prev[k] # c[k]}

PopParams == curr' = Head(sets) /\ sets' = Tail(sets)

\* process_parameters: the callback sources prep_rules.sh.
ProcessParameters(c) ==
    /\ prev' = c
    /\ IF ParamDiff(c) \cap Triggers # {}
       THEN /\ jobs' = Append(Running, NewJob(c)) /\ prepared' = (Running = <<>>)
            /\ shared' = shared \cup Company(jobs')
       ELSE UNCHANGED <<jobs, prepared, shared>>

NextParams ==
    /\ pc = "next" /\ Prompt /\ sets # <<>>
    /\ pc' = "run"
    /\ PopParams /\ ProcessParameters(Head(sets))
    /\ UNCHANGED <<file, blank, entries, columns, disk, crashes, resumes, cut, dir>>

\* A run that ends with an error is repeated; without rules the program never
\* gets to receive packets, and the run always ends so.
RunFails ==
    /\ pc = "run" /\ Prompt
    /\ UNCHANGED vars

\* A result that is not valid: the message about it calls add_entry once more,
\* and that call is not undone.
RunInvalid ==
    /\ pc = "run" /\ Prompt /\ RulesInPlace(curr) # NOFILE
    /\ Count(entries, LAMBDA r : ~Valid(r.vals)) < MaxInvalid
    /\ AddEntry({}, FALSE)
    /\ UNCHANGED <<file, pc, sets, curr, prev, blank, prepared, disk, ghosts, prepVars>>

\* A mutant: the results are not written.
RunValidUnsaved ==
    /\ pc = "run" /\ Prompt /\ RulesInPlace(curr) # NOFILE
    /\ \E vals \in {{Engine(curr)}, {Engine(curr), "app"}} :
          /\ Valid(vals) /\ AddEntry(vals, TRUE)
          /\ cut' = IF "app" \in vals THEN cut ELSE cut \cup {curr}
    /\ pc' = "save"
    /\ UNCHANGED <<file, sets, curr, prev, blank, prepared, disk, crashes, resumes, shared, prepVars>>

\* A valid result, complete or cut off before its last line.
RunValid ==
    /\ pc = "run" /\ Prompt /\ RulesInPlace(curr) # NOFILE
    /\ \E vals \in {{Engine(curr)}, {Engine(curr), "app"}} :
          /\ Valid(vals) /\ AddEntry(vals, TRUE)
          /\ cut' = IF "app" \in vals THEN cut ELSE cut \cup {curr}
    /\ pc' = "export"
    /\ UNCHANGED <<file, sets, curr, prev, blank, prepared, disk, crashes, resumes, shared, prepVars>>

\* A mutant: only the row of this run is written.
ExportLast ==
    /\ pc = "export"
    /\ pc' = "save"
    /\ csv' = <<Last(entries)>>
    /\ UNCHANGED <<file, memory, saved, ghosts, prepVars>>

ExportCsv ==
    /\ pc = "export"
    /\ pc' = "save"
    /\ csv' = entries
    /\ UNCHANGED <<file, memory, saved, ghosts, prepVars>>

\* A mutant: the current configuration is still among the ones left.
SavePeeked ==
    /\ pc = "save"
    /\ pc' = "next"
    /\ saved' = [sets |-> <<curr>> \o sets, curr |-> curr]
    /\ UNCHANGED <<file, memory, csv, ghosts, prepVars>>

SaveState ==
    /\ pc = "save"
    /\ pc' = "next"
    /\ saved' = [sets |-> sets, curr |-> curr]
    /\ UNCHANGED <<file, memory, csv, ghosts, prepVars>>

\* peek_params finds nothing; teardown() kills the panes.
Finish ==
    /\ pc = "next" /\ Prompt /\ sets = <<>>
    /\ pc' = "done"
    /\ StopPanes
    /\ UNCHANGED <<file, memory, disk, ghosts, dir>>

\* An exception or the user ends the program.  What runs in the panes goes on until
\* setup() kills it and removes the directory; here it stops at once.
Stop ==
    /\ crashes < MaxCrashes
    /\ pc' = "off" /\ crashes' = crashes + 1 /\ jobs' = <<>>
    /\ sets' = <<>> /\ curr' = NONE /\ prev' = NONE /\ blank' = TRUE
    /\ entries' = <<>> /\ columns' = {} /\ prepared' = FALSE
    /\ UNCHANGED <<file, disk, resumes, cut, shared, dir>>

Crash == pc \notin {"off", "done", "refused"} /\ Stop

\* BatchedUploader.upload, of the sources in setup() and of the scripts that
\* precompile, raises an error where remote_upload_file only writes to the log.
UploadFails == pc \in {"setup", "precompile"} /\ Stop

\* check_error: the output of the build has a reason for its failure.
BuildFails == pc = "setup" /\ Stop

Shell == /\ \E j \in DOMAIN jobs : JobStep(j)
         /\ UNCHANGED <<file, pc, memory, disk, ghosts>>

\* The program has ended.
Ended == pc \in {"done", "refused"} /\ UNCHANGED vars

Main == \/ LoadFile \/ Start \/ Setup \/ Precompile \/ NextParams \/ RunInvalid \/ RunValid
        \/ ExportCsv \/ SaveState \/ Finish

Next == Main \/ RunFails \/ Shell \/ Crash \/ UploadFails \/ BuildFails \/ Ended

Spec == Init /\ [][Next]_vars

\* The program and the shells keep running, and a run that can succeed does
\* so when it is repeated often enough.
FairSpec == Spec /\ WF_vars(Main) /\ WF_vars(Shell) /\ SF_vars(RunValid)
-----------------------------------------------------------------------------
Rows(s, c) == Count(s, LAMBDA r : r.cfg = c /\ Valid(r.vals))

\* What a start would have to do.
Pending == IF saved = NONE THEN Plan ELSE Resumed

\* What a start would find done.
Found == IF saved = NONE THEN <<>> ELSE Loaded(csv)

\* The columns, files, counters and commands have the values the code gives them.
TypeOK ==
    /\ PrepTypeOK
    /\ pc \in {"off", "setup", "precompile", "next", "run", "export", "save", "done", "refused"}
    /\ file \in Files
    /\ sets \in Seq(Configs)
    /\ {curr, prev} \subseteq Configs \cup {NONE}
    /\ columns \subseteq ResultColumns
    /\ entries \in Seq(RowsOf(Configs)) /\ csv \in Seq(RowsOf(Configs)) \cup {NONE}
    /\ pc \in {"run", "export", "save"} => curr # NONE /\ prev = curr
    /\ saved \in StatesOf(Configs) \cup {NONE} /\ (saved # NONE => csv # NONE)
    /\ resumes <= crashes /\ cut \subseteq Configs
    /\ shared \subseteq {CurrId(c) : c \in Ruled(file)}

\* Wherever the program stops, no configuration is lost: the rows the next start
\* finds and the runs it still has to do are as many as were asked for.  Only the
\* row of a run whose output was cut off may be dropped when it is read back
\* (ParameterHandler.save_state and load_state, DataManager.load_from_csv).
NothingLost ==
    \A c \in Configs \ cut : Rows(Found, c) + Count(Pending, LAMBDA x : x = c) >= file.reps

\* A start from the saved state repeats at most two runs: the last one that was
\* saved, and one whose row was written and whose state was not.
RepeatsBounded == csv # NONE => Count(csv, LAMBDA r : Valid(r.vals)) <= Len(Plan) + 2 * resumes

RuleParams == {"n_rules", "rule_subset_ratio", "rgx_enabled", "rules_use_content_kw", "rules_use_pcre_kw"}

\* When the series changes no parameter of the rules that the callback is not
\* registered for: once the callback has prepared rules, with no precompilation left
\* running, every run finds the rules of its own parameters until the next change,
\* although the scripts before it have written to the same files - unless compiled
\* rules were put aside under the name of its configuration by a script that did not
\* run alone, as those are found and used whatever is in them
\* (ParameterEventManager, prep_rules.sh).
OwnRules ==
    /\ pc = "run" /\ Prompt /\ prepared
    /\ curr.rgx_enabled = 1 => CurrId(curr) \notin shared
    /\ Said[file].varied \cap RuleParams \subseteq Triggers
    => RulesInPlace(curr) = PatternsOf(curr)

\* The processed results have the rows of the file in its order, each with its own
\* configuration; a row has a rate exactly when its run was valid, so a row that was
\* recorded without being valid reads like one of an engine that processed nothing.
\* Without a column for the ratio of the subsets nothing is processed (process.py
\* over what add_entry lets into the file).
ProcessedKept ==
    csv # NONE /\ Processable(csv) =>
        /\ ~TwoRates(csv)
        /\ Processed(csv) = [i \in DOMAIN csv |->
                               [cfg |-> csv[i].cfg, rate |-> IF Valid(csv[i].vals) THEN 1 ELSE 0]]

\* The rows on disk implement the campaign: a configuration that has a complete
\* row keeps one, through stops, restarts and rewritten files.
Complete == {r.cfg : r \in {csv[i] : i \in {j \in DOMAIN csv : "app" \in csv[j].vals}}}

Promise == INSTANCE Campaign WITH Configs <- AllConfigs,
                                  measured <- IF csv = NONE THEN cut ELSE Complete \cup cut

ImplementsCampaign == Promise!Spec

\* A series that is never stopped measures its configurations to the last one.
Completes == [](crashes = 0 /\ pc # "refused") => <>(pc = "done")

\* Every run finds the rules of its parameters, "as we use all database defining
\* variables for the curr id name" (prep_rules.sh:2).
RunsOwnRules == pc = "run" /\ Prompt => RulesInPlace(curr) = PatternsOf(curr)
=============================================================================
