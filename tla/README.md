# A verification project for RXPBench

RXPBench measures how fast network packets can be scanned for patterns, by the
regex accelerator of a BlueField card (through DPDK's regexdev), or by
Hyperscan on the CPU. The repository holds the program that receives and scans
(`regex-test.c`), the Python code that prepares rules, runs experiments on two
machines and stores the results (`autotest/`, `data/`), and two samples for
NVIDIA DOCA (`doca/`).

This directory holds TLA+ models of that code, the TLC configurations that
check them on small instances, and proofs for the TLA+ proof system (TLAPS).

## 1. The system

| component | state it keeps | operations | talks to |
|---|---|---|---|
| worker packet path, `worker_rx_pkts` | arrays `pkts_burst`, `ops`, `collector`; counters of the burst | receive, submit, scan in place, collect, forward or free, drain | receive and transmit queue of the port, queue pair of the regex device, mbuf pool (all workers), `force_quit` |
| worker statistics | histogram of burst sizes, group selector, cycles | count a burst, next group | read by `app_stats_dump` on the main core |
| worker memory, `worker_init` | pointers in `lcore_vars` and `regex_conf` | allocate, fail label, deallocate | statistics are freed by the main core |
| program, `main` / `worker_run` | `shared_vars`: queue counter, published statistics | configure, launch, wait, report, take down | workers, signal handler |
| Hyperscan cache, `util-hs.c` | files `/tmp/<digest>_<flags>_v1.hsdb` | look up, compile, store | other processes on the machine, `prep_rules.sh` |
| parameter files, `params_*.py` | lists of values, filters, `g_nreps` | none | imported by the runner |
| experiment library, `expelib.py` | parameter sets left, result rows and columns, previous parameters; two files | pop, add, save, resume, trigger callbacks; send to a pane, wait for a prompt or an event, upload | the runner |
| experiment runner, `exp_runner.py` | the results of two threads; the series | prepare rules, start receiver and generator, collect, retry, save | two tmux panes, remote machines |
| rule preparation, `prep_rules.sh` | the files in `$EXPATH`, compiled rules among them | sample, extract, number, deal out, compile or convert | copies of itself, `rx.sh`, the tools below |
| rule tools, `rule_sampler.py`, `rule_lib.py` | files of rules and of patterns | working set, sample, extract, subsets, convert, clean for DOCA, make rules | the compilers `rxpc` and `hscheck` |
| pattern generators, `regex-gen.py`, `prefixes_4b_64k_generate.py` | none | write a rule base | the rule tools |
| result processing, `process.py` | tables of rows | split by engine, rates, concatenate | the CSV file, the plots |
| DOCA samples | one buffer, work queue, DOCA contexts | submit a chunk, retrieve, retry, clean up | the device |
| plots, offline analyses, notes | none | | CSV and log files |

What is hard about it:

* **Ownership of packets.** A packet is a pointer in C arrays that are never
  cleared; devices accept part of what they are given, complete out of order and
  answer when they like; several workers share the pool. An array entry one
  position too far is a packet lost, freed twice, or freed under a device.
* **Start and end.** Workers may fail to initialise while others run; a signal
  comes at any time; the main core reports, and takes devices down, while
  workers are returning.
* **Memory on failure paths.** Each allocation has its own way to fail.
* **A cache shared by processes**, written without lock or rename. SIGTERM, which
  `exp_runner.py:31` sends, only sets a flag, but every `rte_panic`, a SIGKILL or a
  power cut ends a process in the middle of writing.
* **One run of an experiment.** Two threads talk to two machines through terminal
  panes, which both of them read and clear; programs print to them from the
  background; time-outs are not always looked at, and some waits have none.
* **A series of runs.** It is resumed from two files that are not written
  together, with rows in which values may be missing; the rules in place depend on
  callbacks that fire on some parameters only, and on scripts that run at the same
  time in one directory.
* **Numbers that stand for rules.** Compilers answer in line numbers of files that
  a tool wrote from rules with several patterns each; tables lead back to the rule.

What makes each component correct is stated by the properties in section 3;
the hazards, each at its line, are listed in `PROJECT.json`.

## 2. Modules

```
MbufLifecycle            abstract: a packet has one owner and moves along edges
   ^ implements
RegexWorker              packet path of all workers, NIC, regex device, signal
   ^ extends
MCRegexWorker            symmetry for TLC
RegexWorkerProofs        type correctness, ownership, no double free, no leak,
                         the refinement

DataTheorems             lemmas: sums of functions over finite sets, parts of lists

BurstStats               histogram, group selector, report
BurstStatsProofs         the buckets, the groups, the sums of the report
WorkerMemory             allocations, fail label, deallocations
WorkerMemoryProofs       the report reads live statistics; the fail label
AppLifecycle             main, queue assignment, port counters, join, take-down
AppLifecycleProofs       own queues; the devices outlive the workers; the report
                         has every packet

HsDbCache                hs_init_db by several processes, killed anywhere

Campaign                 abstract: what has been measured stays measured
   ^ implements
ExpSeries                main of exp_runner.py over a series, stopped and resumed
   extends PrepRules     prep_rules.sh command by command, several at once
           ParamFiles    the seven parameter files and the product made of them
           Results       process.py
           Selections    parts of a sequence, sorting, adding to a dictionary
   ^ extends
MCExpSeries              the files and the trigger of the repository
ExpSeriesProofs          nothing lost, few repeats, rows kept, own rules, the refinement

ExpRunner                the attempts at one run: threads, panes, program, generator
ExpRunnerProofs          fresh results, no stale event, one program at a time

RuleTools                rule_sampler.py, rule_lib.py, the pattern generators
   extends DocaRules     clean_and_fix and filter_rule on the options of a rule
   ^ extends
MCRuleTools              rule bases and rules as lists of options
RulesProofs              of HsDbCache: the right database, the cache is sound; of
                         RuleTools: the working set, the subsets, the cleaned rules
```

The two halves meet in the program: `ExpRunner` has it as a process that is
started, announces itself, is told to stop and ends with its report, and its
assumption that a program told to stop does end is the property `Terminates` of
`RegexWorker` together with `Exits` of `AppLifecycle`. `ExpSeries` has a whole run
as one step that fails, gives an incomplete result or succeeds, which is what
`AttemptEnds` and `FreshResult` of `ExpRunner` allow. `RuleTools` has the data that
flow through the commands whose order and files are in `PrepRules`.

### RegexWorker

One action is one call on a shared object with the local work around it, so
that anything another thread or a device does may happen between two of them.

| action | code |
|---|---|
| `StartWorker` | `worker_init`; the two `rte_calloc` of `worker_rx_pkts` |
| `RxBurst` | `rte_eth_rx_burst` (638) and the choice of engine |
| `EnqueueBurst` | preparing `ops`, `rte_regexdev_enqueue_burst` (645-743), freeing what was rejected |
| `DequeueBurst` | `rte_regexdev_dequeue_burst` (756-803) |
| `ForwardOrFree` | `forward_or_free_pkts` (570-585) |
| `QuitLoop`, `Drain` | `while (!force_quit)`, the `end` label (805-817) |
| `Deliver`, `Complete`, `TxComplete` | NIC and regex device |
| `Signal` | `signal_handler` |

The arrays `burst` and `ops` are arrays with their stale entries; no variable
says who owns a packet. `At(p)` derives it from counters and program counter,
and `Exclusive` says that no two places hold the same packet. `twice` is a
history variable: the packets that were freed while they were in the pool. The
collector array is left out: it gets the pointers of `ops` and is passed on in
the same iteration. Both engines being enabled ends the program (1155), so
`Engine` is `"rgx"`, `"hs"` or `"none"`. In forwarding mode 2 the packets go to a
port that `main` never initialises (1188 starts `ETHERNET_PORTID` only), so its
queue takes nothing.

### MbufLifecycle

What `RegexWorker` promises, without arrays: an owner for each packet, and nine
edges along which the owner may change on behalf of one worker. The refinement
mapping takes the place that holds the packet as its owner. It fails when a
packet goes from one worker to another, when a packet in a device shows up in
the pool, and when one in the pool shows up in a device.

### BurstStats

The cells of `stats` are the array and two cells behind it, so that an access
past the end shows. `StatsI` is the value the loop variable has after the search
for a bucket; the code uses `stats_i - 1` for counts and `stats_i` for matches,
and so does the model. `Dump` is the aggregation of `app_stats_dump`, with the
line that sums packets where it should sum bursts (991).

`BucketCnt` is a quotient that is rounded down (321-322), so the last bucket may end
before the largest burst. The search for a bucket then ends without one, and the burst
is not counted. `outside` is the history of these bursts. `HistogramRight` says of every
bucket that its bursts have the sizes it covers, and of a worker that its buckets
and exactly the bursts larger than the last of them account for every packet;
`ReportAddsUp` says it of what is printed. A burst as large as the limit is in the
bucket, as in the code, where the comment at `regex-test.h:199` has "less than".

The selector of the subsets moves with each packet that is prepared, the device may take
the first part of a burst only, and the rest is freed (709-714, 734-742). `served` and
`rejected` are the histories of both parts. `EvenGroups` is what the code gives: a
subset is behind another one by one accepted operation and by its own rejected ones. If
the device rejects always in the same place, one subset may get less than the others
for ever; the code does not prevent it.

### WorkerMemory

`heap[w]` is what is allocated, `ptr[w]` which pointers are set; a pointer that
is set need not point to something that is allocated. `bad[w]` records objects
freed or read when they were not. A failed allocation goes where the code goes:
to the fail label, to the end label, or to `rte_panic`.

### AppLifecycle

`main` from the launch to the exit, and `worker_run`. Packets are counted only.
`TakeQueue` is the atomic increment (933) with the test `>` at 934.
`ResetStats`, `Poll` and `PrintStats` are what the counters of the port depend on.
`TakeDown` removes device, port and pool in the order of 1346-1365.

### HsDbCache

A process hashes the rules file, looks for a cache file, compiles on a miss,
hashes again, truncates the cache file and writes it; it may end between any two
of these. A file is missing, truncated or whole. `ReplaceRules` (the last lines
of `prep_rules.sh`) runs when no process is starting: `exp_runner.py` prepares
rules before it launches the program.

### ExpSeries, with PrepRules, ParamFiles and Results

`main` of `exp_runner.py` as a sequential program over what it keeps in memory and
on disk, which may stop at any statement (`Crash`, `UploadFails`, `BuildFails`) and
starts again from the disk.

| action | code |
|---|---|
| `LoadFile` | importing a parameter file without `g_nreps` |
| `Start` | the new or resumed handler, `load_from_csv` (exp_runner 124-141) |
| `Setup`, `Precompile` | `setup`, `precompile_rxpc` |
| `NextParams` | `pop_params`, `process_parameters`, the callback (147-173) |
| `RunFails`, `RunInvalid`, `RunValid` | one run of `ExpRunner` and what main does with its result (176-220) |
| `ExportCsv`, `SaveState` | the two files, in this order (221-222) |
| `Shell` | one command of one `prep_rules.sh` |
| `Finish` | `teardown` |

A row is its configuration, the columns in which it has a value and the columns it
has (`keys`): the marker of its engine, and `app`, the line the program prints last.
That is enough to have the two rows that occur besides complete ones: the row of a
result that was cut off, and the row that the message about an invalid result adds
(line 214 calls `add_entry` once more). `Loaded` has what reading the CSV file does to
them: values are separated by a comma and a blank, so the text of every column but
the first begins with a blank and is not recognised as NaN.

`PrepRules` has the directory `$EXPATH` as a record of files. A file is the set of its
patterns, and a pattern is a keyword and the size of the sample, because the sample
is drawn with a fixed seed. `Script(c)` is what the template renders to for a
configuration; a step of it is a command that reads or writes a file whose name does
not depend on the configuration. Only `number` has three of them in one step, awk, mv
and `rules_to_subsets` (`prep_rules.sh:62-66`). What scripts that run at once make of
each other's files is not what `OwnRules` is about, which excepts the names they compile
under, and a script alone cannot tell. `Prompt` is true when the last job has ended: its
last command compiles a file that nothing writes, so `&& wait` is never reached.
`shared` is a history variable: the names under which a script compiled that had others
running beside it.

`Selections` writes with sets of positions what the community modules write with a test
or an order passed as an operator (`SelectSeq`, `SortSeq`): the provers cannot
instantiate one.

`ParamFiles` has the seven files, each with its own repetitions, filters and order;
lists of values are cut to those that behave differently, and of parameters that
only the program or the generator reads one stands for all. What is cut away
besides is written above each file. `PlanOf` is `_build_configs`.

`Results` is what `process.py` makes of the file: it splits the rows by engine and
joins them again by their index; `ProcessedKept` says that no row is lost, doubled or
given the configuration of another one on the way.

`Campaign` is the promise: a configuration with a complete row on disk keeps one.
The refinement mapping counts a configuration whose output was cut off as measured,
since its row may be dropped when it is read back.

### ExpRunner

The attempts of `while not valid`: main, `rx_run`, `tx_run`, the program and the
generator, each a process; the two panes are their shared variables. Every call that
types, reads or clears is an action, so that what the program prints from the
background falls anywhere between two of them. A pane keeps the events it shows,
by attempt, whether its last line is a prompt, and whether its shell is busy.
`script` is false when `rx.sh` could not be uploaded; nothing is launched then and
`rgx_output` is that of an earlier attempt. `lua` is false when `gen_pkts.lua` could
not. An upload is tried up to three times with 10 s in between, and then only logged as
an error (`expelib.py:418-449`): the model has the outcome, and the duration in that
any number of steps of the others may come before it. No step has a duration, and
both time-outs of 60 s may pass at any moment of the wait; so the receiver may give up
before the transmitter has begun to wait, as after a repeated upload. `tee` is the
rest of the report that is written after the program has ended. `announced` and
`outrun` are history variables.

| action | code |
|---|---|
| `RxCd`, `RxMkdir` | `remote_tmux_ensure_dir`: "cd ~" and "mkdir -p", each with its wait for the prompt |
| `RxUpload`, `RxLaunch`, `RxCapture` | upload and launch of `rx.sh` (exp_runner 26-29) |
| `RxWaited` by `RxSeesStopped` or `RxTimeout` | `wait_for_remote_event(tx, "stopped-tx")` |
| `RxKill`, `RxKilled` | `pkill` and the prompt behind it |
| `RxLooks` | looking for the prompt behind any of the four commands rx_run waits for, without a time-out |
| `RxCat`, `RxParse` | `cat rgx_output` and the parser |
| `TxUpload`, `TxSeesStarting`, `TxTimeout`, `TxLaunch`, `TxCapture` | `tx_run` |
| `StartAttempt`, `Join`, `Check` | main |
| `ProgramReady` | main of `regex-test.c` after the launch of the workers (1325-1326), which need not poll yet |
| `ProgramFails`, `ProgramEnds`, `TeePrints`, `PgrepEnds`, `GeneratorEnds` | the machines |

### RuleTools and DocaRules

One action per tool. A rule is its sid and the values of its `content` and `pcre`
options; of a pattern the model keeps its text and what the tools and compilers ask
of it. `Reports` is the answer of `rxpc`: it names some of the patterns that do not
compile. The line numbers are real, so that an index off by one shows. `Counts` has
the rounding of `int(ratio * total)` with both outcomes where a float may be below
the product. Initial states are a rule base for `gen_working_set`, a rule base that a
generator made (`MadeBases`), or a rule for the DOCA tools. Lists are cut by the positions
that stay (`Select`), which the provers can handle where `SelectSeq` takes a test.

Four assumptions say which inputs are meant. `BasesAssumption`: no two rules of a base have
the same sid, and no pattern is both a content and a pcre; the tools know a rule only by
its sid, and the expression made of a content has no slash that is not escaped, while a pcre
has one. `RatiosAssumption`: ratios are lists of tenths. `OptionsAssumption`: between a
buffer of http, or the sid, and a modifier behind it a rule has a content or pcre, as the
language of Suricata has it: a modifier belongs to a content. `ToolsAssumption`: sizes are numbers;
a generated word has more than one letter.

`DocaRules` has the loops of `clean_and_fix` over two lists of options with their
indices, counted from the front and from the end. `TakeOut` and `TakeBack` apply a step
(`TakeStep`, `BackStep`) to a set of states; the set becomes empty where Python raises
`IndexError`.

## 3. Runs

Properties are in the module of the run, each with a comment that says what it
is about.

| run | instance | states | what it shows |
|---|---|---|---|
| `RegexWorker_two` | 2 workers, 2 packets, bursts of 2, queue pair of 1, transmit queue of 1, regex engine, forwarding | 305 394 | `Exclusive`, `NoDoubleFree`, `NoLeak`: ownership under partial enqueue and transmit, out-of-order completion, a failing worker, the signal |
| `RegexWorker_live` | 1 worker, 3 packets, fair | 189 237 | `Served`, `Returned`, `Terminates`, `PoolRefills`; the packet path implements `MbufLifecycle` |
| `BurstStats_all` | 2 workers, bursts up to 5 in 2 buckets of 2, 3 subsets, 2 iterations | 192 264 | `HistogramRight`, `EvenGroups`, `ReportAddsUp` |
| `BurstStats_matches` | 1 worker, bursts up to 4 in buckets of 2 | | violates `MatchesInBucket` |
| `WorkerMemory_all` | 2 workers, any engine, any allocation may fail | 1 062 | `StatsOutliveReaders`, `FailReleases` |
| `AppLifecycle_all` | 3 workers, 2 packets, fair | 397 058 | `OwnQueue`, `ReportComplete`, `DevicesOutliveWorkers`, `Exits` |
| `HsDbCache_all` | 2 processes, 3 rules files of which one does not compile, 2 sets of flags | 91 044 | `DbOfRules`, `CacheSound` |
| `ExpSeries_all` | the seven parameter files, 1 stop, 1 row that is not valid | 950 686 | `NothingLost`, `RepeatsBounded`, `OwnRules`, `ProcessedKept`, `Completes`; the series implements `Campaign` |
| `ExpSeries_rules` | the files uncut, without stops | | violates `RunsOwnRules` |
| `ExpRunner_all` | 3 attempts, 3 failing uploads, late output | 47 370 | `FreshResult`, `NoStaleEvent`, `OneProgram`, `AttemptEnds` |
| `RuleTools_all` | 2 and 3 rules, 5 lists of ratios, rules of up to three clauses for DOCA | 257 816 | `WorkingSetExact`, `PatternsDealtOut`, `CleanedRight`, `FilterEnds` |
| `RuleTools_hs` | the same | | violates `HsFiltered` |

Bounds, and why they are enough:

* Two workers are the least at which a packet freed by one can be delivered to
  the other; nothing relates three of them except the queue numbers, and there
  `AppLifecycle_all` has three, of which one can fail or be late while two run.
* A burst of two is the least with a partial enqueue, a stale entry behind the
  live part of an array, and two completions in the wrong order. A queue pair of
  one with bursts of two makes the device reject part of a burst; a transmit
  queue of one makes it take part of a burst. Two or three packets are as many as
  needed to have the pool empty while one waits in each kind of place. Hyperscan has
  no run of its own: the safety properties are proved for every engine.
* Two buckets of size 2 for bursts up to 5 have a burst below, on and above each limit,
  and one that no bucket has, since 5 divided by 2 was rounded down. Three subsets and
  bursts of 5 let the selector wrap inside a burst, before and behind the part
  that is accepted. `MaxLoops` bounds the iterations of all workers together, so that one
  worker has two in a row or each has one; `MaxPkts` bounds the packets that arrive.
  Nothing is read from these histories but sums.
* Two processes are the least that can write one cache file at a time; two flags
  and two good rules files are the least that a wrong key can confuse.
* `MaxCrashes` = 1: a stop between the two files, one during preparation and one
  in a run are different behaviours of one stop; a second one starts from files like
  those the first one left, because what a start finds depends on the files only. The
  bound of `RepeatsBounded` is stated per start. `MaxInvalid` = 1: one such row among
  valid ones is the case in which the column that comes first decides.
* `ExpSeries_all` takes `params_hs_vs_rxp_cores.py` twice (`CutFiles`): with both sizes and
  one target, where precompilations run at the same time and the callback may fire while
  one still runs, and with one size and both targets, where the engines alternate and
  rules are prepared again after those of the other. That they may come together is left
  to the proof of `OwnRules`.
* `MaxAttempts` = 3 has an attempt between two others that leaves its output to the
  third; `MaxFaults` = 3 lets all three uploads fail, in one attempt or spread over
  several. `LateOutput` says that `tee` may print after the program.
* Rule bases have up to three rules of up to three patterns, so that numbers of lines
  and of rules differ in both directions; `MaxRules` = 4 cuts some of them.
  `Ratios` has sums of one, and sums below one; `WordSize` = 5 is the length at which
  a word is kept; `MaxPrefixes` = 2 rules are made; `Segments` = {4, 5} has a random
  expression that is too short and one that is not. A rule for DOCA has up to two
  clauses of any kind, or three of the usual ones: a removed content between two that
  stay.

For every invariant and every action property of these runs the proofs of section 4 have
no such bounds.

**Fairness.** A worker is a loop pinned to its own core (`SKIP_MAIN` launch) with
no lock and no blocking call, so each worker has weak fairness (`WF`) on its next
step, whatever that is. The devices are assumed to finish what they accepted:
weak fairness on `Complete` and `TxComplete` of each packet. In `AppLifecycle`
`main` and every worker are fair; `main` sleeps a second at a time and wakes up.
Nothing is assumed of arrivals and of the signal: liveness properties that
concern packets end with "or the program was told to stop".

In `ExpRunner` the three threads are fair: they sleep for seconds and wake up, and a
time-out that is set passes. The program ends when it was told to, `tee` empties its
pipe, `pgrep` notices, the generator sends for the time that `gen_pkts.lua` says. Of a
generator without that file nothing is assumed, and `AttemptEnds` excepts it. That the
program starts or announces itself is not assumed either. In `ExpSeries` `main` and the commands of the shell
are fair, and a run that can succeed again and again does so once (`SF` on `RunValid`):
the loop of main has no other way out. `Completes` is about series that are not
stopped. In `RuleTools` the loop of
`full_rxpc_filter` goes on (`WF` on its two actions); nothing is assumed of the other tools.

### Where code and text disagree

Each of these runs checks one statement made by a comment or by a message, and TLC
finds a behaviour of the code that breaks it.

| run | statement | what happens |
|---|---|---|
| `BurstStats_matches` | an element "covers less than this burst size but more than the previous burst size" (`regex-test.h:199-200`) | matches and round trip times go to the next element, for the largest bursts behind the array |
| `ExpSeries_rules` | "we use all database defining variables for the curr id name" (`prep_rules.sh:2`) | the files in between have one name for all jobs, the precompilations run at once, and one keeps what another wrote as its own compiled rules; every later run of the configuration uses them |
| `RuleTools_hs` | "RXPC + HS filtered working set written to" (`rule_sampler.py:533`) | `hscheck` counts lines from 1, the table from 0: the rule of the next line is taken out, and the rule that does not compile stays |

What else the models show, or was met while reading, without a run of its own:

* The drain (`regex-test.c:807`) ends at the first empty dequeue, while the device may
  still work on a packet; the log says "Regex queue %d is drained" (815). In
  `RegexWorker` the worker goes from `drain` to `done` with `inflight` not empty.
* When the histogram cannot be allocated, `worker_init` frees the ops (874) and jumps to
  the label that frees them again (911): the pointer that is cleared (557) is the
  parameter. The comment at 553 takes the ops for one block; they are allocated one by
  one, and all but the first leak. `StatsOutliveReaders` and `FailReleases` of
  `WorkerMemory` except exactly these objects.
* Each worker resets the counters of the port when it starts (613), so the share of
  received packets that were processed, which "should be the same as the processed
  rate" (`autotest/process.py:46`), may exceed one. In `AppLifecycle` `ResetStats` comes
  after an `Arrive`.
* "Sometimes, the prompt does not reappear after killing, we need to press enter"
  (`exp_runner.py:33`): the prompt is there, with the last output of the program behind
  it. `PromptCovered` of `ExpRunner` is this state; `remote_tmux_wait_for_prompt` has no
  time-out, so an attempt may stay in it.
* When `rx.sh` cannot be uploaded, `rgx_output` is that of an earlier attempt, and
  the receiver shows it in its pane when it has given up. A transmitter that still waits
  then, because the upload of `gen_pkts.lua` was repeated (`expelib.py:420`), takes the
  event in that file for the one it waits for, starts the generator, and the old report
  is stored as the result. `MayBeFooled` of `ExpRunner` is exactly this state, and the
  only one that `FreshResult` and `NoStaleEvent` except; TLC reaches it, and
  without the exception it finds both violated.
* The parameters that trigger the preparation are `n_rules`, `rgx_enabled` and
  `rule_subset_ratio` (`exp_runner.py:149`); `params_big_exp.py` also varies
  `rules_use_pcre_kw`. `OwnRules` excepts the files that vary a parameter of the rules
  outside the trigger, and, for the regex device, the configurations whose name is
  in `shared`. Such a name need not come from a precompilation: when the callback fires
  while one still runs, its own script reads and writes the same files, keeps what
  comes out under the name of its configuration, and every later run of that
  configuration finds it and compiles nothing.
* After a resume, `setup()` has removed the directory and the callback is not triggered
  for the first configuration; a series for Hyperscan then repeats its run for ever,
  and one for the regex device measures with the rules of the precompilation that
  ended last, until a parameter of the trigger changes.
* `params_min_pkt_size.py` has no `g_nreps`: the program ends with `AttributeError`
  (`LoadFile`).
* What is resumed is recognised by a sum of hashes over names and values
  (`expelib.py:859`): filters and repetitions do not count. Both files are truncated
  before they are written (`expelib.py:618`); a stop in between leaves neither content.
* A thread that dies leaves no entry "error"; main then ends with `KeyError`
  (`exp_runner.py:203`), a `Crash` of `ExpSeries`.
* `clean_and_fix` walks back over what it has kept and takes out the buffers in front
  of a removed content; with two of them in a row it takes out one and skips one, and
  the buffer it takes out may be that of contents further behind, which stay. When
  a buffer is among the first options of a rule, and no content before it, the walk
  goes past the beginning of the list and ends with `IndexError`. `CleanedRight` is
  about contents and modifiers only.
* A bucket size of 0 divides by zero and one above the burst size gives no bucket
  (`regex-test.c:322`); the models assume neither.
* `regex_scan_sample.c:77` writes a terminator behind each match into the buffer that is
  being scanned; `dpi_scan_sample.c:131-136` counts its error labels from
  `nb_workq_attached - 1`, which is -1 when none is attached.

## 4. Proofs

All are for any sets of workers, packets, processes, rules and flags, any parameter
files, any rule bases, ratios and lists of options, any numbers of attempts, faults and
stops, and any sizes that the named
`ASSUME`s of the module allow. TLC has checked each invariant first, on the instances
of section 3.

| theorem | statement | module |
|---|---|---|
| `TypeCorrect` | `Spec => []TypeOK` | `RegexWorkerProofs` |
| `OwnershipExclusive` | `Spec => []Exclusive` | |
| `FreedOnce` | `Spec => []NoDoubleFree` | |
| `NothingLost` | `Spec => []NoLeak` | |
| `RefinesLifecycle` | `Spec => ImplementsLifecycle` | |
| `TypeCorrect` | `Spec => []TypeOK` | `BurstStatsProofs` |
| `HistogramIsRight` | `Spec => []HistogramRight` | |
| `GroupsAreEven` | `Spec => []EvenGroups` | |
| `ReportIsTheTraffic` | `Spec => []ReportAddsUp` | |
| `MemoryTypes` | `Spec => []TypeOK` | `WorkerMemoryProofs` |
| `ReportReadsLiveStats` | `Spec => []StatsOutliveReaders` | |
| `FailureReleases` | `Spec => []FailReleases` | |
| `QueuesAreOwn` | `Spec => []OwnQueue` | `AppLifecycleProofs` |
| `DevicesStay` | `Spec => []DevicesOutliveWorkers` | |
| `ReportIsComplete` | `Spec => []ReportComplete` | |
| `TypeCorrect` | `Spec => []TypeOK` | |
| `CacheTypes` | `Spec => []TypeOK` | `RulesProofs` |
| `RightDatabase` | `Spec => []DbOfRules` | |
| `CacheIsSound` | `Spec => []CacheSound` | |
| `WorkingSetIsExact` | `ToolsSpec => []WorkingSetExact` | |
| `AllPatternsDealtOut` | `ToolsSpec => []PatternsDealtOut` | |
| `CleanedIsRight` | `ToolsSpec => []CleanedRight` | |
| `RunnerTypes` | `Spec => []TypeOK` | `ExpRunnerProofs` |
| `ProgramsDoNotOverlap` | `Spec => OneProgram` | |
| `ResultsAreFresh` | `Spec => []FreshResult` | |
| `EventsAreOfThisAttempt` | `Spec => NoStaleEvent` | |
| `TypeCorrect` | `Spec => []TypeOK` | `ExpSeriesProofs` |
| `NothingIsLost` | `Spec => []NothingLost` | |
| `FewRepeats` | `Spec => []RepeatsBounded` | |
| `RowsAreKept` | `Spec => []ProcessedKept` | |
| `RulesAreOwn` | `Spec => []OwnRules` | |
| `KeepsThePromise` | `Spec => ImplementsCampaign` | |

**RegexWorkerProofs.** Assumed: a burst of at least one, a NULL that is not a packet.
`Exclusive` is not inductive: that the device gets a packet nobody else has
needs the packets in the live part of `pkts_burst` to be packets (not NULL), and
the engine to decide which program counters occur. The invariant is

    OwnInv == TypeInv /\ Disjoint /\ Covers /\ InjOK /\ NoDoubleFree
    TypeInv == TypeOK /\ EngineOK /\ LiveOK

`EngineOK` limits `enq`, `deq` and `drain` to the regex engine, `LiveOK` says the
live part of the arrays holds packets, `Disjoint` and `Covers` restate
`Exclusive` and `NoLeak` per place, `InjOK` that no sequence or live array holds a
packet twice. There is one lemma for every action and every part. Lemmas about
`Fill`, `Drop` and `Ptrs` say what the array operations do to the set of packets
and to injectivity; they carry the argument that a stale entry is never in the
live part. `NoDoubleFree` follows step by step from disjointness: what a worker
frees was in its live part, hence not in the pool.

The refinement uses the same lemmas. Each of them says how an action moves packets
between places; `Along(w)` is their common form: what changes its place does so
along one of the nine edges of `w`. With `Disjoint` and `Covers` a packet has exactly
one place before and after, so `Holder`, a `CHOOSE` in the refinement mapping, is that
place (`HolderIs`).

**DataTheorems.** The report adds up over workers and buckets, and the line of a pattern is
the sum of what the rules in front of it have; so the proofs need that a sum changes with
one summand, is that of its parts, and may be taken in either order. The library's
induction theorems take an operator, which the provers cannot instantiate. A set they can
use: a nonempty set of finite sets has a minimal member, one of numbers a least one
(`Minimal`, `Least`), and every induction takes the least counterexample. The second half
is about selections: they ascend (`NthAscends`), have the elements at their positions and
no others (`SelectIs`), and a part of a part is a part (`SelectTwice`).

**BurstStatsProofs.** Assumed: the set of workers is finite, sizes are positive and a
bucket is not larger than a burst; that it divides the burst is not assumed. The
invariant is `Typed /\ WorkersOK /\ Reported`. Of a worker it says that every bucket has
its range (`Ranged`), that its cells and the bursts beyond the last bucket add up to the
packets it counted (`Accounts`), and that of the operations prepared, accepted or not,
the groups below the selector have had one more than the others (`Dealt`). `StatsIn`
gives the bucket the search of the code finds for a size, or none; `TurnsSplit` divides
the operations of a burst where the device stopped to accept them. That a subset has no
more accepted operations than prepared ones gives `EvenGroups`. `ReportIsTheTraffic`
exchanges the sums over workers and buckets; `Reported` has the report equal to sums that
no longer change, because all workers are done.

**WorkerMemoryProofs.** A pointer that is set need not point to something that is
allocated, so the invariant says where it does: `Held` (the pointers of a worker, but
that to the ops, until the fail label or the report), `Needed` (what a worker that
came past an allocation still has), `Pointed` (what is allocated during
initialisation has a pointer, but for the ops) and `Order` (each engine has its own
allocations).

**AppLifecycleProofs.** Assumed: the set of workers is finite and not empty. The test at
`regex-test.c:934` lets the number equal to the number of queues pass, so `OwnQueue` is a
matter of counting: `Counted` says that `wq_id` is the number of workers that have a
queue, and that their numbers are different and below it. A worker that is about to
take one has none, so fewer than all have been taken. `Ordered` says what `main` has
taken down at which point. For the report there are `Published` (an entry is that of
the returned worker with this queue, and a worker that returned without one has
processed nothing), `Reported` (after the join the report is the sum of what was
processed), and `Flow`: what was processed and what waits in the queues has arrived.

**RulesProofs.** Of the cache: the invariant adds `InitInv`: while a process is inside
`hs_init_db` the rules file is the one it started with, its key is that of these rules and
its flags, and from compilation on its database is that of the key. That is where the
assumption on `ReplaceRules` enters.

Of the tools there are four invariants, all of which follow a file from tool to tool.

    FilterInv == inside the loop: \E K \in SUBSET DOMAIN base : Keeps(K)
    WorkingInv, RunInv, CleanedInv

`WorkingSetExact` is about the end of the iteration. In between the file still has rules
that do not compile, and which ones depends on what `rxpc` chose to name. `Keeps(K)`
compares the file with the rule base: it has the rules at the positions `K`, at least
those that compile, and after the first round none that cannot be submitted or was not
read. A round loses no rule that compiles: it reads it, because the rules in front of it
have become fewer and so have their patterns (`AheadLess`, which is why `max_rules` does
not cut again), and no line that `rxpc` names has its sid (`RoundKeeps`, where distinct
sids are needed). When the summary is 0, nothing in the file was left to name, so `K` is
exactly the rules wanted.

For `PatternsDealtOut`, `RunInv` says what each tool has been given: the sample is of the
working set (`SampledRight`), the lines are its long patterns once each (`RegexesRight`,
where it matters that contents and pcres are made unique in separate files), the numbers
are those of the lines. `DealtTotal` says that the counts make the total and none is
negative, however each was rounded, and `CutsJoin` that consecutive cuts of these lengths
joined are the list again. That the patterns compile comes from `WorkingInv`.

`CleanedRight` is about one step of the tools with two nested loops in it. The loops are
recursive functions on the number of turns, and `Taken(k, i, O)` is the invariant of the
outer one: of the options in front of index `i`, `k` has the wanted contents, the
modifiers whose content is wanted and some of the rest, in order; and no modifier from `i`
on belongs to an unwanted content in front of `i`. The last part makes it inductive: a
removal must not stop in the middle of the modifiers of a content, which it could at a
buffer if modifiers could stand behind one without a content (`IsRule`). `Trims` is the
invariant of the inner loop: whatever its index does while the list becomes shorter, only
buffers go. `FixedIs` has the part behind the loops.

**ExpRunnerProofs.** `OneProgram` needs `Phases` and `Alive`: in which places of `rx_run` a
program may still be there. For the other two there is a chain. The generator starts on an
event in the pane of the receiver. Until `rx_run` types "cat rgx_output" such an event
is one of this attempt, and who still looks afterwards has been outrun (`Window`). What
the file shows then is of this attempt too if `rx.sh` was uploaded (`Shown`), so that
only `MayBeFooled` is left. An event of this attempt was printed by a program whose
launch has truncated `rgx_output` (`Announced`); hence what is parsed after both sides
went on without an error is of this attempt (`Seen`, `Parsed`). Nothing is assumed of
who begins to wait first, or gives up first.

**ExpSeriesProofs.** Assumed of a parameter file: it is a list of names with lists of
values, the size of the rule base, the engines and the keywords among them; engines and
keywords are switched on and off; None is not a list of rows, and a missing file not a
set of patterns. Nothing else is assumed of the values, their order and the repetitions,
and nothing of the trigger.

The invariant is

    SeriesInv == Types /\ RowsComplete /\ Lossless /\ Bounded /\ Measured

`NothingLost` is about what a start would find, and is not inductive. `Lossless` relates
memory to it: for each configuration, what has a row, what is being run and what is left
make up the repetitions, in memory and in the two files, and memory is ahead of the
files. `ExportCsv` writes one of the two, `SaveState` the other, and after each of them
the pair on disk has to say enough: a stop between them leaves a run in both, never in
neither. That is also what `Bounded` counts, two per start: the run that was on
its way, and the row that had been written without the state. A row that reading back
drops (`Loaded`) is that of a result that was cut off, a configuration in `cut`.
`Measured` carries the refinement: which configurations have a complete row on disk,
and that a step adds at most the current one. `PlanRepeats` says of the product of the
parameters that the plan has every configuration `reps` times.

`RowsAreKept` needs that the two parts that `Processed` joins are taken by engine and that
no row has the marker of the other one (`MarkedInv`), and that sorting the positions
gives each of them once (`SortedIs`, `ConcatIs`).

`RulesAreOwn` rests on what a script leaves behind when it runs alone. Its commands have
ranks and come in their order (`ScriptOrder`), so what it has done is known from what is
left: `Gathered` and `Made` say which file has which patterns by then, and a command
makes the next of these true (`EffectIsRight`). `RulesInv` says this of a script without company
and that scripts in company compile under names in `shared`; so what is kept under any
other name is right (`Kept`), also when the script of a later run finds it there and
compiles nothing. `PreparedInv` says that the rules prepared last are those of the last configuration:
no rule parameter varies outside the trigger, and the callback fires when one in it changes (`SameRules`).

Only model-checked:

* liveness (`Served`, `Returned`, `PoolRefills`, `Terminates`, `Exits`, `AttemptEnds`,
  `Completes`, `FilterEnds`): TLAPS has no rules for fairness and ENABLED that the
  installed provers could use.

The runs that expect a violation show a trace; there is nothing to prove of them.

## 5. Plan

1. *done* `RegexWorker`, `MbufLifecycle`: ownership of packets, with proofs.
2. *done* `BurstStats`, `WorkerMemory`, `AppLifecycle`: what is reported, what is freed, the
   order of start and end, with proofs.
3. *done* `HsDbCache`, with proofs.
4. *done* `ExpSeries` with `PrepRules`, `ParamFiles`, `Results`; abstract specification
   `Campaign`.
5. *done* `ExpRunner`, with proofs.
6. *done* `RuleTools`, `DocaRules`.
7. *done* proofs about sums (`BurstStats`, the report of `AppLifecycle`), the series
   (`ExpSeries`) and the two refinements.
8. *done* proofs about the tools of `RuleTools` and `DocaRules`: the filter, the subsets,
   `clean_and_fix`.

Every invariant and action property that a passing run checks is stated by a theorem. The hazards without a property are listed in
`PROJECT.json` with the reason.

## 6. Not modelled

* Arguments, port and device configuration: straight-line calls that end the
  process at the first error. What is in a packet, cycles, the wording of the
  report, the counters `rgx_stats.c` prints.
* The DOCA samples: one thread and one job at a time, and every outcome is decided by
  the SDK, of which the repository has only the calls.
* The plots, the experiments written before `exp_runner.py`, the offline analyses of
  Suricata profiles: they read files and draw or print.
* Of the rule tools: `count`, `preview` and `analyze`, which print; `to_rxpc` and
  `compress_patterns`, which no script calls.
* Files that are half written: `ExpSeries` writes a file in one step. That a resumed
  series has the parameter file it was started with is assumed.
* The build of the program and the transfer of `src/` to the machines, beyond the fact that
  they may fail.
