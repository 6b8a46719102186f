------------------------------ MODULE ExpRunner ------------------------------
(***************************************************************************)
(* The attempts of src/autotest/exp_runner.py to measure a configuration:  *)
(* the main thread, the threads rx_run and tx_run, the two terminal panes  *)
(* through which src/autotest/expelib.py drives the receiving and the      *)
(* sending machine, the program regex-test and the packet generator.       *)
(*                                                                         *)
(* A pane is a shared, mutable thing: one thread types into it and clears  *)
(* it, the other looks for an EVENT line in it, and the program prints to  *)
(* it from the background.  Whoever polls a pane sees it at some moments   *)
(* only.  What is printed is the number of the attempt it comes from.      *)
(*                                                                         *)
(* A step takes any time and a time-out may pass at any moment, so that    *)
(* either thread may be behind the other, because of slow or repeated      *)
(* uploads (three trials, 10 s apart), of slow machines or of scheduling.  *)
(*                                                                         *)
(* The names follow main: rx is the receiver.  (The dictionaries of the    *)
(* two threads are swapped at lines 193-194, so line 203 looks at the      *)
(* error of the transmitter first; both are looked at.)                    *)
(***************************************************************************)
EXTENDS Naturals, FiniteSets

CONSTANTS
    MaxAttempts,  \* bound on the attempts
    MaxFaults,    \* bound on the scripts that cannot be uploaded
    LateOutput    \* tee may print after the program has ended

ASSUME RunnerAssumption ==
    /\ MaxAttempts \in Nat \ {0} /\ MaxFaults \in Nat
    /\ LateOutput \in BOOLEAN

VARIABLES
    main,      \* the main thread
    attempt,   \* the number of the attempt
    rx, tx,    \* the two threads
    rxPane,    \* the pane of the receiver: the starting-rx events it shows, whether
               \* its last line is a prompt, whether its shell is busy
    txPane,    \* the stopped-tx events the pane of the transmitter shows
    script,    \* rx.sh of this attempt has been uploaded
    lua,       \* gen_pkts.lua of this attempt has been uploaded
    program,   \* regex-test: its attempt and its state
    tee,       \* the attempt whose report is still in the pipe to tee, or 0
    output,    \* the file rgx_output: its attempt, and whether the report is in it
    gen,       \* the packet generator
    parsed,    \* what rx_run has parsed
    txError,   \* the entry "error" of the transmitter
    outrun,    \* history: in this attempt the receiver typed "cat rgx_output"
               \* before the transmitter had stopped to look for its event
    accepted,  \* the accepted results: the attempt, the attempt they are from, and
               \* whether MayBeFooled was true
    announced, \* the last attempt whose program printed starting-rx
    faults     \* uploads that have failed

\* What the threads keep; what of it most steps of rx_run and of tx_run leave alone;
\* what is on the machines.
threads  == <<main, attempt, rx, tx, script, lua, parsed, txError, outrun, accepted, faults>>
rxOthers == <<main, attempt, tx, script, lua, parsed, txError, outrun, accepted, faults>>
txOthers == <<main, attempt, rx, script, lua, parsed, txError, outrun, accepted, faults>>
remote   == <<rxPane, txPane, program, tee, output, gen, announced>>
vars     == <<threads, remote>>

Empty == [attempt |-> 0, report |-> FALSE]

Init ==
    /\ main = "start" /\ attempt = 1 /\ rx = "done" /\ tx = "done"
    /\ rxPane = [events |-> {}, prompt |-> TRUE, busy |-> FALSE] /\ txPane = {}
    /\ script = FALSE /\ lua = FALSE /\ outrun = FALSE
    /\ program = [attempt |-> 0, state |-> "none"] /\ tee = 0
    /\ output = Empty /\ gen = "off" /\ parsed = Empty /\ txError = FALSE
    /\ accepted = {} /\ announced = 0 /\ faults = 0

\* remote_tmux_send before its command: "clear" is typed and the history dropped.
Cleared == [rxPane EXCEPT !.events = {}, !.prompt = ~rxPane.busy]

\* remote_upload_file gives up after three failures and only logs it; the failures
\* before change nothing but the time it takes.
Upload(ok) == faults' = IF ok THEN faults ELSE faults + 1
MayUpload(ok) == ok \/ faults < MaxFaults

\* The transmitter may have seen the event in a file of an earlier attempt: without
\* rx.sh rgx_output is not a new one, and the receiver shows it in the end.
MayBeFooled == outrun /\ ~script
-----------------------------------------------------------------------------
(* main                                                                    *)

StartAttempt ==
    /\ main = "start"
    /\ main' = "join" /\ rx' = "cd" /\ tx' = "upload"
    /\ parsed' = Empty /\ txError' = FALSE /\ outrun' = FALSE
    /\ UNCHANGED <<attempt, script, lua, accepted, faults, remote>>

Join ==
    /\ main = "join" /\ rx = "done" /\ tx = "done"
    /\ main' = "check"
    /\ UNCHANGED <<attempt, rx, tx, script, lua, parsed, txError, outrun, accepted, faults, remote>>

\* An error or a result without the report of an engine repeats the run; otherwise
\* the result is added and the next run begins.
Check ==
    /\ main = "check"
    /\ accepted' = IF ~txError /\ parsed.report
                   THEN accepted \cup {[run |-> attempt, from |-> parsed.attempt, fooled |-> MayBeFooled]}
                   ELSE accepted
    /\ IF attempt < MaxAttempts THEN main' = "start" /\ attempt' = attempt + 1
                                ELSE main' = "over" /\ UNCHANGED attempt
    /\ UNCHANGED <<rx, tx, script, lua, parsed, txError, outrun, faults, remote>>
-----------------------------------------------------------------------------
(* rx_run                                                                  *)

\* remote_tmux_ensure_dir: "cd ~" is typed in the pane like any other command.
RxCd ==
    /\ rx = "cd"
    /\ rxPane' = Cleared
    /\ rx' = "cding"
    /\ UNCHANGED <<rxOthers, txPane, program, tee, output, gen, announced>>

\* Behind its prompt, "mkdir -p".
RxMkdir ==
    /\ rx = "cding" /\ rxPane.prompt
    /\ rxPane' = Cleared
    /\ rx' = "mkdiring"
    /\ UNCHANGED <<rxOthers, txPane, program, tee, output, gen, announced>>

\* Behind the prompt of that one, rx.sh is uploaded.
RxUpload ==
    /\ rx = "mkdiring" /\ rxPane.prompt
    /\ \E ok \in BOOLEAN : MayUpload(ok) /\ script' = ok /\ Upload(ok)
    /\ rx' = "launch"
    /\ UNCHANGED <<main, attempt, tx, lua, parsed, txError, outrun, accepted, remote>>

\* "source rx.sh", not blocking: the program starts in the background, and tee
\* truncates rgx_output.  Without the script the shell only complains.
RxLaunch ==
    /\ rx = "launch"
    /\ rxPane' = Cleared
    /\ IF script
       THEN /\ program' = [attempt |-> attempt, state |-> "starting"]
            /\ output' = [attempt |-> attempt, report |-> FALSE]
       ELSE UNCHANGED <<program, output>>
    /\ rx' = "capture"
    /\ UNCHANGED <<rxOthers, txPane, tee, gen, announced>>

\* The output of the launch is read and the pane cleared once more; an event that
\* was printed in between is gone.
RxCapture ==
    /\ rx = "capture"
    /\ rxPane' = Cleared
    /\ rx' = "wait"
    /\ UNCHANGED <<rxOthers, txPane, program, tee, output, gen, announced>>

\* A mutant: there is no time-out.
NoTimeout == FALSE

RxSeesStopped == rx = "wait" /\ txPane # {}

\* The pane of the transmitter is looked at again and again.
RxPolls == rx = "wait" /\ txPane = {} /\ UNCHANGED vars

\* Sixty seconds.
RxTimeout == rx = "wait"

\* wait_for_remote_event(tx, "stopped-tx", timeout=60): its result is not used.
RxWaited ==
    /\ RxSeesStopped \/ RxTimeout
    /\ rx' = "kill"
    /\ UNCHANGED <<rxOthers, remote>>

\* A mutant: the shell does not wait for the program to end.
RxKillOnly ==
    /\ rx = "kill"
    /\ rxPane' = [events |-> {}, prompt |-> TRUE, busy |-> FALSE]
    /\ program' = IF program.state = "none" THEN program ELSE [program EXCEPT !.state = "stopping"]
    /\ rx' = "killing"
    /\ UNCHANGED <<rxOthers, txPane, tee, output, gen, announced>>

\* "sudo pkill regex-test && while pgrep -x regex-test ..."
RxKill ==
    /\ rx = "kill"
    /\ rxPane' = [events |-> {}, prompt |-> FALSE, busy |-> TRUE]
    /\ program' = IF program.state = "none" THEN program ELSE [program EXCEPT !.state = "stopping"]
    /\ rx' = "killing"
    /\ UNCHANGED <<rxOthers, txPane, tee, output, gen, announced>>

\* rx_run waits for the prompt behind what it has typed.
AtPrompt == rx \in {"cding", "mkdiring", "killing", "catting"}

\* remote_tmux_wait_for_prompt: the last line is looked at every second, without a
\* time-out.
RxLooks == AtPrompt /\ ~rxPane.prompt /\ UNCHANGED vars

RxKilled ==
    /\ rx = "killing" /\ rxPane.prompt
    /\ rxPane' = Cleared
    /\ rx' = "cat"
    /\ UNCHANGED <<rxOthers, txPane, program, tee, output, gen, announced>>

\* "cat rgx_output" shows the file with the event that is in it, if the program got
\* as far as to announce itself.
RxCat ==
    /\ rx = "cat"
    /\ rxPane' = [events |-> ({output.attempt} \cap {announced}) \ {0}, prompt |-> TRUE, busy |-> FALSE]
    /\ outrun' = (tx \in {"upload", "wait"})
    /\ rx' = "catting"
    /\ UNCHANGED <<main, attempt, tx, script, lua, parsed, txError, accepted, faults,
                   txPane, program, tee, output, gen, announced>>

\* A mutant: the pane is not cleared after its text has been taken.
RxParseNoClear ==
    /\ rx = "catting" /\ rxPane.prompt
    /\ parsed' = output
    /\ rx' = "done"
    /\ UNCHANGED <<main, attempt, tx, script, lua, txError, outrun, accepted, faults, remote>>

RxParse ==
    /\ rx = "catting" /\ rxPane.prompt
    /\ rxPane' = Cleared
    /\ parsed' = output
    /\ rx' = "done"
    /\ UNCHANGED <<main, attempt, tx, script, lua, txError, outrun, accepted, faults,
                   txPane, program, tee, output, gen, announced>>
-----------------------------------------------------------------------------
(* tx_run                                                                  *)

\* "cd ~" and mkdir clear the pane, where nothing prints from the background to cover
\* their prompts, and gen_pkts.lua is uploaded, or not: tx_run goes on all the same.
TxUpload ==
    /\ tx = "upload"
    /\ txPane' = {}
    /\ \E ok \in BOOLEAN : MayUpload(ok) /\ lua' = ok /\ Upload(ok)
    /\ tx' = "wait"
    /\ UNCHANGED <<main, attempt, rx, script, parsed, txError, outrun, accepted,
                   rxPane, program, tee, output, gen, announced>>

TxSeesStarting ==
    /\ tx = "wait" /\ rxPane.events # {}
    /\ tx' = "launch"
    /\ UNCHANGED <<txOthers, remote>>

\* A mutant: the end of the time is not an error.
TxTimeoutIgnored ==
    /\ tx = "wait"
    /\ tx' = "done"
    /\ UNCHANGED <<txOthers, remote>>

TxTimeout ==
    /\ tx = "wait"
    /\ tx' = "done" /\ txError' = TRUE
    /\ UNCHANGED <<main, attempt, rx, script, lua, parsed, outrun, accepted, faults, remote>>

\* launch_pktgen.sh, blocking; without the script the prompt is back at once.
TxLaunch ==
    /\ tx = "launch"
    /\ txPane' = {}
    /\ \E ok \in BOOLEAN : /\ MayUpload(ok) /\ Upload(ok)
                           /\ gen' = IF ok THEN "sending" ELSE "off"
    /\ tx' = "sending"
    /\ UNCHANGED <<main, attempt, rx, script, lua, parsed, txError, outrun, accepted,
                   rxPane, program, tee, output, announced>>

\* A mutant: the launch does not block.
TxCaptureEarly ==
    /\ tx = "sending"
    /\ txPane' = {}
    /\ tx' = "done"
    /\ UNCHANGED <<txOthers, rxPane, program, tee, output, gen, announced>>

\* The prompt is back: the output is taken and the pane cleared, with the event in it.
TxCapture ==
    /\ tx = "sending" /\ gen = "off"
    /\ txPane' = {}
    /\ tx' = "done"
    /\ UNCHANGED <<txOthers, rxPane, program, tee, output, gen, announced>>
-----------------------------------------------------------------------------
(* The machines                                                            *)

\* "EVENT starting-rx" appears behind the prompt that the launch left.
ProgramReady ==
    /\ program.state = "starting"
    /\ program' = [program EXCEPT !.state = "ready"]
    /\ rxPane' = [rxPane EXCEPT !.events = @ \cup {program.attempt}, !.prompt = FALSE]
    /\ announced' = program.attempt
    /\ UNCHANGED <<threads, txPane, tee, output, gen>>

\* rte_exit and rte_panic: the program ends without a report.
ProgramFails ==
    /\ program.state \in {"starting", "ready"}
    /\ program' = [program EXCEPT !.state = "none"]
    /\ UNCHANGED <<threads, rxPane, txPane, tee, output, gen, announced>>

\* The report of a program that was told to stop, which may still announce itself.
ProgramEnds ==
    /\ program.state = "stopping"
    /\ program' = [program EXCEPT !.state = "none"]
    /\ \E event \in SUBSET {program.attempt} :
          /\ rxPane' = [rxPane EXCEPT !.events = @ \cup event, !.prompt = FALSE]
          /\ announced' = IF event = {} THEN announced ELSE program.attempt
    /\ \E late \in {FALSE, LateOutput} :
          /\ tee' = IF late THEN program.attempt ELSE 0
          /\ output' = [output EXCEPT !.report = ~late]
    /\ UNCHANGED <<threads, txPane, gen>>

\* The rest of the report appears, wherever the cursor of the pane is.
TeePrints ==
    /\ tee # 0
    /\ tee' = 0
    /\ output' = [output EXCEPT !.report = @ \/ output.attempt = tee]
    /\ rxPane' = [rxPane EXCEPT !.prompt = FALSE]
    /\ UNCHANGED <<threads, txPane, program, gen, announced>>

\* The loop over pgrep ends and the shell prints its prompt.
PgrepEnds ==
    /\ rxPane.busy /\ program.state = "none"
    /\ rxPane' = [rxPane EXCEPT !.busy = FALSE, !.prompt = TRUE]
    /\ UNCHANGED <<threads, txPane, program, tee, output, gen, announced>>

\* "echo EVENT stopped-tx", behind pktgen.
GeneratorEnds ==
    /\ gen = "sending"
    /\ gen' = "off"
    /\ txPane' = {attempt}
    /\ UNCHANGED <<threads, rxPane, program, tee, output, announced>>

Over == main = "over" /\ UNCHANGED vars

MainThread == StartAttempt \/ Join \/ Check
RxThread   == \/ RxCd \/ RxMkdir \/ RxUpload \/ RxLaunch \/ RxCapture
              \/ RxWaited \/ RxKill \/ RxKilled \/ RxCat \/ RxParse
TxThread   == TxUpload \/ TxSeesStarting \/ TxTimeout \/ TxLaunch \/ TxCapture

Next ==
    \/ MainThread \/ RxThread \/ RxPolls \/ RxLooks \/ TxThread
    \/ ProgramReady \/ ProgramFails \/ ProgramEnds \/ TeePrints \/ PgrepEnds \/ GeneratorEnds
    \/ Over

Spec == Init /\ [][Next]_vars

\* The threads run, their time-outs pass, the signal ends the program (property
\* Terminates of RegexWorker), and the generator sends for the fixed time its script
\* says; without the script nothing is known of its end.
FairSpec ==
    /\ Spec
    /\ WF_vars(MainThread) /\ WF_vars(RxThread) /\ WF_vars(TxThread)
    /\ WF_vars(ProgramEnds) /\ WF_vars(TeePrints) /\ WF_vars(PgrepEnds)
    /\ WF_vars(GeneratorEnds /\ lua)
-----------------------------------------------------------------------------
Attempts == 0..MaxAttempts

\* The state of the threads, the panes and the machines.
TypeOK ==
    /\ main \in {"start", "join", "check", "over"} /\ attempt \in 1..MaxAttempts
    /\ rx \in {"cd", "cding", "mkdiring", "launch", "capture", "wait", "kill", "killing",
              "cat", "catting", "done"}
    /\ tx \in {"upload", "wait", "launch", "sending", "done"}
    /\ rxPane \in [events : SUBSET (1..MaxAttempts), prompt : BOOLEAN, busy : BOOLEAN]
    /\ rxPane.busy => ~rxPane.prompt
    /\ txPane \subseteq {attempt}
    /\ program \in [attempt : Attempts, state : {"none", "starting", "ready", "stopping"}]
    /\ output \in [attempt : Attempts, report : BOOLEAN]
    /\ parsed \in [attempt : Attempts, report : BOOLEAN]
    /\ gen \in {"off", "sending"} /\ (gen = "sending" => tx = "sending")
    /\ {script, lua, txError, outrun} \subseteq BOOLEAN /\ tee \in Attempts
    /\ announced \in Attempts /\ faults \in 0..MaxFaults

\* An accepted result comes from the program of its own attempt, but in one case.
\* rgx_output keeps the report of an earlier attempt when rx.sh could not be uploaded,
\* and neither rx_run nor the parser can tell (exp_runner.py:32, expelib.py:444); what
\* saves the result is that the transmitter misses its event.  The case is that of a
\* transmitter that then finds the event in the old file, which the receiver shows in
\* the end: it must still look sixty seconds after the receiver began to wait, as it
\* does when the upload of gen_pkts.lua was repeated (expelib.py:418-421).
FreshResult == \A r \in accepted : r.from = r.run \/ r.fooled

\* The generator is started only after the program of this attempt has announced
\* itself, never on an event that the pane still shows from an earlier one
\* (wait_for_remote_event, the clearing in remote_tmux_send), but in the same case: the
\* receiver, without rx.sh, showed the old rgx_output to a transmitter that still looked.
NoStaleEvent == [][gen = "off" /\ gen' = "sending" => announced = attempt \/ MayBeFooled]_vars

\* A program is launched only when the one before has ended, although the threads
\* may have given up waiting for each other (exp_runner.py:31).
OneProgram == [][program'.attempt # program.attempt => program.state = "none"]_vars

\* The last line of the pane is something else than the prompt behind which the
\* shell waits, and nobody types.
PromptCovered == AtPrompt /\ ~rxPane.busy /\ ~rxPane.prompt

\* An attempt comes to its end whatever fails on the machines and whichever event is
\* lost, or it waits for a prompt that the late output of the program has covered, or
\* for a packet generator without its script (the time-outs of wait_for_remote_event,
\* remote_tmux_wait_for_prompt).
AttemptEnds ==
    main = "join" ~> (main = "check" \/ PromptCovered \/ (gen = "sending" /\ ~lua))
=============================================================================
