-------------------------- MODULE ExpRunnerProofs --------------------------
(***************************************************************************)
(* Proofs about ExpRunner, for any number of attempts and of failing       *)
(* uploads.                                                                *)
(*                                                                         *)
(* OneProgram needs to know in which places of rx_run a program may still  *)
(* be there (Phases, Alive).  FreshResult and NoStaleEvent rest on a chain *)
(* of events: the generator starts on an event in the pane of the          *)
(* receiver; an event is in it only while it can be one of this attempt,   *)
(* until rx_run types "cat rgx_output", and whoever still looks then has   *)
(* been outrun (Window); what the file shows is of this attempt if rx.sh   *)
(* was uploaded (Shown); an event of this attempt is from a program that   *)
(* was launched in it, and the launch has truncated rgx_output.            *)
(***************************************************************************)
EXTENDS ExpRunner, TLAPS

\* The threads run between start and join only, and the event of the generator is in
\* its pane only while tx_run waits for the prompt.
Phases ==
    /\ main # "join" => rx = "done" /\ tx = "done"
    /\ txPane # {} => tx = "sending"

\* A program is there only between its launch and the prompt behind pkill, and it is
\* of this attempt, as is the file it writes.
Alive ==
    /\ rx \in {"cd", "cding", "mkdiring", "launch", "cat", "catting", "done"} =>
          program.state = "none"
    /\ rx = "killing" => rxPane.busy \/ program.state = "none"
    /\ program.state # "none" => program.attempt = attempt /\ output.attempt = attempt

\* What was announced in this attempt has truncated rgx_output.
Announced ==
    /\ announced <= attempt
    /\ announced = attempt => output.attempt = attempt

Panes   == [events : SUBSET (1..MaxAttempts), prompt : BOOLEAN, busy : BOOLEAN]
Outputs == [attempt : Attempts, report : BOOLEAN]

RunnerInv == TypeOK /\ Phases /\ Alive /\ Announced

\* The transmitter waits only while the events in the pane are those of this attempt,
\* unless it is outrun, and at the end of an attempt there are none.
Window ==
    /\ rx = "done" => rxPane.events = {}
    /\ rx # "catting" => \A e \in rxPane.events : e = attempt /\ announced = attempt
    /\ main = "join" /\ rx \in {"catting", "done"} /\ tx \in {"upload", "wait"} => outrun
    /\ main = "join" /\ rx \notin {"catting", "done"} => ~outrun

\* A launch truncates rgx_output, and "cat" shows the event that is in it.
Shown ==
    /\ main \in {"join", "check"} /\ script /\ rx \notin {"cd", "cding", "mkdiring", "launch"} =>
          output.attempt = attempt
    /\ rx = "catting" => \A e \in rxPane.events : e = output.attempt /\ e = announced

\* A transmitter that went on without an error has seen the program of this attempt,
\* or may be fooled.
Seen ==
    main \in {"join", "check"} /\ (tx \in {"launch", "sending"} \/ (tx = "done" /\ ~txError)) =>
        announced = attempt \/ MayBeFooled

\* A parsed report is from the file as it is.
Parsed == parsed.report => rx = "done" /\ parsed.attempt = output.attempt

FreshInv == RunnerInv /\ Window /\ Shown /\ Seen /\ Parsed /\ FreshResult
-----------------------------------------------------------------------------
LEMMA RunnerInit == Init => RunnerInv
<1> SUFFICES ASSUME Init
             PROVE  RunnerInv
  OBVIOUS
<1> USE RunnerAssumption DEF Init, Attempts
<1>1. Empty \in Outputs
  BY DEF Empty, Outputs
<1>2. TypeOK
  <2>1. rxPane \in Panes /\ ~rxPane.busy
    BY DEF Panes
  <2>2. program \in [attempt : Attempts, state : {"none", "starting", "ready", "stopping"}]
    OBVIOUS
  <2>3. output \in Outputs /\ parsed \in Outputs
    BY <1>1
  <2>4. {script, lua, txError, outrun} \subseteq BOOLEAN
    OBVIOUS
  <2>5. tee \in Attempts /\ announced \in Attempts /\ faults \in 0..MaxFaults
    OBVIOUS
  <2>6. main = "start" /\ attempt \in 1..MaxAttempts
    OBVIOUS
  <2>7. rx = "done" /\ tx = "done" /\ gen = "off" /\ txPane \subseteq {attempt}
    OBVIOUS
  <2> HIDE DEF Init
  <2> QED
    BY <2>1, <2>2, <2>3, <2>4, <2>5, <2>6, <2>7 DEF TypeOK, Outputs, Panes
<1>3. Phases /\ Alive /\ Announced
  BY DEF Phases, Alive, Announced
<1> QED
  BY <1>2, <1>3 DEF RunnerInv

LEMMA RunnerStep == RunnerInv /\ [Next]_vars => RunnerInv'
<1> SUFFICES ASSUME RunnerInv, [Next]_vars
             PROVE  RunnerInv'
  OBVIOUS
<1> USE RunnerAssumption
        DEF RunnerInv, TypeOK, Phases, Alive, Announced, Attempts, threads, rxOthers, txOthers, remote
<1>1. CASE StartAttempt
  <2>1. Empty \in Outputs
    BY DEF Empty, Outputs
  <2> QED
    BY <1>1, <2>1 DEF StartAttempt, Outputs
<1>2. CASE Join
  BY <1>2 DEF Join
<1>3. CASE Check
  BY <1>3 DEF Check
<1>4. CASE RxUpload
  <2>1. script' \in BOOLEAN /\ faults' \in 0..MaxFaults
    BY <1>4 DEF RxUpload, Upload, MayUpload
  <2> QED
    BY <1>4, <2>1 DEF RxUpload
<1>5. CASE RxLaunch
  <2>1. rxPane' \in Panes /\ (rxPane'.busy => ~rxPane'.prompt)
    BY <1>5 DEF RxLaunch, Cleared, Panes
  <2>2. CASE script
    <3>1. /\ output' = [attempt |-> attempt, report |-> FALSE]
          /\ program' = [attempt |-> attempt, state |-> "starting"]
      BY <1>5, <2>2 DEF RxLaunch
    <3>2. output' \in Outputs /\ output'.attempt = attempt
      BY <3>1 DEF Outputs
    <3> QED
      BY <1>5, <2>1, <3>1, <3>2 DEF RxLaunch, Panes, Outputs
  <2>3. CASE ~script
    BY <1>5, <2>1, <2>3 DEF RxLaunch, Panes
  <2> QED
    BY <2>2, <2>3
<1>6. CASE RxCapture
  <2>1. rxPane' \in Panes /\ (rxPane'.busy => ~rxPane'.prompt)
    BY <1>6 DEF RxCapture, Cleared, Panes
  <2> QED
    BY <1>6, <2>1 DEF RxCapture, Panes
<1>7. CASE RxWaited
  BY <1>7 DEF RxWaited, RxSeesStopped, RxTimeout
<1>8. CASE RxKill
  BY <1>8 DEF RxKill
<1>9. CASE RxKilled
  BY <1>9 DEF RxKilled, Cleared
<1>10. CASE RxCat
  BY <1>10 DEF RxCat
<1>11. CASE RxParse
  BY <1>11 DEF RxParse, Cleared
<1>12. CASE RxPolls
  BY <1>12 DEF RxPolls, vars
<1>13. CASE RxLooks
  BY <1>13 DEF RxLooks, vars
<1>14. CASE TxUpload
  <2>1. lua' \in BOOLEAN /\ faults' \in 0..MaxFaults
    BY <1>14 DEF TxUpload, Upload, MayUpload
  <2> QED
    BY <1>14, <2>1 DEF TxUpload
<1>15. CASE TxSeesStarting
  BY <1>15 DEF TxSeesStarting
<1>16. CASE TxTimeout
  BY <1>16 DEF TxTimeout
<1>17. CASE TxLaunch
  BY <1>17 DEF TxLaunch, Upload, MayUpload
<1>18. CASE TxCapture
  BY <1>18 DEF TxCapture
<1>19. CASE ProgramReady
  <2>1. program.attempt = attempt /\ output.attempt = attempt
    BY <1>19 DEF ProgramReady
  <2>2. rxPane' \in Panes /\ (rxPane'.busy => ~rxPane'.prompt) /\ rxPane'.busy = rxPane.busy
    BY <1>19, <2>1 DEF ProgramReady, Panes
  <2> QED
    BY <1>19, <2>1, <2>2 DEF ProgramReady, Panes
<1>20. CASE ProgramFails
  BY <1>20 DEF ProgramFails
<1>21. CASE ProgramEnds
  <2>1. program.attempt = attempt /\ output.attempt = attempt
    BY <1>21 DEF ProgramEnds
  <2>2. rxPane' \in Panes /\ (rxPane'.busy => ~rxPane'.prompt) /\ rxPane'.busy = rxPane.busy
    <3>1. PICK event \in SUBSET {program.attempt} :
             rxPane' = [rxPane EXCEPT !.events = @ \cup event, !.prompt = FALSE]
      BY <1>21 DEF ProgramEnds
    <3> QED
      BY <2>1, <3>1 DEF Panes
  <2>3. output' \in Outputs /\ output'.attempt = output.attempt
    BY <1>21 DEF ProgramEnds, Outputs
  <2>4. announced' \in {announced, attempt} /\ tee' \in Attempts
    BY <1>21, <2>1 DEF ProgramEnds
  <2> QED
    BY <1>21, <2>1, <2>2, <2>3, <2>4 DEF ProgramEnds, Panes, Outputs
<1>22. CASE TeePrints
  <2>1. rxPane' \in Panes /\ (rxPane'.busy => ~rxPane'.prompt) /\ rxPane'.busy = rxPane.busy
    BY <1>22 DEF TeePrints, Panes
  <2>2. output' \in Outputs /\ output'.attempt = output.attempt
    BY <1>22 DEF TeePrints, Outputs
  <2> QED
    BY <1>22, <2>1, <2>2 DEF TeePrints, Panes, Outputs
<1>23. CASE PgrepEnds
  <2>1. rxPane' \in Panes /\ ~rxPane'.busy
    BY <1>23 DEF PgrepEnds, Panes
  <2> QED
    BY <1>23, <2>1 DEF PgrepEnds, Panes
<1>24. CASE GeneratorEnds
  BY <1>24 DEF GeneratorEnds
<1>25. CASE Over
  BY <1>25 DEF Over, vars
<1>26. CASE UNCHANGED vars
  BY <1>26 DEF vars
<1>27. CASE RxCd
  <2>1. rxPane' \in Panes /\ (rxPane'.busy => ~rxPane'.prompt)
    BY <1>27 DEF RxCd, Cleared, Panes
  <2> QED
    BY <1>27, <2>1 DEF RxCd, Panes
<1>28. CASE RxMkdir
  <2>1. rxPane' \in Panes /\ (rxPane'.busy => ~rxPane'.prompt)
    BY <1>28 DEF RxMkdir, Cleared, Panes
  <2> QED
    BY <1>28, <2>1 DEF RxMkdir, Panes
<1> QED
  BY <1>1, <1>2, <1>3, <1>4, <1>5, <1>6, <1>7, <1>8, <1>9, <1>10, <1>11, <1>12, <1>13,
     <1>14, <1>15, <1>16, <1>17, <1>18, <1>19, <1>20, <1>21, <1>22, <1>23, <1>24,
     <1>25, <1>26, <1>27, <1>28
     DEF Next, MainThread, RxThread, TxThread

LEMMA RunnerInvariant == Spec => []RunnerInv
BY RunnerInit, RunnerStep, PTL DEF Spec

\* The threads, panes and machines have the states of the code.
THEOREM RunnerTypes == Spec => []TypeOK
<1>1. RunnerInv => TypeOK
  BY DEF RunnerInv
<1> QED
  BY <1>1, RunnerInvariant, PTL

\* A program is launched only when the one before has ended, whatever the threads have
\* given up waiting for (exp_runner.py:31).
THEOREM ProgramsDoNotOverlap == Spec => OneProgram
<1>1. ASSUME RunnerInv, Next
      PROVE  program'.attempt # program.attempt => program.state = "none"
  <2>1. CASE RxLaunch
    BY <1>1, <2>1 DEF RunnerInv, Alive, RxLaunch
  <2>2. CASE RxKill \/ ProgramReady \/ ProgramFails \/ ProgramEnds
    BY <1>1, <2>2 DEF RunnerInv, TypeOK, RxKill, ProgramReady, ProgramFails, ProgramEnds
  <2>3. CASE UNCHANGED program
    BY <2>3
  <2> QED
    BY <1>1, <2>1, <2>2, <2>3
       DEF Next, MainThread, RxThread, TxThread, StartAttempt, Join, Check, RxCd, RxMkdir, RxUpload,
           RxCapture, RxWaited, RxKilled, RxCat, RxParse, RxPolls, RxLooks, TxUpload,
           TxSeesStarting, TxTimeout, TxLaunch, TxCapture, TeePrints, PgrepEnds,
           GeneratorEnds, Over, remote, rxOthers, txOthers, vars
<1>2. RunnerInv /\ [Next]_vars => [program'.attempt # program.attempt => program.state = "none"]_vars
  BY <1>1
<1> QED
  BY <1>2, RunnerInvariant, PTL DEF Spec, OneProgram
-----------------------------------------------------------------------------
LEMMA FreshInit == Init => FreshInv
<1> SUFFICES ASSUME Init
             PROVE  FreshInv
  OBVIOUS
<1>1. Window /\ Shown /\ Seen /\ Parsed /\ FreshResult
  BY DEF Init, Empty, Window, Shown, Seen, Parsed, FreshResult
<1> QED
  BY <1>1, RunnerInit DEF FreshInv

LEMMA FreshStep == FreshInv /\ [Next]_vars => FreshInv'
<1> SUFFICES ASSUME FreshInv, [Next]_vars
             PROVE  Window' /\ Shown' /\ Seen' /\ Parsed' /\ FreshResult'
  BY RunnerStep DEF FreshInv
<1> USE RunnerAssumption
        DEF FreshInv, RunnerInv, Phases, Alive, Announced, Window, Shown, Seen, Parsed, FreshResult, MayBeFooled,
            threads, rxOthers, txOthers, remote
<1>1. CASE StartAttempt
  BY <1>1 DEF StartAttempt, Empty
<1>2. CASE Join
  BY <1>2 DEF Join
<1>3. CASE Check
  <2>1. rxPane.events = {} /\ UNCHANGED <<rx, tx, rxPane, parsed, output, txError, outrun>>
    BY <1>3 DEF Check
  <2>2. main' \in {"start", "over"}
    BY <1>3 DEF Check
  <2>3. ~txError /\ parsed.report => (outrun /\ ~script) \/ parsed.attempt = attempt
    BY <1>3 DEF Check
  <2>4. FreshResult'
    <3>1. ASSUME NEW r \in accepted'
          PROVE  r.from = r.run \/ r.fooled
      <4>1. CASE r \in accepted
        BY <4>1
      <4>2. CASE r \notin accepted
        <5>1. /\ ~txError /\ parsed.report
              /\ r = [run |-> attempt, from |-> parsed.attempt, fooled |-> MayBeFooled]
          BY <1>3, <4>2 DEF Check
        <5>2. parsed.attempt = attempt \/ MayBeFooled
          BY <2>3, <5>1
        <5> HIDE DEF MayBeFooled
        <5> QED
          BY <5>1, <5>2
      <4> QED
        BY <4>1, <4>2
    <3> QED
      BY <3>1
  <2> QED
    BY <1>3, <2>1, <2>2, <2>4 DEF Check
<1>4. CASE RxUpload
  BY <1>4 DEF RxUpload
<1>5. CASE RxLaunch
  BY <1>5 DEF RxLaunch, Cleared
<1>6. CASE RxCapture
  BY <1>6 DEF RxCapture, Cleared
<1>7. CASE RxWaited
  BY <1>7 DEF RxWaited, RxSeesStopped, RxTimeout
<1>8. CASE RxKill
  BY <1>8 DEF RxKill
<1>9. CASE RxKilled
  BY <1>9 DEF RxKilled, Cleared
<1>10. CASE RxCat
  <2>1. /\ rx' = "catting" /\ main' = main /\ tx' = tx /\ accepted' = accepted
        /\ parsed' = parsed /\ txError' = txError /\ output' = output
        /\ announced' = announced /\ attempt' = attempt
    BY <1>10 DEF RxCat
  <2>2. tx \in {"upload", "wait"} => outrun'
    BY <1>10 DEF RxCat
  <2>3. Window'
    BY <2>1, <2>2
  <2>4. Seen'
    <3>1. main = "join" /\ ~outrun
      BY <1>10 DEF RxCat, TypeOK
    <3> QED
      BY <2>1, <3>1
  <2> QED
    BY <1>10, <2>1, <2>3, <2>4 DEF RxCat
<1>11. CASE RxParse
  BY <1>11 DEF RxParse, Cleared
<1>12. CASE RxPolls
  BY <1>12 DEF RxPolls, vars
<1>13. CASE RxLooks
  BY <1>13 DEF RxLooks, vars
<1>14. CASE TxUpload
  BY <1>14 DEF TxUpload
<1>15. CASE TxSeesStarting
  BY <1>15 DEF TxSeesStarting
<1>16. CASE TxTimeout
  BY <1>16 DEF TxTimeout
<1>17. CASE TxLaunch
  BY <1>17 DEF TxLaunch
<1>18. CASE TxCapture
  BY <1>18 DEF TxCapture
<1>19. CASE ProgramReady
  BY <1>19 DEF ProgramReady
<1>20. CASE ProgramFails
  BY <1>20 DEF ProgramFails
<1>21. CASE ProgramEnds
  BY <1>21 DEF ProgramEnds
<1>22. CASE TeePrints
  BY <1>22 DEF TeePrints
<1>23. CASE PgrepEnds
  BY <1>23 DEF PgrepEnds
<1>24. CASE GeneratorEnds
  BY <1>24 DEF GeneratorEnds
<1>25. CASE Over
  BY <1>25 DEF Over, vars
<1>26. CASE UNCHANGED vars
  BY <1>26 DEF vars
<1>27. CASE RxCd
  BY <1>27 DEF RxCd, Cleared
<1>28. CASE RxMkdir
  BY <1>28 DEF RxMkdir, Cleared
<1> QED
  BY <1>1, <1>2, <1>3, <1>4, <1>5, <1>6, <1>7, <1>8, <1>9, <1>10, <1>11, <1>12, <1>13,
     <1>14, <1>15, <1>16, <1>17, <1>18, <1>19, <1>20, <1>21, <1>22, <1>23, <1>24,
     <1>25, <1>26, <1>27, <1>28
     DEF Next, MainThread, RxThread, TxThread

LEMMA FreshInvariant == Spec => []FreshInv
BY FreshInit, FreshStep, PTL DEF Spec

\* An accepted result comes from the program of its own attempt, unless the receiver
\* has outrun the transmitter (rx_run and tx_run over rgx_output).
THEOREM ResultsAreFresh == Spec => []FreshResult
<1>1. FreshInv => FreshResult
  BY DEF FreshInv
<1> QED
  BY <1>1, FreshInvariant, PTL

\* The generator starts only for a program that announced itself in this attempt,
\* unless the receiver has outrun the transmitter (wait_for_remote_event).
THEOREM EventsAreOfThisAttempt == Spec => NoStaleEvent
<1>1. ASSUME FreshInv, Next, gen = "off", gen' = "sending"
      PROVE  announced = attempt \/ MayBeFooled
  <2>1. TxLaunch
    BY <1>1
       DEF Next, MainThread, RxThread, TxThread, StartAttempt, Join, Check, RxCd, RxMkdir,
           RxUpload, RxLaunch, RxCapture, RxWaited, RxKill, RxKilled, RxCat, RxParse, RxPolls,
           RxLooks, TxUpload, TxSeesStarting, TxTimeout, TxCapture, ProgramReady, ProgramFails,
           ProgramEnds, TeePrints, PgrepEnds, GeneratorEnds, Over, rxOthers, txOthers, remote, vars
  <2> QED
    BY <1>1, <2>1 DEF FreshInv, RunnerInv, Phases, Seen, TxLaunch
<1>2. FreshInv /\ [Next]_vars =>
         [gen = "off" /\ gen' = "sending" => announced = attempt \/ MayBeFooled]_vars
  BY <1>1
<1> QED
  BY <1>2, FreshInvariant, PTL DEF Spec, NoStaleEvent
=============================================================================
