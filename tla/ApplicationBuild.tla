--------------------------- MODULE ApplicationBuild ---------------------------
(***************************************************************************)
(* One build of an application (ApplicationConfigurer.build): checks, the   *)
(* initialization flow, the tests, and the flows given to the triggers of   *)
(* the modules.  The tests run at the same time, each with its cases one    *)
(* after the other (SequentialTestCasesRunner), and race with a timeout.    *)
(*                                                                         *)
(* A case is a run of a flow, so that FlowContract says what it may answer: *)
(* once ok or halted, or an error for each branch that fails, or nothing    *)
(* for as long as it likes.  Every answer is a thread that calls runNext,   *)
(* so a case that fails twice leaves two threads that share one iterator.   *)
(***************************************************************************)
EXTENDS Integers, Sequences, FiniteSets, Bags

CONSTANTS Settings,     \* the applications, and what may go wrong with them
          MaxAgain      \* bound: how often an error of a case is followed by another

\* cases[t] is the number of cases of test t
Setting(cases, triggers, may) == [cases |-> cases, triggers |-> triggers, may |-> may]

Faults == {"check", "init", "flows", "wrong", "error", "consumer"}

ASSUME BuildAssumption ==
    /\ MaxAgain \in Nat
    /\ \A s \in Settings : /\ s.cases \in Seq(Nat)
                           /\ s.triggers \in Nat
                           /\ s.may \subseteq Faults

VARIABLES setting,
          phase,    \* of the build
          future,   \* CompletableFuture<Application>: "open", "ok", "failed"
          given,    \* how many triggers have been given their flows
          tested,   \* the future of runTests
          timer,    \* the timeout: "none", "armed", "firing", "over"
          threads,  \* how many threads of a test are at each of Places
          cursor,   \* of the iterator over the cases of each test
          cases,    \* case runs that may still answer: a bag
          again,    \* how many runs were to fail once more
          passed,   \* cases that were run and answered what is expected
          errors,   \* tests that have errors (testErrors of the runner)
          failed,   \* tests whose errors were added (testErrors of runTests)
          remaining,
          finishing,\* a thread is in testsFinished
          report    \* what it makes of testErrors: "none", "collecting", "torn" when they
                    \* change meanwhile, "thrown" when that was noticed

runs  == <<cases, again, passed>>
tests == <<threads, cursor, runs, errors, failed, remaining, finishing, report>>
vars  == <<setting, phase, future, given, tested, timer, tests>>

May(fault) == fault \in setting.may
Tests == DOMAIN setting.cases
Cases(t) == 1 .. setting.cases[t]

\* in runNext before hasNext and before next, in complete before addAll and before
\* decrementAndGet
Places == {"hasNext", "next", "addAll", "decrement"}

\* a run of a case that has not answered, or that has answered an error and will
\* answer another
CaseRun(t, case, failedOnce) == [test |-> t, case |-> case, failedOnce |-> failedOnce]
One(c) == SetToBag({c})

Init ==
    /\ setting \in Settings
    /\ phase = "checking" /\ future = "open" /\ given = 0
    /\ tested = "open" /\ timer = "none"
    /\ threads = [t \in Tests |-> [p \in Places |-> 0]]
    /\ cursor = [t \in Tests |-> 0]
    /\ cases = EmptyBag /\ again = 0 /\ passed = {}
    /\ errors = {} /\ failed = {}
    /\ remaining = 0 /\ finishing = FALSE /\ report = "none"

-----------------------------------------------------------------------------
(* Up to the tests.                                                         *)

Answer(verdict) == future' = verdict /\ phase' = "answered"

\* build: checkValid, ModuleConfigurer.setup, runChecks, runPortCheckers
Checks ==
    /\ phase = "checking"
    /\ \/ phase' = "initializing" /\ UNCHANGED future
       \/ May("check") /\ Answer("failed")
    /\ UNCHANGED <<setting, given, tested, timer, tests>>

\* the initialization flow answers (or it never does)
Initialized ==
    /\ phase = "initializing"
    /\ \/ phase' = "building" /\ UNCHANGED future
       \/ May("init") /\ Answer("failed")
    /\ UNCHANGED <<setting, given, tested, timer, tests>>

\* mutant of Armed: no timeout
NotArmed == timer' = "none"

Armed == timer' = "armed"

\* mutant of Remaining: one fewer
OneFewer == Cardinality(Tests) - 1

Remaining == Cardinality(Tests)

\* ApplicationInitializer.ok: the flows are built, and runTests begins
Builds ==
    /\ phase = "building"
    /\ \/ May("flows") /\ Answer("failed") /\ UNCHANGED <<tested, timer, tests>>
       \/ /\ Tests = {}
          /\ phase' = "giving" /\ tested' = "ok"
          /\ UNCHANGED <<future, timer, tests>>
       \/ /\ Tests # {}
          /\ phase' = "testing"
          /\ Armed
          /\ remaining' = Remaining
          /\ threads' = [t \in Tests |-> [threads[t] EXCEPT !["hasNext"] = 1]]
          /\ UNCHANGED <<future, tested, cursor, runs, errors, failed, finishing,
                          report>>
    /\ UNCHANGED <<setting, given>>

-----------------------------------------------------------------------------
(* A test (SequentialTestCasesRunner).                                      *)

Move(t, from, to) ==
    /\ threads[t][from] > 0
    /\ threads' = [threads EXCEPT ![t] = [p \in Places |->
                      @[p] - (IF p = from THEN 1 ELSE 0) + (IF p = to THEN 1 ELSE 0)]]

HasNext(t) ==
    /\ Move(t, "hasNext", IF cursor[t] < setting.cases[t] THEN "next" ELSE "addAll")
    /\ UNCHANGED <<setting, phase, future, given, tested, timer, cursor, runs, errors, failed,
                   remaining, finishing, report>>

\* mutant of Advanced: a case is passed over
TwoOn(t) == cursor[t] + 2

Advanced(t) == cursor[t] + 1

\* Iterator.next, which throws at the end; two threads in it at the same time may get
\* the same case
RunsNext(t) ==
    /\ Move(t, "next", "")
    /\ IF cursor[t] < setting.cases[t]
       THEN /\ cases' = cases (+) One(CaseRun(t, cursor[t] + 1, FALSE))
            /\ \/ cursor' = [cursor EXCEPT ![t] = Advanced(t)]
               \/ threads[t]["next"] > 1 /\ UNCHANGED cursor
       ELSE UNCHANGED <<cases, cursor>>
    /\ UNCHANGED <<setting, phase, future, given, tested, timer, again, passed, errors, failed,
                   remaining, finishing, report>>

\* the subscriber of a case: whatever it is told it goes on with runNext
GoesOn(t) == threads' = [threads EXCEPT ![t]["hasNext"] = @ + 1]

Passes(c) ==
    /\ ~c.failedOnce
    /\ passed' = passed \cup {<<c.test, c.case>>}
    /\ cases' = cases (-) One(c)
    /\ GoesOn(c.test)
    /\ UNCHANGED <<setting, phase, future, given, tested, timer, cursor, again, errors, failed,
                   remaining, finishing, report>>

HasErrors(t) == errors \cup {t}

\* other data than expected, or halted; or an error, which need not be the last
Fails(c) ==
    /\ \/ May("wrong") /\ ~c.failedOnce /\ cases' = cases (-) One(c) /\ UNCHANGED again
       \/ May("error") /\ cases' = cases (-) One(c) /\ UNCHANGED again
       \/ /\ May("error") /\ ~c.failedOnce /\ again < MaxAgain
          /\ cases' = (cases (-) One(c)) (+) One(CaseRun(c.test, c.case, TRUE))
          /\ again' = again + 1
    /\ errors' = HasErrors(c.test)
    /\ GoesOn(c.test)
    /\ UNCHANGED <<setting, phase, future, given, tested, timer, cursor, passed, failed,
                   remaining, finishing, report>>

\* complete, and the completion that runTests gave it
AddsErrors(t) ==
    /\ Move(t, "addAll", "decrement")
    /\ failed' = IF t \in errors THEN failed \cup {t} ELSE failed
    /\ report' = IF report = "collecting" THEN "torn" ELSE report
    /\ UNCHANGED <<setting, phase, future, given, tested, timer, cursor, runs, errors,
                   remaining, finishing>>

\* decrementAndGet, and testsFinished begins: "too late" when the timeout was first
Decrements(t) ==
    /\ Move(t, "decrement", "")
    /\ remaining' = remaining - 1
    /\ IF remaining' = 0 /\ tested = "open"
       THEN /\ finishing' = TRUE
            /\ timer' = IF timer = "armed" THEN "over" ELSE timer
       ELSE UNCHANGED <<finishing, timer>>
    /\ UNCHANGED <<setting, phase, future, given, tested, cursor, runs, errors, failed,
                   report>>

-----------------------------------------------------------------------------
(* The end of the tests, and of the build.                                  *)

\* mutant of Decide: the later verdict counts
Redecide(verdict) == tested' = verdict /\ phase' = "giving"

\* a CompletableFuture is completed once, and then calls what waits for it
Decide(verdict) ==
    IF tested = "open" THEN tested' = verdict /\ phase' = "giving" ELSE UNCHANGED <<tested, phase>>

Finishes ==
    /\ finishing
    /\ finishing' = FALSE
    /\ IF failed = {} THEN Decide("ok") /\ UNCHANGED report
       ELSE report' = "collecting" /\ UNCHANGED <<tested, phase>>
    /\ UNCHANGED <<setting, future, given, timer, threads, cursor, runs, errors, failed, remaining>>

\* testErrors is streamed without its lock: a thread of a case that failed twice may add to
\* it, and the ConcurrentModificationException is nobody's
Reports ==
    /\ report \in {"collecting", "torn"}
    /\ \/ report' = "none" /\ Decide("failed")
       \/ report = "torn" /\ report' = "thrown" /\ UNCHANGED <<tested, phase>>
    /\ UNCHANGED <<setting, future, given, timer, threads, cursor, runs, errors, failed, remaining,
                   finishing>>

\* when it runs it can not be cancelled any more
TimerFires ==
    /\ timer = "armed"
    /\ timer' = "firing"
    /\ UNCHANGED <<setting, phase, future, given, tested, tests>>

TimesOut ==
    /\ timer = "firing"
    /\ timer' = "over"
    /\ Decide("failed")
    /\ UNCHANGED <<setting, future, given, tests>>

Timer == TimerFires \/ TimesOut

\* whenComplete of runTests
TestsFailed ==
    /\ phase = "giving" /\ tested = "failed"
    /\ Answer("failed")
    /\ UNCHANGED <<setting, given, tested, timer, tests>>

\* triggers.consumer().accept, one after the other
GivesFlows ==
    /\ phase = "giving" /\ tested = "ok" /\ given < setting.triggers
    /\ \/ given' = given + 1 /\ UNCHANGED <<phase, future>>
       \/ May("consumer") /\ Answer("failed") /\ UNCHANGED given
    /\ UNCHANGED <<setting, tested, timer, tests>>

\* buildApplication and complete
Completes ==
    /\ phase = "giving" /\ tested = "ok" /\ given = setting.triggers
    /\ \/ Answer("ok")
       \/ May("consumer") /\ Answer("failed")
    /\ UNCHANGED <<setting, given, tested, timer, tests>>

-----------------------------------------------------------------------------
Runner(t) == HasNext(t) \/ RunsNext(t) \/ AddsErrors(t) \/ Decrements(t)
Builder   == Builds \/ Finishes \/ Reports \/ TestsFailed \/ GivesFlows \/ Completes

Next ==
    \/ Checks \/ Initialized \/ Builder \/ Timer
    \/ \E t \in Tests : Runner(t)
    \/ \E c \in BagToSet(cases) : Passes(c) \/ Fails(c)

\* the threads and the timer run; a flow may take for ever to answer
Fairness == WF_vars(Builder) /\ WF_vars(Timer) /\ WF_vars(\E t \in Tests : Runner(t))

Spec == Init /\ [][Next]_vars /\ Fairness
-----------------------------------------------------------------------------
AllCases == UNION { {t} \X Cases(t) : t \in Tests }

BuildTypeOK ==
    /\ setting \in Settings
    /\ phase \in {"checking", "initializing", "building", "testing", "giving", "answered"}
    /\ future \in {"open", "ok", "failed"} /\ given \in 0 .. setting.triggers
    /\ tested \in {"open", "ok", "failed"} /\ timer \in {"none", "armed", "firing", "over"}
    /\ threads \in [Tests -> [Places -> Nat]]
    /\ \A t \in Tests : cursor[t] \in 0 .. setting.cases[t]
    /\ IsABag(cases)
    /\ BagToSet(cases) \subseteq [test : Tests, case : Nat \ {0}, failedOnce : BOOLEAN]
    /\ again \in 0 .. MaxAgain
    /\ passed \subseteq AllCases
    /\ errors \subseteq Tests /\ failed \subseteq Tests
    /\ remaining \in Int /\ finishing \in BOOLEAN
    /\ report \in {"none", "collecting", "torn", "thrown"}

(* No trigger is given its flow, and no application is deployed, before every   *)
(* case of every test has been run and answered what it should and none is      *)
(* running any more; however often failing cases answer, and whenever the       *)
(* timeout fires.                                                               *)
TestedBeforeServed ==
    given > 0 \/ future = "ok" => passed = AllCases /\ cases = EmptyBag

(* The build is answered once, with what the manager counts on.                 *)
Contract == INSTANCE BuildContract
                WITH triggers <- setting.triggers, mayThrow <- May("consumer")
FulfilsBuildContract == Contract!Spec

(* An application that has been initialized is answered for, also when a test    *)
(* never ends or two threads have worn out its iterator: the timeout.  Only a     *)
(* case that was answered twice can prevent it, when its second thread adds to     *)
(* testErrors while they are reported (396-397), the timer being cancelled.        *)
BuildAnswered ==
    (phase = "building") ~> (future # "open" \/ (report = "thrown" /\ again > 0))
=============================================================================
