------------------------ MODULE ApplicationBuildProofs ------------------------
(***************************************************************************)
(* A build is answered once, and a build that fails has given no trigger     *)
(* its flow, unless a consumer throws: ApplicationBuild implements           *)
(* BuildContract.  And every case of every test has passed before a trigger   *)
(* is given its flow, although threads of one test may share its iterator.    *)
(***************************************************************************)
EXTENDS ApplicationBuild, FiniteSetTheorems, TLAPS

Early == phase \in {"checking", "initializing", "building"}

\* no test was begun: nobody can decide their future
Quiet ==
    /\ timer = "none" /\ ~finishing /\ report = "none"
    /\ BagToSet(cases) = {}
    /\ \A t \in Tests : \A p \in Places : threads[t][p] = 0

PhaseInv ==
    /\ Early \/ phase \in {"testing", "giving", "answered"}
    /\ future \in {"open", "ok", "failed"}
    /\ future = "open" <=> phase # "answered"
    /\ Early \/ phase = "testing" => tested = "open"
    /\ phase = "giving" => tested # "open"
    /\ tested \in {"open", "ok", "failed"}

GivenInv ==
    /\ given \in 0 .. setting.triggers
    /\ given # 0 => phase \in {"giving", "answered"} /\ tested = "ok"

\* PhaseInv alone would let a timer decide the tests of a build that has not come to
\* them, or has been answered without them
IInv == /\ setting.triggers \in Nat
        /\ PhaseInv
        /\ GivenInv
        /\ Early \/ (phase = "answered" /\ tested = "open") => Quiet

LEMMA InitIInv == Init => IInv
<1> SUFFICES ASSUME Init PROVE IInv
  OBVIOUS
<1>1. setting.triggers \in Nat
  BY BuildAssumption DEF Init
<1>2. PhaseInv /\ GivenInv
  BY <1>1 DEF Init, PhaseInv, GivenInv, Early
<1>3. BagToSet(cases) = {}
  BY DEF Init, EmptyBag, SetToBag, BagToSet
<1>4. Quiet
  BY <1>3 DEF Init, Quiet
<1> QED  BY <1>1, <1>2, <1>4 DEF IInv

\* a test that does a step was begun
LEMMA RunnersKeep ==
  ASSUME IInv, NEW t \in Tests, Runner(t)
  PROVE  IInv' /\ UNCHANGED <<setting, phase, future, given>>
<1>1. UNCHANGED <<setting, phase, future, given, tested>>
  BY DEF Runner, HasNext, RunsNext, AddsErrors, Decrements
<1>2. PICK p \in Places : threads[t][p] > 0
  BY DEF Runner, HasNext, RunsNext, AddsErrors, Decrements, Move, Places
<1>3. ~ Quiet
  BY <1>2 DEF Quiet
<1> QED  BY <1>1, <1>3 DEF IInv, PhaseInv, GivenInv, Early

LEMMA AnswersKeep ==
  ASSUME IInv, NEW c \in BagToSet(cases), Passes(c) \/ Fails(c)
  PROVE  IInv' /\ UNCHANGED <<setting, phase, future, given>>
<1>1. UNCHANGED <<setting, phase, future, given, tested>>
  BY DEF Passes, Fails
<1>2. ~ Quiet
  BY DEF Quiet
<1> QED  BY <1>1, <1>2 DEF IInv, PhaseInv, GivenInv, Early

\* testsFinished and the timeout, whichever is first
LEMMA DecideKeeps ==
  ASSUME IInv, ~ Quiet, NEW verdict \in {"ok", "failed"}, Decide(verdict),
         UNCHANGED <<setting, future, given>>
  PROVE  IInv'
<1>1. CASE tested = "open"
  <2>1. phase = "testing"
    BY <1>1 DEF IInv, PhaseInv, Early
  <2>2. tested' = verdict /\ phase' = "giving"
    BY <1>1 DEF Decide
  <2> QED  BY <1>1, <2>1, <2>2 DEF IInv, PhaseInv, GivenInv, Early
<1>2. CASE tested # "open"
  <2>1. UNCHANGED <<tested, phase>>
    BY <1>2 DEF Decide
  <2> QED  BY <1>2, <2>1 DEF IInv, PhaseInv, GivenInv, Early
<1> QED  BY <1>1, <1>2

-----------------------------------------------------------------------------
(* Each step of a build is a step of the contract, or nothing it speaks of.  *)

Kept == UNCHANGED <<future, given, setting.triggers, May("consumer")>>

LEMMA Step ==
  ASSUME IInv, [Next]_vars
  PROVE  IInv' /\ (Contract!Next \/ Kept)
<1> USE DEF Kept, May
<1>1. CASE Checks
  BY <1>1 DEF Checks, Answer, IInv, PhaseInv, GivenInv, Early, Quiet, tests, runs, Contract!Next,
              Contract!Fail, Tests
<1>2. CASE Initialized
  BY <1>2 DEF Initialized, Answer, IInv, PhaseInv, GivenInv, Early, Quiet, tests, runs,
              Contract!Next, Contract!Fail, Tests
<1>3. CASE Builds
  BY <1>3 DEF Builds, Answer, IInv, PhaseInv, GivenInv, Early, Quiet, tests, runs, Contract!Next,
              Contract!Fail, Tests
<1>4. CASE Finishes
  <2>1. ~ Quiet /\ UNCHANGED <<setting, future, given>>
    BY <1>4 DEF Finishes, Quiet
  <2>2. CASE failed = {}
    <3>1. Decide("ok")
      BY <1>4, <2>2 DEF Finishes
    <3> QED  BY <2>1, <3>1, DecideKeeps
  <2>3. CASE failed # {}
    <3>1. UNCHANGED <<tested, phase>>
      BY <1>4, <2>3 DEF Finishes
    <3> QED  BY <2>1, <3>1 DEF IInv, PhaseInv, GivenInv, Early
  <2> QED  BY <2>2, <2>3
<1>13. CASE Reports
  <2>1. ~ Quiet /\ UNCHANGED <<setting, future, given>>
    BY <1>13 DEF Reports, Quiet
  <2>2. CASE Decide("failed")
    BY <2>1, <2>2, DecideKeeps
  <2>3. CASE UNCHANGED <<tested, phase>>
    BY <2>1, <2>3 DEF IInv, PhaseInv, GivenInv, Early
  <2> QED  BY <1>13, <2>2, <2>3 DEF Reports
<1>5. CASE TestsFailed
  BY <1>5 DEF TestsFailed, Answer, IInv, PhaseInv, GivenInv, Early, Contract!Next, Contract!Fail
<1>6. CASE GivesFlows
  BY <1>6 DEF GivesFlows, Answer, IInv, PhaseInv, GivenInv, Early, Contract!Next, Contract!Fail,
              Contract!Give
<1>7. CASE Completes
  BY <1>7 DEF Completes, Answer, IInv, PhaseInv, GivenInv, Early, Contract!Next, Contract!Fail,
              Contract!Succeed
<1>8. CASE TimerFires
  BY <1>8 DEF TimerFires, tests, IInv, PhaseInv, GivenInv, Early, Quiet
<1>9. CASE TimesOut
  <2>1. ~ Quiet /\ UNCHANGED <<setting, future, given>>
    BY <1>9 DEF TimesOut, Quiet
  <2>2. Decide("failed")
    BY <1>9 DEF TimesOut
  <2> QED  BY <2>1, <2>2, DecideKeeps
<1>10. CASE \E t \in Tests : Runner(t)
  BY <1>10, RunnersKeep
<1>11. CASE \E c \in BagToSet(cases) : Passes(c) \/ Fails(c)
  BY <1>11, AnswersKeep
<1>12. CASE UNCHANGED vars
  BY <1>12 DEF vars, tests, runs, IInv, PhaseInv, GivenInv, Early, Quiet, Tests
<1> QED
  BY <1>1, <1>2, <1>3, <1>4, <1>5, <1>6, <1>7, <1>8, <1>9, <1>10, <1>11, <1>12,
     <1>13
     DEF Next, Builder, Timer

(* The build of an application implements what the manager counts on: it is    *)
(* answered once, and gives flows to triggers only before that, all of them     *)
(* when it succeeds and none when it fails unless a consumer throws.            *)
THEOREM BuildImplementsContract == Spec => FulfilsBuildContract
<1>1. Init => Contract!Init
  BY BuildAssumption DEF Init, Contract!Init, May
<1>2. IInv /\ [Next]_vars => IInv' /\ [Contract!Next]_(Contract!vars)
  BY Step DEF Kept, Contract!vars
<1> QED
  BY InitIInv, <1>1, <1>2, PTL DEF Spec, FulfilsBuildContract, Contract!Spec

-----------------------------------------------------------------------------
(* The tests.  A test without errors is one thread, which is at a place of    *)
(* the runner or waits for a case: no more threads than tests can come to      *)
(* the end unless there are errors, and these were added before.               *)

Alone(t, p) == threads[t] = [x \in Places |-> IF x = p THEN 1 ELSE 0]
Idle(t) == threads[t] = [x \in Places |-> 0]

RunsOf(t) == {c \in BagToSet(cases) : c.test = t}

\* of test t, the cases up to the k-th have passed, and no others
PassedUpTo(t, k) == \A i \in Cases(t) : <<t, i>> \in passed <=> i <= k

Done(t) == Idle(t) /\ RunsOf(t) = {} /\ PassedUpTo(t, setting.cases[t])

AtPlace(t) ==
    \E p \in Places :
        /\ Alone(t, p) /\ RunsOf(t) = {} /\ PassedUpTo(t, cursor[t])
        /\ p = "next" => cursor[t] < setting.cases[t]
        /\ p \in {"addAll", "decrement"} => cursor[t] = setting.cases[t]

Waits(t) ==
    LET c == CaseRun(t, cursor[t], FALSE)
    IN  /\ Idle(t) /\ RunsOf(t) = {c} /\ cases[c] = 1
        /\ cursor[t] \in Cases(t) /\ PassedUpTo(t, cursor[t] - 1)

Unfinished == {t \in Tests : t \in errors \/ ~ Done(t)}
AllDone == errors = {} /\ \A t \in Tests : Done(t)

RunsTypeOK ==
    /\ setting \in Settings
    /\ threads \in [Tests -> [Places -> Nat]]
    /\ DOMAIN cursor = Tests /\ \A t \in Tests : cursor[t] \in 0 .. setting.cases[t]
    /\ IsABag(cases)
    /\ \A c \in BagToSet(cases) : \E t \in Tests : \E i \in Cases(t) : \E b \in BOOLEAN :
           c = CaseRun(t, i, b)
    /\ passed \subseteq AllCases
    /\ errors \subseteq Tests /\ failed \subseteq errors
    /\ remaining \in Int

NotBegun == Early \/ (phase = "answered" /\ tested = "open")

AtRest == /\ \A t \in Tests : Idle(t) /\ cursor[t] = 0
          /\ passed = {} /\ errors = {} /\ failed = {} /\ remaining = 0

TestsInv ==
    /\ \A t \in Tests \ errors : Done(t) \/ AtPlace(t) \/ Waits(t)
    /\ \A t \in errors : threads[t]["decrement"] > 0 => t \in failed
    /\ failed = {} => remaining = Cardinality(Unfinished)
    /\ finishing /\ failed = {} => AllDone
    /\ tested = "ok" => AllDone

TInv == /\ IInv
        /\ RunsTypeOK
        /\ IF NotBegun THEN AtRest ELSE TestsInv
        /\ future = "ok" => tested = "ok"

-----------------------------------------------------------------------------
LEMMA PlusOne ==
  ASSUME NEW B, IsABag(B), NEW c
  PROVE  /\ IsABag(B (+) One(c))
         /\ DOMAIN (B (+) One(c)) = DOMAIN B \cup {c}
         /\ \A x \in DOMAIN B \ {c} : (B (+) One(c))[x] = B[x]
         /\ c \notin DOMAIN B => (B (+) One(c))[c] = 1
BY DEF IsABag, One, SetToBag, (+)

LEMMA MinusOne ==
  ASSUME NEW B, IsABag(B), NEW c
  PROVE  /\ IsABag(B (-) One(c))
         /\ DOMAIN (B (-) One(c)) \subseteq DOMAIN B
         /\ DOMAIN B \ {c} \subseteq DOMAIN (B (-) One(c))
         /\ \A x \in DOMAIN B \ {c} : (B (-) One(c))[x] = B[x]
         /\ c \in DOMAIN B /\ B[c] = 1 => c \notin DOMAIN (B (-) One(c))
BY DEF IsABag, One, SetToBag, (-)

LEMMA TestsFinite ==
  ASSUME setting \in Settings
  PROVE  /\ IsFiniteSet(Tests) /\ IsFiniteSet(Unfinished)
         /\ \A t \in Tests : setting.cases[t] \in Nat
<1>1. setting.cases \in Seq(Nat)
  BY BuildAssumption
<1>2. Tests = 1 .. Len(setting.cases)
  BY <1>1 DEF Tests
<1>3. IsFiniteSet(Tests)
  BY <1>1, <1>2, FS_Interval
<1>4. IsFiniteSet(Unfinished)
  BY <1>3, FS_Subset DEF Unfinished
<1> QED  BY <1>1, <1>2, <1>3, <1>4

\* a step of another test
LEMMA Frame ==
  ASSUME NEW u \in Tests, UNCHANGED setting,
         threads'[u] = threads[u], cursor'[u] = cursor[u],
         RunsOf(u)' = RunsOf(u), \A c \in RunsOf(u) : cases'[c] = cases[c],
         \A i : <<u, i>> \in passed' <=> <<u, i>> \in passed
  PROVE  /\ Done(u)' <=> Done(u)
         /\ AtPlace(u) => AtPlace(u)'
         /\ Waits(u) => Waits(u)'
<1>1. \A k1, k2 : k1 = k2 => (PassedUpTo(u, k1)' <=> PassedUpTo(u, k2))
  BY DEF PassedUpTo, Cases
<1>2. Idle(u)' <=> Idle(u)
  BY DEF Idle
<1>3. \A p \in Places : Alone(u, p)' <=> Alone(u, p)
  BY DEF Alone
<1>4. Done(u)' <=> Done(u)
  BY <1>1, <1>2 DEF Done
<1>5. AtPlace(u) => AtPlace(u)'
  BY <1>1, <1>3 DEF AtPlace
<1>6. Waits(u) => Waits(u)'
  <2>1. CaseRun(u, cursor[u], FALSE)' = CaseRun(u, cursor[u], FALSE)
    OBVIOUS
  <2> QED  BY <2>1, <1>1, <1>2 DEF Waits, Cases
<1> QED  BY <1>4, <1>5, <1>6

\* what there is to show of a step of test t
Others(t) ==
    /\ UNCHANGED <<setting, tested>>
    /\ \A u \in Tests \ {t} : /\ Done(u)' <=> Done(u)
                              /\ AtPlace(u) => AtPlace(u)'
                              /\ Waits(u) => Waits(u)'
                              /\ threads'[u] = threads[u]

Itself(t) ==
    /\ ~ Done(t) \/ t \in errors
    /\ t \notin errors' => Done(t)' \/ AtPlace(t)' \/ Waits(t)'
    /\ errors \subseteq errors' /\ errors' \subseteq errors \cup {t}
    /\ failed \subseteq failed' /\ failed' \subseteq failed \cup {t}
    /\ t \in errors' /\ threads'[t]["decrement"] > 0 => t \in failed'

Counted(t) ==
    /\ failed' = {} => remaining' = IF t \notin errors' /\ Done(t)' THEN remaining - 1
                                                                  ELSE remaining
    /\ finishing' => finishing \/ remaining' = 0

TestStep(t) == Others(t) /\ Itself(t) /\ Counted(t)

LEMMA TestSteps ==
  ASSUME TInv, ~ NotBegun, NEW t \in Tests, TestStep(t)
  PROVE  TestsInv'
<1> USE DEF TInv, TestStep, Others, Itself, Counted
<1>0. Tests' = Tests /\ TestsInv /\ RunsTypeOK
  BY DEF Tests
<1>1. ~ AllDone
  BY DEF AllDone
<1>2. t \in Unfinished
  BY DEF Unfinished
<1>3. Unfinished' = IF t \notin errors' /\ Done(t)' THEN Unfinished \ {t} ELSE Unfinished
  <2>1. \A u \in Tests \ {t} : u \in Unfinished' <=> u \in Unfinished
    BY <1>0 DEF Unfinished
  <2>2. t \in Unfinished' <=> ~ (t \notin errors' /\ Done(t)')
    BY <1>0 DEF Unfinished
  <2>3. Unfinished \subseteq Tests /\ Unfinished' \subseteq Tests
    BY <1>0 DEF Unfinished
  <2> QED  BY <1>2, <2>1, <2>2, <2>3
<1>4. IsFiniteSet(Unfinished) /\ Cardinality(Unfinished) \in Nat
  BY <1>0, TestsFinite, FS_CardinalityType DEF RunsTypeOK
<1>5. Cardinality(Unfinished \ {t}) = Cardinality(Unfinished) - 1 /\ IsFiniteSet(Unfinished \ {t})
  BY <1>2, <1>4, FS_RemoveElement
<1>6. failed' = {} => remaining' = Cardinality(Unfinished')
  <2>1. failed' = {} => remaining = Cardinality(Unfinished)
    BY <1>0 DEF TestsInv
  <2> QED  BY <2>1, <1>3, <1>5
<1>7. finishing' /\ failed' = {} => AllDone'
  <2>1. SUFFICES ASSUME finishing', failed' = {} PROVE AllDone'
    OBVIOUS
  <2>2. ~ finishing
    BY <2>1, <1>0, <1>1 DEF TestsInv
  <2>3. Cardinality(Unfinished') = 0
    BY <2>1, <2>2, <1>6
  <2>4. Unfinished' = {}
    BY <2>3, <1>3, <1>4, <1>5, FS_EmptySet
  <2>5. errors' \subseteq Tests
    BY <1>0 DEF RunsTypeOK
  <2> QED  BY <2>4, <2>5, <1>0 DEF Unfinished, AllDone
<1>8. tested' # "ok"
  BY <1>0, <1>1 DEF TestsInv
<1>9. \A u \in Tests' \ errors' : Done(u)' \/ AtPlace(u)' \/ Waits(u)'
  BY <1>0 DEF TestsInv
<1>10. \A u \in errors' : threads'[u]["decrement"] > 0 => u \in failed'
  <2>1. \A u \in errors \ {t} : threads'[u] = threads[u]
    BY <1>0 DEF RunsTypeOK
  <2> QED  BY <2>1, <1>0 DEF TestsInv
<1> QED  BY <1>6, <1>7, <1>8, <1>9, <1>10 DEF TestsInv

-----------------------------------------------------------------------------
LEMMA Moved ==
  ASSUME NEW t \in Tests, NEW from \in Places, NEW to, Move(t, from, to), from # to,
         threads \in [Tests -> [Places -> Nat]], UNCHANGED setting
  PROVE  /\ threads' \in [Tests' -> [Places -> Nat]]
         /\ \A u \in Tests \ {t} : threads'[u] = threads[u]
         /\ \A p \in Places \ {to} : threads'[t][p] > 0 => threads[t][p] > 0
         /\ ~ Idle(t)
         /\ \A p \in Places : Alone(t, p) => p = from
         /\ to \in Places /\ Alone(t, from) => Alone(t, to)'
         /\ to \notin Places /\ Alone(t, from) => Idle(t)'
<1>1. Tests' = Tests
  BY DEF Tests
<1>2. threads[t] \in [Places -> Nat] /\ threads[t][from] > 0
  BY DEF Move
<1>3. threads'[t] = [p \in Places |-> threads[t][p] - (IF p = from THEN 1 ELSE 0)
                                                    + (IF p = to THEN 1 ELSE 0)]
  BY DEF Move
<1>4. \A u \in Tests \ {t} : threads'[u] = threads[u]
  BY DEF Move
<1>5. threads'[t] \in [Places -> Nat]
  BY <1>2, <1>3
<1>6. DOMAIN threads' = Tests /\ threads' = [u \in Tests |-> threads'[u]]
  BY DEF Move
<1>7. threads' \in [Tests' -> [Places -> Nat]]
  BY <1>1, <1>4, <1>5, <1>6
<1>8. ~ Idle(t)
  BY <1>2 DEF Idle
<1>9. \A p \in Places : Alone(t, p) => p = from
  BY <1>2 DEF Alone
<1>10. ASSUME to \in Places, Alone(t, from) PROVE Alone(t, to)'
  BY <1>3, <1>10 DEF Alone
<1>11. ASSUME to \notin Places, Alone(t, from) PROVE Idle(t)'
  BY <1>3, <1>11 DEF Alone, Idle
<1>12. \A p \in Places \ {to} : threads'[t][p] > 0 => threads[t][p] > 0
  BY <1>2, <1>3
<1> QED  BY <1>4, <1>7, <1>8, <1>9, <1>10, <1>11, <1>12

\* a test that does a step was begun; one without errors is at the place it leaves
LEMMA Leaves ==
  ASSUME TInv, NEW t \in Tests, NEW from \in Places, NEW to, Move(t, from, to), from # to,
         UNCHANGED setting
  PROVE  /\ ~ NotBegun
         /\ ~ Done(t)
         /\ t \notin errors => /\ Alone(t, from) /\ RunsOf(t) = {} /\ PassedUpTo(t, cursor[t])
                               /\ from = "next" => cursor[t] < setting.cases[t]
                               /\ from \in {"addAll", "decrement"} => cursor[t] = setting.cases[t]
<1> USE DEF TInv
<1>1. RunsTypeOK /\ threads \in [Tests -> [Places -> Nat]]
  BY DEF RunsTypeOK
<1>2. ~ Idle(t) /\ \A p \in Places : Alone(t, p) => p = from
  BY <1>1, Moved
<1>3. ~ NotBegun
  BY <1>2 DEF AtRest
<1>4. ~ Done(t) /\ ~ Waits(t)
  BY <1>2 DEF Done, Waits
<1>5. ASSUME t \notin errors PROVE AtPlace(t)
  BY <1>3, <1>4, <1>5 DEF TestsInv
<1>6. ASSUME AtPlace(t)
      PROVE  /\ Alone(t, from) /\ RunsOf(t) = {} /\ PassedUpTo(t, cursor[t])
             /\ from = "next" => cursor[t] < setting.cases[t]
             /\ from \in {"addAll", "decrement"} => cursor[t] = setting.cases[t]
  BY <1>2, <1>6 DEF AtPlace
<1> QED  BY <1>3, <1>4, <1>5, <1>6

\* nothing but the threads of t changes
LEMMA OthersStay ==
  ASSUME RunsTypeOK, NEW t \in Tests, UNCHANGED <<setting, cursor, cases, passed>>,
         \A u \in Tests \ {t} : threads'[u] = threads[u]
  PROVE  \A u \in Tests \ {t} :
             /\ Done(u)' <=> Done(u)
             /\ AtPlace(u) => AtPlace(u)'
             /\ Waits(u) => Waits(u)'
             /\ threads'[u] = threads[u]
<1> TAKE u \in Tests \ {t}
<1>1. RunsOf(u)' = RunsOf(u)
  BY DEF RunsOf, BagToSet
<1>2. threads'[u] = threads[u]
  OBVIOUS
<1> QED  BY <1>1, <1>2, Frame

LEMMA HasNextKeeps ==
  ASSUME TInv, NEW t \in Tests, HasNext(t)
  PROVE  TestsInv' /\ RunsTypeOK'
<1>0. RunsTypeOK /\ (~ NotBegun => TestsInv)
  BY DEF TInv
<1>1. PICK to \in {"next", "addAll"} : /\ Move(t, "hasNext", to)
                                       /\ to = "next" <=> cursor[t] < setting.cases[t]
  BY DEF HasNext
<1>2. UNCHANGED <<setting, tested, cursor, cases, passed, errors, failed, remaining, finishing>>
  BY DEF HasNext, runs
<1>3. "hasNext" \in Places /\ to \in Places /\ to # "hasNext"
  BY DEF Places
<1>4. RunsTypeOK /\ cursor[t] \in Nat /\ setting.cases[t] \in Nat /\ cursor[t] <= setting.cases[t]
  BY <1>0, TestsFinite DEF RunsTypeOK
<1>5. /\ threads' \in [Tests' -> [Places -> Nat]]
      /\ \A u \in Tests \ {t} : threads'[u] = threads[u]
      /\ \A p \in Places \ {to} : threads'[t][p] > 0 => threads[t][p] > 0
      /\ Alone(t, "hasNext") => Alone(t, to)'
  <2>1. threads \in [Tests -> [Places -> Nat]]
    BY <1>4 DEF RunsTypeOK
  <2>2. UNCHANGED setting
    BY <1>2
  <2> QED  BY <1>1, <1>3, <2>1, <2>2, Moved
<1>6. RunsTypeOK'
  BY <1>2, <1>4, <1>5 DEF RunsTypeOK, Tests, Cases, AllCases, BagToSet
<1>7. /\ ~ NotBegun /\ ~ Done(t)
      /\ t \notin errors => /\ Alone(t, "hasNext") /\ RunsOf(t) = {} /\ PassedUpTo(t, cursor[t])
  BY <1>1, <1>2, <1>3, Leaves
<1>8. t \notin errors' => AtPlace(t)' /\ ~ Done(t)'
  <2> SUFFICES ASSUME t \notin errors PROVE AtPlace(t)' /\ ~ Done(t)'
    BY <1>2
  <2>1. Alone(t, to)' /\ RunsOf(t)' = {} /\ PassedUpTo(t, cursor[t])'
    BY <1>2, <1>5, <1>7 DEF RunsOf, PassedUpTo, Cases
  <2>2. AtPlace(t)'
    BY <2>1, <1>1, <1>2, <1>3, <1>4 DEF AtPlace
  <2>3. ~ Idle(t)'
    BY <2>1, <1>3 DEF Idle, Alone
  <2> QED  BY <2>2, <2>3 DEF Done
<1>9. TestsInv'
  <2>1. t \in errors' /\ threads'[t]["decrement"] > 0 => t \in failed'
    BY <1>0, <1>2, <1>5, <1>7 DEF TestsInv, Places
  <2>2. Others(t)
    BY <1>2, <1>4, <1>5, OthersStay DEF Others
  <2>3. Itself(t)
    BY <1>2, <1>7, <1>8, <2>1 DEF Itself
  <2>4. Counted(t)
    BY <1>2, <1>8 DEF Counted
  <2> QED  BY <1>7, <2>2, <2>3, <2>4, TestSteps DEF TestStep
<1> QED  BY <1>6, <1>9

LEMMA AddsErrorsKeeps ==
  ASSUME TInv, NEW t \in Tests, AddsErrors(t)
  PROVE  TestsInv' /\ RunsTypeOK'
<1>0. RunsTypeOK /\ (~ NotBegun => TestsInv)
  BY DEF TInv
<1>1. Move(t, "addAll", "decrement")
  BY DEF AddsErrors
<1>2. /\ UNCHANGED <<setting, tested, cursor, cases, passed, errors, remaining, finishing>>
      /\ failed' = IF t \in errors THEN failed \cup {t} ELSE failed
  BY DEF AddsErrors, runs
<1>3. "addAll" \in Places /\ "decrement" \in Places
  BY DEF Places
<1>4. RunsTypeOK /\ threads \in [Tests -> [Places -> Nat]]
  BY <1>0 DEF RunsTypeOK
<1>5. /\ threads' \in [Tests' -> [Places -> Nat]]
      /\ \A u \in Tests \ {t} : threads'[u] = threads[u]
      /\ Alone(t, "addAll") => Alone(t, "decrement")'
  <2>1. UNCHANGED setting
    BY <1>2
  <2> QED  BY <1>1, <1>3, <1>4, <2>1, Moved
<1>6. RunsTypeOK'
  BY <1>2, <1>4, <1>5 DEF RunsTypeOK, Tests, Cases, AllCases, BagToSet
<1>7. /\ ~ NotBegun /\ ~ Done(t)
      /\ t \notin errors => /\ Alone(t, "addAll") /\ RunsOf(t) = {} /\ PassedUpTo(t, cursor[t])
                            /\ cursor[t] = setting.cases[t]
  BY <1>1, <1>2, <1>3, Leaves
<1>8. t \notin errors' => AtPlace(t)' /\ ~ Done(t)'
  <2> SUFFICES ASSUME t \notin errors PROVE AtPlace(t)' /\ ~ Done(t)'
    BY <1>2
  <2>1. /\ Alone(t, "decrement")' /\ RunsOf(t)' = {} /\ PassedUpTo(t, cursor[t])'
        /\ cursor'[t] = setting'.cases[t]
    BY <1>2, <1>5, <1>7 DEF RunsOf, PassedUpTo, Cases
  <2>2. AtPlace(t)'
    BY <2>1, <1>2, <1>3 DEF AtPlace
  <2>3. ~ Idle(t)'
    BY <2>1, <1>3 DEF Idle, Alone
  <2> QED  BY <2>2, <2>3 DEF Done
<1>9. TestsInv'
  <2>1. Others(t)
    BY <1>2, <1>4, <1>5, OthersStay DEF Others
  <2>2. Itself(t)
    BY <1>2, <1>7, <1>8 DEF Itself
  <2>3. Counted(t)
    BY <1>2, <1>8 DEF Counted
  <2> QED  BY <1>7, <2>1, <2>2, <2>3, TestSteps DEF TestStep
<1> QED  BY <1>6, <1>9

LEMMA DecrementsKeeps ==
  ASSUME TInv, NEW t \in Tests, Decrements(t)
  PROVE  TestsInv' /\ RunsTypeOK'
<1>0. RunsTypeOK /\ (~ NotBegun => TestsInv)
  BY DEF TInv
<1>1. Move(t, "decrement", "")
  BY DEF Decrements
<1>2. /\ UNCHANGED <<setting, tested, cursor, cases, passed, errors, failed>>
      /\ remaining' = remaining - 1
      /\ finishing' => finishing \/ remaining' = 0
  BY DEF Decrements, runs
<1>3. "decrement" \in Places /\ "" \notin Places
  BY DEF Places
<1>4. RunsTypeOK /\ threads \in [Tests -> [Places -> Nat]] /\ remaining \in Int
  BY <1>0 DEF RunsTypeOK
<1>5. /\ threads' \in [Tests' -> [Places -> Nat]]
      /\ \A u \in Tests \ {t} : threads'[u] = threads[u]
      /\ Alone(t, "decrement") => Idle(t)'
      /\ threads'[t]["decrement"] > 0 => threads[t]["decrement"] > 0
  <2>1. UNCHANGED setting
    BY <1>2
  <2>2. threads' \in [Tests' -> [Places -> Nat]] /\ \A u \in Tests \ {t} : threads'[u] = threads[u]
    BY <1>1, <1>3, <1>4, <2>1, Moved
  <2>3. Alone(t, "decrement") => Idle(t)'
    BY <1>1, <1>3, <1>4, <2>1, Moved
  <2> QED  BY <1>1, <1>3, <2>2, <2>3, <1>4 DEF Move
<1>6. RunsTypeOK'
  BY <1>2, <1>4, <1>5 DEF RunsTypeOK, Tests, Cases, AllCases, BagToSet
<1>7. /\ ~ NotBegun /\ ~ Done(t)
      /\ t \notin errors => /\ Alone(t, "decrement") /\ RunsOf(t) = {}
                            /\ PassedUpTo(t, cursor[t]) /\ cursor[t] = setting.cases[t]
  BY <1>1, <1>2, <1>3, Leaves
<1>8. t \notin errors' => Done(t)'
  <2> SUFFICES ASSUME t \notin errors PROVE Done(t)'
    BY <1>2
  <2>1. Idle(t)' /\ RunsOf(t)' = {} /\ PassedUpTo(t, cursor[t])' /\ cursor'[t] = setting'.cases[t]
    BY <1>2, <1>5, <1>7 DEF RunsOf, PassedUpTo, Cases
  <2> QED  BY <2>1 DEF Done
<1>9. t \in errors => t \in failed
  <2>1. threads[t]["decrement"] > 0
    BY <1>1 DEF Move
  <2> QED  BY <2>1, <1>0, <1>7 DEF TestsInv
<1>10. TestsInv'
  <2>1. Others(t)
    BY <1>2, <1>4, <1>5, OthersStay DEF Others
  <2>2. Itself(t)
    BY <1>2, <1>7, <1>8, <1>9 DEF Itself
  <2>3. Counted(t)
    BY <1>2, <1>8, <1>9 DEF Counted
  <2> QED  BY <1>7, <2>1, <2>2, <2>3, TestSteps DEF TestStep
<1> QED  BY <1>6, <1>10

LEMMA RunsNextKeeps ==
  ASSUME TInv, NEW t \in Tests, RunsNext(t)
  PROVE  TestsInv' /\ RunsTypeOK'
<1>0. RunsTypeOK /\ (~ NotBegun => TestsInv)
  BY DEF TInv
<1>1. Move(t, "next", "")
  BY DEF RunsNext
<1>2. UNCHANGED <<setting, tested, passed, errors, failed, remaining, finishing>>
  BY DEF RunsNext
<1>3. "next" \in Places /\ "" \notin Places /\ "decrement" \in Places
  BY DEF Places
<1>4. /\ RunsTypeOK /\ threads \in [Tests -> [Places -> Nat]] /\ IsABag(cases)
      /\ DOMAIN cursor = Tests /\ cursor[t] \in Nat /\ setting.cases[t] \in Nat
      /\ cursor[t] <= setting.cases[t]
  BY <1>0, TestsFinite DEF RunsTypeOK
<1>5. /\ threads' \in [Tests' -> [Places -> Nat]]
      /\ \A u \in Tests \ {t} : threads'[u] = threads[u]
      /\ Alone(t, "next") => Idle(t)'
      /\ threads'[t]["decrement"] > 0 => threads[t]["decrement"] > 0
  <2>1. UNCHANGED setting
    BY <1>2
  <2> QED  BY <1>1, <1>3, <1>4, <2>1, Moved
<1>6. /\ ~ NotBegun /\ ~ Done(t)
      /\ t \notin errors => /\ Alone(t, "next") /\ RunsOf(t) = {} /\ PassedUpTo(t, cursor[t])
                            /\ cursor[t] < setting.cases[t]
  BY <1>1, <1>2, <1>3, Leaves
<1> DEFINE c == CaseRun(t, cursor[t] + 1, FALSE)
<1>7. CASE cursor[t] >= setting.cases[t]
  <2>1. UNCHANGED <<cases, cursor>>
    <3>1. ~ (cursor[t] < setting.cases[t])
      BY <1>4, <1>7
    <3> QED  BY <3>1 DEF RunsNext
  <2>2. RunsTypeOK'
    BY <1>2, <1>4, <1>5, <2>1 DEF RunsTypeOK, Tests, Cases, AllCases, BagToSet
  <2>3. t \in errors
    BY <1>4, <1>6, <1>7
  <2>4. Others(t)
    BY <1>2, <1>4, <1>5, <2>1, OthersStay DEF Others
  <2>5. Itself(t)
    BY <1>0, <1>2, <1>5, <1>6, <2>3 DEF Itself, TestsInv
  <2>6. Counted(t)
    BY <1>2, <2>3 DEF Counted
  <2> QED  BY <1>6, <2>2, <2>4, <2>5, <2>6, TestSteps DEF TestStep
<1>8. CASE cursor[t] < setting.cases[t]
  <2>1. cases' = cases (+) One(c)
    BY <1>8 DEF RunsNext
  <2>2. cursor' = [cursor EXCEPT ![t] = cursor[t] + 1] \/ (threads[t]["next"] > 1 /\ cursor' = cursor)
    BY <1>8 DEF RunsNext, Advanced
  <2> HIDE DEF c
  <2>3. /\ IsABag(cases') /\ DOMAIN cases' = DOMAIN cases \cup {c}
        /\ \A x \in DOMAIN cases \ {c} : cases'[x] = cases[x]
        /\ c \notin DOMAIN cases => cases'[c] = 1
    BY <1>4, <2>1, PlusOne
  <2>4. c.test = t /\ \E i \in Cases(t) : \E b \in BOOLEAN : c = CaseRun(t, i, b)
    <3>1. cursor[t] + 1 \in Cases(t)
      BY <1>4, <1>8 DEF Cases
    <3>2. c.test = t
      BY DEF c, CaseRun
    <3>3. c = CaseRun(t, cursor[t] + 1, FALSE)
      BY DEF c
    <3> QED  BY <3>1, <3>2, <3>3
  <2>5. DOMAIN cursor' = Tests /\ \A u \in Tests : cursor'[u] \in 0 .. setting.cases[u]
    BY <1>4, <1>8, <2>2 DEF RunsTypeOK
  <2>6. RunsTypeOK'
    BY <1>2, <1>4, <1>5, <2>3, <2>4, <2>5 DEF RunsTypeOK, Tests, Cases, AllCases, BagToSet
  <2>7. ASSUME NEW u \in Tests \ {t}
        PROVE  /\ Done(u)' <=> Done(u)
               /\ AtPlace(u) => AtPlace(u)'
               /\ Waits(u) => Waits(u)'
               /\ threads'[u] = threads[u]
    <3>1. RunsOf(u)' = RunsOf(u)
      BY <2>3, <2>4 DEF RunsOf, BagToSet
    <3>2. \A x \in RunsOf(u) : cases'[x] = cases[x]
      BY <2>3, <2>4 DEF RunsOf, BagToSet
    <3>3. cursor'[u] = cursor[u]
      BY <2>2, <1>4
    <3> QED  BY <3>1, <3>2, <3>3, <1>2, <1>5, Frame
  <2>8. t \notin errors' => Waits(t)' /\ ~ Done(t)'
    <3> SUFFICES ASSUME t \notin errors PROVE Waits(t)' /\ ~ Done(t)'
      BY <1>2
    <3>1. threads[t]["next"] = 1
      BY <1>3, <1>6 DEF Alone
    <3>2. cursor'[t] = cursor[t] + 1
      BY <2>2, <3>1, <1>4
    <3>3. c \notin DOMAIN cases /\ RunsOf(t)' = {c}
      BY <1>6, <2>3, <2>4 DEF RunsOf, BagToSet
    <3>4. c = CaseRun(t, cursor'[t], FALSE)
      BY <3>2 DEF c
    <3>5. PassedUpTo(t, cursor[t] - 1)'
      BY <1>2, <1>4, <1>6, <3>2 DEF PassedUpTo, Cases
    <3>6. cursor'[t] \in Cases(t)'
      BY <1>2, <1>4, <1>8, <3>2 DEF Cases
    <3>7. Waits(t)'
      BY <1>5, <1>6, <2>3, <3>3, <3>4, <3>5, <3>6 DEF Waits
    <3> QED  BY <3>3, <3>7 DEF Done
  <2>9. Others(t)
    BY <1>2, <2>7 DEF Others
  <2>10. Itself(t)
    BY <1>0, <1>2, <1>5, <1>6, <2>8 DEF Itself, TestsInv
  <2>11. Counted(t)
    BY <1>2, <2>8 DEF Counted
  <2> QED  BY <1>6, <2>6, <2>9, <2>10, <2>11, TestSteps DEF TestStep
<1> QED  BY <1>4, <1>7, <1>8

\* a test whose case answers is begun; one without errors waits for that case alone
LEMMA Answering ==
  ASSUME TInv, NEW c \in BagToSet(cases)
  PROVE  /\ c.test \in Tests /\ c.case \in Cases(c.test)
         /\ ~ NotBegun /\ ~ Done(c.test)
         /\ c.test \notin errors => /\ Waits(c.test) /\ RunsOf(c.test) = {c} /\ cases[c] = 1
                                    /\ c.case = cursor[c.test]
<1>0. RunsTypeOK /\ (~ NotBegun => TestsInv) /\ (NotBegun => Quiet)
  BY DEF TInv, IInv, NotBegun
<1>1. PICK t \in Tests : \E i \in Cases(t) : \E b \in BOOLEAN : c = CaseRun(t, i, b)
  BY <1>0 DEF RunsTypeOK
<1> PICK i \in Cases(t) : \E b \in BOOLEAN : c = CaseRun(t, i, b)
  BY <1>1
<1>2. c.test = t /\ c.case = i
  BY DEF CaseRun
<1>3. ~ NotBegun
  BY <1>0 DEF Quiet
<1>4. c \in RunsOf(t)
  BY <1>2 DEF RunsOf
<1>5. ~ Done(t) /\ ~ AtPlace(t)
  BY <1>4 DEF Done, AtPlace
<1>6. ASSUME t \notin errors
      PROVE  Waits(t) /\ RunsOf(t) = {c} /\ cases[c] = 1 /\ c.case = cursor[t]
  <2>1. Waits(t)
    BY <1>0, <1>3, <1>5, <1>6 DEF TestsInv
  <2>2. RunsOf(t) = {CaseRun(t, cursor[t], FALSE)} /\ cases[CaseRun(t, cursor[t], FALSE)] = 1
    BY <2>1 DEF Waits
  <2>3. c = CaseRun(t, cursor[t], FALSE)
    BY <1>4, <2>2
  <2>4. c.case = cursor[t]
    BY <2>3 DEF CaseRun
  <2> QED  BY <2>1, <2>2, <2>3, <2>4
<1> QED  BY <1>2, <1>3, <1>5, <1>6

LEMMA GoneOn ==
  ASSUME NEW t \in Tests, GoesOn(t), threads \in [Tests -> [Places -> Nat]], UNCHANGED setting
  PROVE  /\ threads' \in [Tests' -> [Places -> Nat]]
         /\ \A u \in Tests \ {t} : threads'[u] = threads[u]
         /\ threads'[t]["decrement"] = threads[t]["decrement"]
         /\ Idle(t) => Alone(t, "hasNext")'
<1>1. "hasNext" \in Places /\ "decrement" \in Places
  BY DEF Places
<1>2. Tests' = Tests
  BY DEF Tests
<1>3. threads' = [threads EXCEPT ![t] = [threads[t] EXCEPT !["hasNext"] = threads[t]["hasNext"] + 1]]
  BY DEF GoesOn
<1>4. threads[t] \in [Places -> Nat]
  OBVIOUS
<1>5. [threads[t] EXCEPT !["hasNext"] = threads[t]["hasNext"] + 1] \in [Places -> Nat]
  BY <1>1, <1>4
<1>6. threads' \in [Tests' -> [Places -> Nat]]
  BY <1>2, <1>3, <1>5
<1>7. threads'[t] = [threads[t] EXCEPT !["hasNext"] = threads[t]["hasNext"] + 1]
  BY <1>3
<1>8. threads'[t]["decrement"] = threads[t]["decrement"]
  BY <1>1, <1>4, <1>7
<1>9. ASSUME Idle(t) PROVE Alone(t, "hasNext")'
  <2>1. \A p \in Places : threads[t][p] = 0
    BY <1>9 DEF Idle
  <2>2. \A p \in Places : threads'[t][p] = IF p = "hasNext" THEN 1 ELSE 0
    BY <1>1, <1>4, <1>7, <2>1
  <2>3. threads'[t] \in [Places -> Nat]
    BY <1>5, <1>7
  <2> QED  BY <2>2, <2>3 DEF Alone
<1> QED  BY <1>3, <1>6, <1>8, <1>9

\* a case of another test than u
LEMMA RunsStay ==
  ASSUME NEW c, NEW u \in Tests \ {c.test},
         DOMAIN cases \ {x \in DOMAIN cases : x.test = c.test} \subseteq DOMAIN cases',
         \A x \in DOMAIN cases' : x \in DOMAIN cases \/ x.test = c.test,
         \A x \in DOMAIN cases : x.test # c.test => cases'[x] = cases[x]
  PROVE  RunsOf(u)' = RunsOf(u) /\ \A x \in RunsOf(u) : cases'[x] = cases[x]
BY DEF RunsOf, BagToSet

LEMMA PassesKeeps ==
  ASSUME TInv, NEW c \in BagToSet(cases), Passes(c)
  PROVE  TestsInv' /\ RunsTypeOK'
<1> DEFINE t == c.test
<1>0. RunsTypeOK /\ (~ NotBegun => TestsInv)
  BY DEF TInv
<1>1. /\ UNCHANGED <<setting, tested, cursor, errors, failed, remaining, finishing>>
      /\ passed' = passed \cup {<<t, c.case>>}
      /\ cases' = cases (-) One(c) /\ GoesOn(t)
  BY DEF Passes
<1>2. /\ t \in Tests /\ c.case \in Cases(t)
      /\ ~ NotBegun /\ ~ Done(t)
      /\ t \notin errors => Waits(t) /\ RunsOf(t) = {c} /\ cases[c] = 1 /\ c.case = cursor[t]
  BY Answering
<1> HIDE DEF t
<1>3. /\ threads \in [Tests -> [Places -> Nat]] /\ IsABag(cases) /\ cursor[t] \in Nat
      /\ setting.cases[t] \in Nat /\ cursor[t] <= setting.cases[t]
  BY <1>0, <1>2, TestsFinite DEF RunsTypeOK
<1>4. /\ threads' \in [Tests' -> [Places -> Nat]]
      /\ \A u \in Tests \ {t} : threads'[u] = threads[u]
      /\ threads'[t]["decrement"] = threads[t]["decrement"]
      /\ Idle(t) => Alone(t, "hasNext")'
  BY <1>1, <1>2, <1>3, GoneOn
<1>5. /\ IsABag(cases') /\ DOMAIN cases' \subseteq DOMAIN cases
      /\ DOMAIN cases \ {c} \subseteq DOMAIN cases'
      /\ \A x \in DOMAIN cases \ {c} : cases'[x] = cases[x]
      /\ c \in DOMAIN cases /\ cases[c] = 1 => c \notin DOMAIN cases'
  BY <1>1, <1>3, MinusOne
<1>6. RunsTypeOK'
  <2>1. Tests' = Tests /\ AllCases' = AllCases /\ \A u \in Tests : Cases(u)' = Cases(u)
    BY <1>1 DEF Tests, AllCases, Cases
  <2>2. <<t, c.case>> \in AllCases
    BY <1>2 DEF AllCases
  <2>3. passed' \subseteq AllCases'
    BY <1>0, <1>1, <2>1, <2>2 DEF RunsTypeOK
  <2>4. \A x \in BagToSet(cases)' : \E u \in Tests' : \E i \in Cases(u)' : \E b \in BOOLEAN :
            x = CaseRun(u, i, b)
    BY <1>0, <1>5, <2>1 DEF RunsTypeOK, BagToSet
  <2> QED  BY <1>0, <1>1, <1>4, <1>5, <2>1, <2>3, <2>4 DEF RunsTypeOK
<1>7. ASSUME NEW u \in Tests \ {t}
      PROVE  /\ Done(u)' <=> Done(u)
             /\ AtPlace(u) => AtPlace(u)'
             /\ Waits(u) => Waits(u)'
             /\ threads'[u] = threads[u]
  <2>1. RunsOf(u)' = RunsOf(u) /\ \A x \in RunsOf(u) : cases'[x] = cases[x]
    BY <1>5, RunsStay DEF t
  <2>2. \A i : <<u, i>> \in passed' <=> <<u, i>> \in passed
    BY <1>1
  <2> QED  BY <1>1, <1>4, <2>1, <2>2, Frame
<1>8. t \notin errors' => AtPlace(t)' /\ ~ Done(t)'
  <2> SUFFICES ASSUME t \notin errors PROVE AtPlace(t)' /\ ~ Done(t)'
    BY <1>1
  <2>1. Waits(t) /\ RunsOf(t) = {c} /\ cases[c] = 1 /\ c.case = cursor[t]
    BY <1>2
  <2>2. Idle(t) /\ PassedUpTo(t, cursor[t] - 1)
    BY <2>1 DEF Waits
  <2>3. Alone(t, "hasNext")'
    BY <1>4, <2>2
  <2>4. RunsOf(t)' = {}
    BY <1>5, <2>1 DEF RunsOf, BagToSet
  <2>5. PassedUpTo(t, cursor[t])'
    <3>1. ASSUME NEW i \in Cases(t)
          PROVE  <<t, i>> \in passed' <=> i <= cursor[t]
      <4>1. i \in Int /\ cursor[t] \in Int
        BY <1>3 DEF Cases
      <4>2. <<t, i>> \in passed <=> i <= cursor[t] - 1
        BY <2>2 DEF PassedUpTo
      <4>3. <<t, i>> \in passed' <=> <<t, i>> \in passed \/ i = cursor[t]
        BY <1>1, <2>1
      <4> QED  BY <4>1, <4>2, <4>3
    <3>2. Cases(t)' = Cases(t) /\ cursor'[t] = cursor[t]
      BY <1>1 DEF Cases
    <3> QED  BY <3>1, <3>2 DEF PassedUpTo
  <2>6. AtPlace(t)'
    BY <2>3, <2>4, <2>5 DEF AtPlace, Places
  <2>7. ~ Idle(t)'
    BY <2>3 DEF Idle, Alone, Places
  <2> QED  BY <2>6, <2>7 DEF Done
<1>9. TestsInv'
  <2>1. Others(t)
    BY <1>1, <1>7 DEF Others
  <2>2. Itself(t)
    BY <1>0, <1>1, <1>2, <1>4, <1>8 DEF Itself, TestsInv
  <2>3. Counted(t)
    BY <1>1, <1>8 DEF Counted
  <2> QED  BY <1>2, <2>1, <2>2, <2>3, TestSteps DEF TestStep
<1> QED  BY <1>6, <1>9

LEMMA FailsKeeps ==
  ASSUME TInv, NEW c \in BagToSet(cases), Fails(c)
  PROVE  TestsInv' /\ RunsTypeOK'
<1> DEFINE t == c.test
           left == cases (-) One(c)
           more == CaseRun(t, c.case, TRUE)
<1>0. RunsTypeOK /\ (~ NotBegun => TestsInv)
  BY DEF TInv
<1>1. /\ UNCHANGED <<setting, tested, cursor, passed, failed, remaining, finishing>>
      /\ errors' = errors \cup {t}
      /\ cases' = left \/ cases' = left (+) One(more)
      /\ GoesOn(t)
  BY DEF Fails, HasErrors
<1>2. t \in Tests /\ c.case \in Cases(t) /\ ~ NotBegun /\ ~ Done(t)
      /\ (t \notin errors => Waits(t))
  BY Answering
<1>3. more.test = t /\ \E i \in Cases(t) : \E b \in BOOLEAN : more = CaseRun(t, i, b)
  <2>1. more.test = t
    BY DEF CaseRun
  <2> QED  BY <1>2, <2>1
<1> HIDE DEF t, left, more
<1>4. threads \in [Tests -> [Places -> Nat]] /\ IsABag(cases)
  BY <1>0 DEF RunsTypeOK
<1>5. /\ threads' \in [Tests' -> [Places -> Nat]]
      /\ \A u \in Tests \ {t} : threads'[u] = threads[u]
      /\ threads'[t]["decrement"] = threads[t]["decrement"]
  BY <1>1, <1>2, <1>4, GoneOn
<1>6. /\ IsABag(left) /\ DOMAIN left \subseteq DOMAIN cases
      /\ DOMAIN cases \ {c} \subseteq DOMAIN left
      /\ \A x \in DOMAIN cases \ {c} : left[x] = cases[x]
  BY <1>4, MinusOne DEF left
<1>7. /\ IsABag(left (+) One(more)) /\ DOMAIN (left (+) One(more)) = DOMAIN left \cup {more}
      /\ \A x \in DOMAIN left \ {more} : (left (+) One(more))[x] = left[x]
  BY <1>6, PlusOne
<1>8. /\ IsABag(cases')
      /\ DOMAIN cases \ {c} \subseteq DOMAIN cases'
      /\ DOMAIN cases' \subseteq DOMAIN cases \cup {more}
      /\ \A x \in DOMAIN cases \ {c, more} : cases'[x] = cases[x]
  <2>1. CASE cases' = left
    BY <2>1, <1>6
  <2>2. CASE cases' = left (+) One(more)
    BY <2>2, <1>6, <1>7
  <2> QED  BY <1>1, <2>1, <2>2
<1>9. RunsTypeOK'
  <2>1. Tests' = Tests /\ AllCases' = AllCases /\ \A u \in Tests : Cases(u)' = Cases(u)
    BY <1>1 DEF Tests, AllCases, Cases
  <2>2. \A x \in BagToSet(cases)' : \E u \in Tests' : \E i \in Cases(u)' : \E b \in BOOLEAN :
            x = CaseRun(u, i, b)
    <3> TAKE x \in BagToSet(cases)'
    <3>1. CASE x \in DOMAIN cases
      BY <3>1, <1>0, <2>1 DEF RunsTypeOK, BagToSet
    <3>2. CASE x = more
      BY <3>2, <1>2, <1>3, <2>1
    <3> QED  BY <3>1, <3>2, <1>8 DEF BagToSet
  <2> QED  BY <1>0, <1>1, <1>2, <1>5, <1>8, <2>1, <2>2 DEF RunsTypeOK
<1>10. ASSUME NEW u \in Tests \ {t}
       PROVE  /\ Done(u)' <=> Done(u)
              /\ AtPlace(u) => AtPlace(u)'
              /\ Waits(u) => Waits(u)'
              /\ threads'[u] = threads[u]
  <2>1. RunsOf(u)' = RunsOf(u) /\ \A x \in RunsOf(u) : cases'[x] = cases[x]
    BY <1>3, <1>8, RunsStay DEF t
  <2> QED  BY <1>1, <1>5, <2>1, Frame
<1>11. threads[t]["decrement"] > 0 => t \in failed
  <2>1. Idle(t) => threads[t]["decrement"] = 0
    BY DEF Idle, Places
  <2>2. t \notin errors => Idle(t)
    BY <1>2 DEF Waits
  <2> QED  BY <1>0, <1>2, <2>1, <2>2 DEF TestsInv
<1>12. TestsInv'
  <2>1. Others(t)
    BY <1>1, <1>10 DEF Others
  <2>2. Itself(t)
    BY <1>1, <1>2, <1>5, <1>11 DEF Itself
  <2>3. Counted(t)
    BY <1>1 DEF Counted
  <2> QED  BY <1>2, <2>1, <2>2, <2>3, TestSteps DEF TestStep
<1> QED  BY <1>9, <1>12

-----------------------------------------------------------------------------
(* The build around the tests.                                              *)

LEMMA InitTInv == Init => TInv
<1> SUFFICES ASSUME Init PROVE TInv
  OBVIOUS
<1>1. IInv
  BY InitIInv
<1>2. setting \in Settings /\ IsABag(cases) /\ BagToSet(cases) = {}
  BY DEF Init, EmptyBag, SetToBag, BagToSet, IsABag
<1>3. \A t \in Tests : setting.cases[t] \in Nat
  BY <1>2, TestsFinite
<1>4. RunsTypeOK
  BY <1>2, <1>3 DEF Init, RunsTypeOK
<1>5. NotBegun /\ AtRest
  BY DEF Init, NotBegun, Early, AtRest, Idle
<1> QED  BY <1>1, <1>4, <1>5 DEF TInv, Init

\* a step that leaves the tests as they are; the flows are only given, and the build is
\* only answered ok, when the tests have been decided
LEMMA NothingTested ==
  ASSUME RunsTypeOK, UNCHANGED <<setting, threads, cursor, cases, passed, errors, failed, remaining>>
  PROVE  /\ RunsTypeOK'
         /\ AtRest' <=> AtRest
         /\ AllDone' <=> AllDone
         /\ TestsInv /\ (finishing' => finishing) /\ (tested' = "ok" => AllDone) => TestsInv'
<1>1. Tests' = Tests /\ AllCases' = AllCases /\ \A u \in Tests : Cases(u)' = Cases(u)
  BY DEF Tests, AllCases, Cases
<1>2. RunsTypeOK'
  BY <1>1 DEF RunsTypeOK, BagToSet
<1>3. \A u \in Tests : /\ Done(u)' <=> Done(u)
                       /\ AtPlace(u) => AtPlace(u)'
                       /\ Waits(u) => Waits(u)'
  <2> TAKE u \in Tests
  <2>1. RunsOf(u)' = RunsOf(u)
    BY DEF RunsOf, BagToSet
  <2> QED  BY <2>1, Frame
<1>4. AtRest' <=> AtRest
  BY <1>1 DEF AtRest, Idle
<1>5. AllDone' <=> AllDone
  BY <1>1, <1>3 DEF AllDone
<1>6. Unfinished' = Unfinished
  BY <1>1, <1>3 DEF Unfinished
<1>7. ASSUME TestsInv, finishing' => finishing, tested' = "ok" => AllDone
      PROVE  TestsInv'
  BY <1>1, <1>3, <1>5, <1>6, <1>7 DEF TestsInv
<1> QED  BY <1>2, <1>4, <1>5, <1>7

LEMMA BuildsKeeps ==
  ASSUME TInv, Builds, IInv'
  PROVE  TInv'
<1>0. RunsTypeOK /\ (NotBegun => AtRest) /\ setting \in Settings /\ future = "open"
  BY DEF TInv, IInv, PhaseInv, RunsTypeOK, Builds
<1>1. NotBegun /\ AtRest /\ tested = "open"
  BY <1>0 DEF Builds, NotBegun, Early, TInv, IInv, PhaseInv
<1>2. CASE Answer("failed") /\ UNCHANGED <<setting, tested, tests>>
  <2>1. NotBegun' /\ future' = "failed"
    BY <1>1, <1>2 DEF NotBegun, Answer
  <2> QED  BY <1>0, <1>1, <1>2, <2>1, NothingTested DEF TInv, tests, runs
<1>3. CASE Tests = {} /\ UNCHANGED <<setting, future, tests>> /\ phase' = "giving" /\ tested' = "ok"
  <2>1. RunsTypeOK' /\ ~ NotBegun' /\ future' # "ok"
    BY <1>0, <1>3, NothingTested DEF tests, runs, NotBegun, Early
  <2>2. Tests' = {} /\ errors' = {} /\ failed' = {} /\ remaining' = 0 /\ Unfinished' = {}
    BY <1>1, <1>3 DEF Tests, tests, AtRest, Unfinished
  <2>3. TestsInv'
    BY <2>2, FS_EmptySet DEF TestsInv, AllDone
  <2> QED  BY <2>1, <2>3 DEF TInv
<1>4. CASE Tests # {} /\ Builds /\ phase' = "testing"
  <2>1. /\ remaining' = Cardinality(Tests)
        /\ threads' = [t \in Tests |-> [threads[t] EXCEPT !["hasNext"] = 1]]
        /\ UNCHANGED <<setting, future, tested, cursor, cases, passed, errors, failed, finishing>>
    BY <1>4 DEF Builds, Answer, Remaining, runs
  <2>2. Tests' = Tests /\ AllCases' = AllCases /\ \A u \in Tests : Cases(u)' = Cases(u)
    BY <2>1 DEF Tests, AllCases, Cases
  <2>3. \A t \in Tests : threads[t] = [x \in Places |-> 0] /\ cursor[t] = 0
    BY <1>1 DEF AtRest, Idle
  <2>4. \A t \in Tests : threads'[t] = [x \in Places |-> IF x = "hasNext" THEN 1 ELSE 0]
    BY <2>1, <2>3 DEF Places
  <2>5. threads' \in [Tests' -> [Places -> Nat]]
    <3>1. ASSUME NEW t \in Tests PROVE threads'[t] \in [Places -> Nat]
      <4>1. threads'[t] = [x \in Places |-> IF x = "hasNext" THEN 1 ELSE 0]
        BY <2>4
      <4> QED  BY <4>1
    <3>2. threads' = [t \in Tests |-> threads'[t]]
      BY <2>1
    <3> QED  BY <2>2, <3>1, <3>2
  <2>6. Cardinality(Tests) \in Nat
    BY <1>0, TestsFinite, FS_CardinalityType
  <2>7. RunsTypeOK'
    BY <1>0, <2>1, <2>2, <2>5, <2>6 DEF RunsTypeOK, BagToSet
  <2>8. \A t \in Tests : AtPlace(t)' /\ ~ Done(t)'
    <3> TAKE t \in Tests
    <3>1. Alone(t, "hasNext")'
      BY <2>4 DEF Alone
    <3>2. RunsOf(t)' = {}
      BY <1>1, <2>1 DEF RunsOf, BagToSet, TInv, IInv, NotBegun, Quiet
    <3>3. PassedUpTo(t, cursor[t])'
      BY <1>1, <2>1, <2>2, <2>3 DEF PassedUpTo, AtRest, Cases
    <3>4. AtPlace(t)'
      BY <3>1, <3>2, <3>3 DEF AtPlace, Places
    <3>5. ~ Idle(t)'
      BY <3>1 DEF Idle, Alone, Places
    <3> QED  BY <3>4, <3>5 DEF Done
  <2>9. errors' = {} /\ failed' = {} /\ ~ finishing' /\ tested' = "open"
    BY <1>1, <2>1 DEF AtRest, TInv, IInv, NotBegun, Quiet
  <2>10. Unfinished' = Tests
    BY <2>2, <2>8 DEF Unfinished
  <2>11. TestsInv'
    BY <2>1, <2>2, <2>8, <2>9, <2>10 DEF TestsInv
  <2>12. ~ NotBegun' /\ future' # "ok"
    BY <1>0, <1>4, <2>1 DEF NotBegun, Early
  <2> QED  BY <2>7, <2>11, <2>12 DEF TInv
<1> QED
  BY <1>2, <1>3, <1>4 DEF Builds

LEMMA StepTInv ==
  ASSUME TInv, [Next]_vars
  PROVE  TInv'
<1>0. RunsTypeOK /\ IInv /\ IInv' /\ (IF NotBegun THEN AtRest ELSE TestsInv)
      /\ (future = "ok" => tested = "ok")
  BY Step DEF TInv
<1>1. ASSUME UNCHANGED <<setting, phase, future, given, tested>>, TestsInv', RunsTypeOK', ~ NotBegun
      PROVE  TInv'
  BY <1>0, <1>1 DEF TInv, NotBegun, Early
<1>2. CASE \E t \in Tests : Runner(t)
  <2> PICK t \in Tests : Runner(t)
    BY <1>2
  <2>1. UNCHANGED <<setting, phase, future, given, tested>>
    BY DEF Runner, HasNext, RunsNext, AddsErrors, Decrements
  <2>2. TestsInv' /\ RunsTypeOK'
    BY HasNextKeeps, RunsNextKeeps, AddsErrorsKeeps, DecrementsKeeps DEF Runner
  <2>3. PICK p \in Places : threads[t][p] > 0
    BY DEF Runner, HasNext, RunsNext, AddsErrors, Decrements, Move, Places
  <2>4. ~ NotBegun
    BY <1>0, <2>3 DEF IInv, NotBegun, Quiet
  <2> QED  BY <1>1, <2>1, <2>2, <2>4
<1>3. CASE \E c \in BagToSet(cases) : Passes(c) \/ Fails(c)
  <2> PICK c \in BagToSet(cases) : Passes(c) \/ Fails(c)
    BY <1>3
  <2>1. UNCHANGED <<setting, phase, future, given, tested>>
    BY DEF Passes, Fails
  <2>2. TestsInv' /\ RunsTypeOK' /\ ~ NotBegun
    BY PassesKeeps, FailsKeeps, Answering
  <2> QED  BY <1>1, <2>1, <2>2
<1>4. CASE Builds
  BY <1>0, <1>4, BuildsKeeps
<1>5. CASE Checks \/ Initialized
  <2>1. UNCHANGED <<setting, tested, tests>> /\ (future' # "ok")
        /\ NotBegun /\ NotBegun'
    BY <1>0, <1>5 DEF Checks, Initialized, Answer, NotBegun, Early, IInv, PhaseInv
  <2> QED  BY <1>0, <2>1, NothingTested DEF TInv, tests, runs
<1>6. CASE TestsFailed \/ GivesFlows \/ Completes
  <2>1. /\ UNCHANGED <<setting, tested, tests>> /\ ~ NotBegun /\ ~ NotBegun'
        /\ future' = "ok" => tested' = "ok"
    BY <1>0, <1>6 DEF TestsFailed, GivesFlows, Completes, Answer, NotBegun, Early, IInv, PhaseInv
  <2> QED  BY <1>0, <2>1, NothingTested DEF TInv, TestsInv, tests, runs
<1>7. CASE Finishes
  <2>1. /\ ~ NotBegun /\ finishing /\ ~ finishing'
        /\ UNCHANGED <<setting, future, threads, cursor, cases, passed, errors, failed, remaining>>
    BY <1>0, <1>7 DEF Finishes, runs, IInv, NotBegun, Quiet
  <2>2. ~ NotBegun' /\ (tested' = "ok" => AllDone) /\ (future = "ok" => tested' = tested)
    BY <1>0, <1>7, <2>1 DEF Finishes, Decide, NotBegun, Early, TestsInv, IInv, PhaseInv
  <2> QED  BY <1>0, <2>1, <2>2, NothingTested DEF TInv
<1>11. CASE Reports
  <2>1. ~ NotBegun /\ UNCHANGED <<setting, future, threads, cursor, cases, passed, errors, failed,
                                  remaining, finishing>>
    BY <1>0, <1>11 DEF Reports, runs, IInv, NotBegun, Quiet
  <2>2. ~ NotBegun' /\ (tested' = "ok" => AllDone) /\ (future = "ok" => tested' = tested)
    BY <1>0, <1>11, <2>1 DEF Reports, Decide, NotBegun, Early, TestsInv, IInv, PhaseInv
  <2> QED  BY <1>0, <2>1, <2>2, NothingTested DEF TInv
<1>8. CASE TimerFires
  <2>1. UNCHANGED <<setting, tested, phase, future, tests>>
    BY <1>8 DEF TimerFires
  <2> QED  BY <1>0, <2>1, NothingTested DEF TInv, TestsInv, tests, runs, NotBegun, Early
<1>9. CASE TimesOut
  <2>1. ~ NotBegun /\ UNCHANGED <<setting, future, tests>>
    BY <1>0, <1>9 DEF TimesOut, IInv, NotBegun, Quiet
  <2>2. ~ NotBegun' /\ (tested' = "ok" => AllDone) /\ (future = "ok" => tested' = tested)
    BY <1>0, <1>9, <2>1 DEF TimesOut, Decide, NotBegun, Early, TestsInv, IInv, PhaseInv
  <2> QED  BY <1>0, <2>1, <2>2, NothingTested DEF TInv, tests, runs
<1>10. CASE UNCHANGED vars
  <2>1. UNCHANGED <<setting, tested, phase, future, tests>>
    BY <1>10 DEF vars
  <2> QED  BY <1>0, <2>1, NothingTested DEF TInv, TestsInv, tests, runs, NotBegun, Early
<1> QED
  BY <1>2, <1>3, <1>4, <1>5, <1>6, <1>7, <1>8, <1>9, <1>10, <1>11 DEF Next, Builder, Timer

LEMMA TInvTested == TInv => TestedBeforeServed
<1> SUFFICES ASSUME TInv, given > 0 \/ future = "ok"
             PROVE  passed = AllCases /\ cases = EmptyBag
  BY DEF TestedBeforeServed
<1>1. tested = "ok" /\ ~ NotBegun
  BY DEF TInv, IInv, PhaseInv, GivenInv, NotBegun, Early
<1>2. AllDone /\ RunsTypeOK
  BY <1>1 DEF TInv, TestsInv
<1>3. \A t \in Tests : \A i \in Cases(t) : <<t, i>> \in passed
  <2> TAKE t \in Tests
  <2> TAKE i \in Cases(t)
  <2>1. PassedUpTo(t, setting.cases[t])
    BY <1>2 DEF AllDone, Done
  <2>2. i <= setting.cases[t]
    BY DEF Cases
  <2> QED  BY <2>1, <2>2 DEF PassedUpTo
<1>4. passed = AllCases
  BY <1>2, <1>3 DEF RunsTypeOK, AllCases
<1>5. DOMAIN cases = {}
  <2>1. \A c \in DOMAIN cases : c.test \in Tests
    BY <1>2 DEF RunsTypeOK, BagToSet, CaseRun
  <2> QED  BY <1>2, <2>1 DEF AllDone, Done, RunsOf, BagToSet
<1>6. cases = EmptyBag
  BY <1>2, <1>5 DEF RunsTypeOK, IsABag, EmptyBag, SetToBag
<1> QED  BY <1>4, <1>6

(* No trigger is given its flow, and no application is deployed, before every   *)
(* case of every test has passed and none is running any more: for any number    *)
(* of tests and cases, however often failing cases answer, and whenever the      *)
(* timeout fires.                                                               *)
THEOREM TestsComeFirst == Spec => []TestedBeforeServed
<1>1. TInv /\ [Next]_vars => TInv'
  BY StepTInv
<1> QED
  BY InitTInv, TInvTested, <1>1, PTL DEF Spec

-----------------------------------------------------------------------------
\* what no proof about the tests needs of a type
RestTypeOK == /\ timer \in {"none", "armed", "firing", "over"}
              /\ again \in 0 .. MaxAgain /\ finishing \in BOOLEAN
              /\ report \in {"none", "collecting", "torn", "thrown"}

LEMMA StepRestType ==
  ASSUME RestTypeOK, [Next]_vars
  PROVE  RestTypeOK'
<1>1. /\ timer' \in {"none", "armed", "firing", "over"} /\ finishing' \in BOOLEAN
      /\ report' \in {"none", "collecting", "torn", "thrown"}
  BY DEF RestTypeOK, Next, Builder, Timer, Runner, Checks, Initialized, Builds, Armed, Finishes, Reports,
         TestsFailed, GivesFlows, Completes, TimerFires, TimesOut, HasNext, RunsNext, AddsErrors,
         Decrements, Passes, Fails, vars, tests
<1>2. UNCHANGED again \/ (again < MaxAgain /\ again' = again + 1)
  BY DEF Next, Builder, Timer, Runner, Checks, Initialized, Builds, Finishes, Reports,
         TestsFailed, GivesFlows, Completes, TimerFires, TimesOut, HasNext, RunsNext, AddsErrors,
         Decrements, Passes, Fails, vars, tests, runs
<1>3. again' \in 0 .. MaxAgain
  BY <1>2, BuildAssumption DEF RestTypeOK
<1> QED  BY <1>1, <1>3 DEF RestTypeOK

(* Every value is of its type: the cases that may still answer are cases of the  *)
(* tests, an iterator never leaves its list, although threads of a test share    *)
(* it, and what has passed are cases.                                            *)
THEOREM BuildTyped == Spec => []BuildTypeOK
<1>1. TInv /\ [Next]_vars => TInv'
  BY StepTInv
<1>2. RestTypeOK /\ [Next]_vars => RestTypeOK'
  BY StepRestType
<1>3. Init => RestTypeOK
  <2>1. 0 \in 0 .. MaxAgain
    BY BuildAssumption
  <2> QED  BY <2>1 DEF Init, RestTypeOK
<1>4. TInv /\ RestTypeOK => BuildTypeOK
  <2> SUFFICES ASSUME TInv, RestTypeOK PROVE BuildTypeOK
    OBVIOUS
  <2>1. RunsTypeOK /\ PhaseInv /\ GivenInv
    BY DEF TInv, IInv
  <2>2. BagToSet(cases) \subseteq [test : Tests, case : Nat \ {0}, failedOnce : BOOLEAN]
    <3> SUFFICES ASSUME NEW c \in BagToSet(cases)
                 PROVE  c \in [test : Tests, case : Nat \ {0}, failedOnce : BOOLEAN]
      OBVIOUS
    <3>1. PICK t \in Tests : \E i \in Cases(t) : \E b \in BOOLEAN : c = CaseRun(t, i, b)
      BY <2>1 DEF RunsTypeOK
    <3>2. setting.cases[t] \in Nat
      BY <2>1, TestsFinite DEF RunsTypeOK
    <3>3. \A i \in Cases(t) : i \in Nat \ {0}
      BY <3>2 DEF Cases
    <3> QED  BY <3>1, <3>3 DEF CaseRun
  <2>3. phase \in {"checking", "initializing", "building", "testing", "giving", "answered"}
    BY <2>1 DEF PhaseInv, Early
  <2> QED  BY <2>1, <2>2, <2>3 DEF BuildTypeOK, RunsTypeOK, RestTypeOK, PhaseInv, GivenInv
<1> QED
  BY InitTInv, <1>1, <1>2, <1>3, <1>4, PTL DEF Spec
=============================================================================
