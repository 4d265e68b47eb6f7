------------------------ MODULE ApplicationManagerProofs ------------------------
(***************************************************************************)
(* What holds of the manager for any operations, paths, faults and          *)
(* restarts: the turn of its thread is never lost or doubled (OneTurn),     *)
(* what a deployment leaves behind is one answer (AnsweredOnce) and nothing *)
(* paused (NothingLeftPaused), since one deployment at a time has not given *)
(* the turn back, and no version number is above the number of operations   *)
(* (TypeOK).  What is deployed, runs and is answered for (Calm), and what   *)
(* a restart would deploy (Careful), follow when less may go wrong.         *)
(***************************************************************************)
EXTENDS ApplicationManager, FiniteSetTheorems, SequenceTheorems, WellFoundedInduction, TLAPS

-----------------------------------------------------------------------------
(* The turn.  OneTurn alone is not inductive: a step has to know that a       *)
(* deployment which has given its turn back has nothing left to do but the    *)
(* finally block (DoneAreFinal), or it could take a step while another task   *)
(* is running and give the turn back twice.                                   *)

IsDeployment(d) ==
    /\ d = [task |-> d.task, version |-> d.version, previous |-> d.previous,
            stage |-> d.stage, unpause |-> d.unpause, done |-> d.done]
    /\ d.done \in BOOLEAN

DoneAreFinal == \A d \in deploying : IsDeployment(d) /\ (d.done => d.stage = "final")

\* OneTurn, with the one thing the executor holds at hand
Turn == \/ executor = <<Head(executor)>> /\ Unfinished = {}
        \/ executor = <<>> /\ \E d \in deploying : Unfinished = {d}

TurnInv == Turn /\ DoneAreFinal

-----------------------------------------------------------------------------
LEMMA OneElement ==
    ASSUME NEW x, NEW t
    PROVE  /\ Tail(<<x>>) = <<>> /\ Append(<<>>, t) = <<t>> /\ Head(<<x>>) = x
           /\ Append(Tail(<<x>>), t) = <<t>> /\ Len(<<x>>) = 1 /\ <<x>> # <<>>
<1>1. <<x>> \in Seq({x, t}) /\ <<>> \in Seq({x, t})
  OBVIOUS
<1> QED
  BY <1>1

\* EndError's record; the fields are set one after the other for the provers' sake
LEMMA AtItsEnd ==
    ASSUME NEW d, IsDeployment(d)
    PROVE  LET last == [d EXCEPT !.stage = "final", !.done = TRUE]
           IN  IsDeployment(last) /\ last.done /\ last.stage = "final"
<1> DEFINE mid  == [d EXCEPT !.stage = "final"]
           last == [d EXCEPT !.stage = "final", !.done = TRUE]
<1>1. mid = [task |-> d.task, version |-> d.version, previous |-> d.previous,
             stage |-> "final", unpause |-> d.unpause, done |-> d.done]
  BY DEF IsDeployment
<1>2. ASSUME NEW m, IsDeployment(m), NEW t
      PROVE  [m EXCEPT !.done = t] =
                 [task |-> m.task, version |-> m.version, previous |-> m.previous,
                  stage |-> m.stage, unpause |-> m.unpause, done |-> t]
  BY <1>2 DEF IsDeployment
<1>3. IsDeployment(mid)
  BY <1>1 DEF IsDeployment
<1>4. last = [mid EXCEPT !.done = TRUE]
  BY Zenon
<1>5. [mid EXCEPT !.done = TRUE] =
          [task |-> mid.task, version |-> mid.version, previous |-> mid.previous,
           stage |-> mid.stage, unpause |-> mid.unpause, done |-> TRUE]
  BY <1>2, <1>3, Zenon
<1>6. mid.stage = "final"
  BY <1>1
<1> HIDE DEF mid
<1>7. last = [task |-> mid.task, version |-> mid.version, previous |-> mid.previous,
              stage |-> "final", unpause |-> mid.unpause, done |-> TRUE]
  BY <1>4, <1>5, <1>6, Zenon
<1> QED
  BY <1>7 DEF IsDeployment

\* a task of the manager thread that ends there hands the turn on
LEMMA HandsOn ==
    ASSUME TurnInv, executor # <<>>, NEW t, executor' = Append(Tail(executor), t),
           UNCHANGED deploying
    PROVE  TurnInv'
<1>1. executor = <<Head(executor)>> /\ Unfinished = {}
  BY DEF TurnInv, Turn
<1>2. executor' = <<t>>
  BY <1>1, OneElement
<1>3. Head(executor') = t
  BY <1>2, OneElement
<1> QED
  BY <1>1, <1>2, <1>3 DEF TurnInv, Turn, DoneAreFinal, Unfinished

\* a deployment that is not at its end has the turn
LEMMA HasTheTurn ==
    ASSUME TurnInv, NEW d \in deploying, ~d.done
    PROVE  executor = <<>> /\ Unfinished = {d}
<1>1. d \in Unfinished
  BY DEF Unfinished
<1> QED
  BY <1>1 DEF TurnInv, Turn

\* ... and keeps it while it goes from stage to stage
LEMMA KeepsTheTurn ==
    ASSUME TurnInv, NEW d \in deploying, d.stage # "final", NEW stage, Goes(d, stage),
           UNCHANGED executor
    PROVE  TurnInv'
<1> DEFINE next == [d EXCEPT !.stage = stage]
<1>1. ~d.done /\ IsDeployment(d)
  BY DEF TurnInv, DoneAreFinal, IsDeployment
<1>2. executor = <<>> /\ Unfinished = {d}
  BY <1>1, HasTheTurn
<1>3. next = [task |-> d.task, version |-> d.version, previous |-> d.previous,
              stage |-> stage, unpause |-> d.unpause, done |-> d.done]
  BY <1>1 DEF IsDeployment
<1>4. ~next.done /\ IsDeployment(next)
  BY <1>1, <1>3 DEF IsDeployment
<1>5. deploying' = (deploying \ {d}) \cup {next}
  BY DEF Goes
<1>6. Unfinished' = {next}
  BY <1>2, <1>4, <1>5 DEF Unfinished
<1>7. Turn'
  BY <1>2, <1>5, <1>6 DEF Turn
<1>8. DoneAreFinal'
  BY <1>4, <1>5 DEF TurnInv, DoneAreFinal
<1> QED
  BY <1>7, <1>8 DEF TurnInv

\* one that gives it back leaves none behind that has it
LEMMA GivesItBack ==
    ASSUME TurnInv, NEW d \in deploying, ~d.done, NEW t, executor' = Append(executor, t),
           NEW rest, deploying' = (deploying \ {d}) \cup rest,
           \A r \in rest : IsDeployment(r) /\ r.done /\ r.stage = "final"
    PROVE  TurnInv'
<1>1. executor = <<>> /\ Unfinished = {d}
  BY HasTheTurn
<1>2. executor' = <<t>> /\ Head(executor') = t
  BY <1>1, OneElement
<1>3. Unfinished' = {}
  BY <1>1 DEF Unfinished
<1>4. DoneAreFinal'
  BY DEF TurnInv, DoneAreFinal
<1> QED
  BY <1>2, <1>3, <1>4 DEF TurnInv, Turn

-----------------------------------------------------------------------------
LEMMA StepTurn ==
    ASSUME TurnInv, [Next]_vars
    PROVE  TurnInv'
<1> USE DEF instances, tables, requested, counted
<1>1. CASE Operation
  <2>1. UNCHANGED <<executor, deploying>>
    BY <1>1 DEF Operation, Choose, Clear, Unpack, Submit, Delete, AskUndeploy
  <2> QED
    BY <2>1 DEF TurnInv, Turn, DoneAreFinal, Unfinished
<1>2. CASE Tick
  BY <1>2 DEF Tick, TurnInv, Turn, DoneAreFinal, Unfinished
<1>3. CASE TakeNext
  BY <1>3, HandsOn DEF TakeNext, Runs
<1>4. CASE RunUpdateStatus
  BY <1>4, HandsOn DEF RunUpdateStatus, Runs, EndTask
<1>5. CASE RunUndeploy
  BY <1>5, HandsOn DEF RunUndeploy, Runs, EndTask
<1>6. CASE RunDeploy
  <2>1. executor # <<>> /\ executor' = Tail(executor)
    BY <1>6 DEF RunDeploy, Runs
  <2>2. PICK task, version, previous, stage, unpause :
           deploying' = deploying \cup {Deployment(task, version, previous, stage, unpause)}
    <3> DEFINE task == Head(executor)
               previous == applications[task.path]
               version == IF task.version > 0 THEN task.version ELSE NextVersion(task.path)
               Begins(stage, unpause) ==
                   deploying' = deploying \cup
                       {Deployment(task, version, previous, stage, unpause)}
    <3>1. Begins("building", previous # NoApp) \/ Begins("failing", FALSE)
      BY <1>6 DEF RunDeploy
    <3> QED
      BY <3>1
  <2> DEFINE new == Deployment(task, version, previous, stage, unpause)
  <2>3. executor = <<Head(executor)>> /\ Unfinished = {}
    BY <2>1 DEF TurnInv, Turn
  <2>4. executor' = <<>>
    BY <2>1, <2>3, OneElement
  <2>5. IsDeployment(new) /\ ~new.done
    BY DEF IsDeployment, Deployment
  <2>6. new \in deploying' /\ Unfinished' = {new}
    BY <2>2, <2>3, <2>5 DEF Unfinished
  <2>7. DoneAreFinal'
    BY <2>2, <2>5 DEF TurnInv, DoneAreFinal
  <2> QED
    BY <2>4, <2>6, <2>7 DEF TurnInv, Turn
<1>7. ASSUME NEW d \in deploying,
             Build(d) \/ Publish(d) \/ Report(d) \/ TellOk(d) \/ EndOk(d) \/ TellError(d)
      PROVE  TurnInv'
  <2>1. d.stage # "final" /\ UNCHANGED executor
    BY <1>7 DEF Build, Publish, Report, TellOk, EndOk, TellError
  <2>2. PICK stage : Goes(d, stage)
    BY <1>7 DEF Build, Publish, Report, TellOk, EndOk, TellError
  <2> QED
    BY <2>1, <2>2, KeepsTheTurn
<1>8. ASSUME NEW d \in deploying, EndError(d)
      PROVE  TurnInv'
  <2> DEFINE last == [d EXCEPT !.stage = "final", !.done = TRUE]
             rest == IF d.unpause THEN {last} ELSE {}
  <2>1. ~d.done /\ IsDeployment(d)
    BY <1>8 DEF EndError, TurnInv, DoneAreFinal, IsDeployment
  <2>2. IsDeployment(last) /\ last.done /\ last.stage = "final"
    BY <2>1, AtItsEnd
  <2>3. \A r \in rest : IsDeployment(r) /\ r.done /\ r.stage = "final"
    BY <2>2
  <2>4. /\ executor' = Append(executor, WaitForNextTask)
        /\ deploying' = (deploying \ {d}) \cup rest
    BY <1>8 DEF EndError
  <2> HIDE DEF rest
  <2> QED
    BY <2>1, <2>3, <2>4, GivesItBack
<1>9. ASSUME NEW d \in deploying, Finally(d)
      PROVE  TurnInv'
  <2>1. deploying' = (deploying \ {d}) \cup {}
    BY <1>9 DEF Finally
  <2>2. CASE d.done
    <3>1. executor' = executor
      BY <1>9, <2>2 DEF Finally, GiveBack
    <3>2. Unfinished' = Unfinished
      BY <2>1, <2>2 DEF Unfinished
    <3>3. \A e \in Unfinished : e \in deploying'
      BY <2>1, <2>2 DEF Unfinished
    <3> QED
      BY <2>1, <3>1, <3>2, <3>3 DEF TurnInv, Turn, DoneAreFinal
  <2>3. CASE ~d.done
    <3>1. executor' = Append(executor, WaitForNextTask)
      BY <1>9, <2>3 DEF Finally, GiveBack
    <3> DEFINE rest == {}
    <3>2. /\ deploying' = (deploying \ {d}) \cup rest
          /\ \A r \in rest : IsDeployment(r) /\ r.done /\ r.stage = "final"
      BY <2>1
    <3> HIDE DEF rest
    <3> QED
      BY <2>3, <3>1, <3>2, GivesItBack
  <2>4. d.done \in BOOLEAN
    BY DEF TurnInv, DoneAreFinal, IsDeployment
  <2> QED
    BY <2>2, <2>3, <2>4
<1>10. CASE Restart
  <2>1. executor' = <<WaitForNextTask>> /\ deploying' = {}
    BY <1>10 DEF Restart
  <2>2. Head(executor') = WaitForNextTask
    BY <2>1, OneElement
  <2> QED
    BY <2>1, <2>2 DEF TurnInv, Turn, DoneAreFinal, Unfinished
<1>11. CASE UNCHANGED vars
  BY <1>11 DEF vars, TurnInv, Turn, DoneAreFinal, Unfinished
<1> QED
  BY <1>1, <1>2, <1>3, <1>4, <1>5, <1>6, <1>7, <1>8, <1>9, <1>10, <1>11
     DEF Next, Manager, Deploys

(* The manager thread's turn is never lost and never given back twice, for    *)
(* every number of operations and every mixture of failures, redeploys and    *)
(* restarts.                                                                  *)
THEOREM TurnKept == Spec => []OneTurn
<1>1. Init => TurnInv
  <2> SUFFICES ASSUME Init PROVE TurnInv
    OBVIOUS
  <2>1. executor = <<WaitForNextTask>> /\ deploying = {}
    BY DEF Init
  <2>2. Head(executor) = WaitForNextTask
    BY <2>1, OneElement
  <2> QED
    BY <2>1, <2>2 DEF TurnInv, Turn, DoneAreFinal, Unfinished
<1>2. TurnInv /\ [Next]_vars => TurnInv'
  BY StepTurn
<1>3. TurnInv => OneTurn
  <2> SUFFICES ASSUME TurnInv PROVE OneTurn
    OBVIOUS
  <2>1. CASE executor = <<Head(executor)>> /\ Unfinished = {}
    <3>1. Len(executor) = 1
      BY <2>1, OneElement
    <3> QED
      BY <2>1, <3>1 DEF OneTurn
  <2>2. CASE executor = <<>> /\ \E d \in deploying : Unfinished = {d}
    BY <2>2 DEF OneTurn
  <2> QED
    BY <2>1, <2>2 DEF TurnInv, Turn
<1> QED
  BY <1>1, <1>2, <1>3, PTL DEF Spec

-----------------------------------------------------------------------------
(* What a deployment leaves behind.                                           *)

AtWork == {"chosen", "cleared", "unpacked", "deleted"}
PCs == AtWork \cup {"idle", "waiting", "ended"}

DeployTasks   == [what : {"deploy"}, path : Paths, version : Nat, config : Ops,
                  op : Ops \cup {Boot}]
UndeployTasks == [what : {"undeploy"}, path : Paths, version : {0}, config : {0}, op : {Boot}]
SmallTasks    == [what : {"wait", "status"}, path : {0}, version : {0}, config : {0}, op : {Boot}]
KnownTasks    == DeployTasks \cup UndeployTasks \cup SmallTasks

Deployments == [task : DeployTasks, version : Nat, previous : Apps, stage : Stages,
                unpause : BOOLEAN, done : BOOLEAN]

Directories == [Versions -> Ops \cup {Missing, Empty, Unparsed}]

\* TypeOK without the bound on version numbers, which are what TLC enumerates
ManagerType ==
    /\ setting \in Settings /\ restarts \in Nat
    /\ ops \in [Ops -> [pc : PCs, path : Paths \cup {0}, version : Nat]]
    /\ \A o \in Ops : ops[o].pc \in AtWork => ops[o].path \in Paths
    /\ answers \in [Ops -> Seq({"ok", "error"})]
    /\ disk \in [Paths -> Directories]
    /\ q \in Seq(KnownTasks) /\ executor \in Seq(KnownTasks)
    /\ deploying \subseteq Deployments
    /\ applications \in [Paths -> Apps] /\ status \in [Paths -> Apps]
    /\ versions \in [Paths -> Nat]

-----------------------------------------------------------------------------
LEMMA Numbers ==
    /\ Cardinality(Ops) \in Nat /\ Ops = 1 .. Cardinality(Ops)
    /\ Ops \subseteq Nat /\ Boot \in Nat /\ Boot \notin Ops
    /\ Missing \notin Ops /\ Empty \notin Ops /\ Unparsed \notin Ops
<1>1. Cardinality(Ops) \in Nat
  BY OpsAssumption, FS_CardinalityType
<1>2. Ops = 1 .. Cardinality(Ops)
  BY OpsAssumption
<1> QED
  BY <1>1, <1>2 DEF Boot, Missing, Empty, Unparsed

LEMMA HasLeast ==
    ASSUME NEW T \in SUBSET Nat, T # {}
    PROVE  \E x \in T : \A y \in T : x <= y
<1> DEFINE R == OpToRel(<, Nat)
<1>1. IsWellFoundedOn(R, Nat)
  BY NatLessThanWellFounded
<1>2. \A x, y \in Nat : x < y => <<x, y>> \in R
  BY DEF OpToRel
<1> HIDE DEF R
<1>3. PICK x \in T : \A y \in T : ~ (<<y, x>> \in R)
  BY <1>1, WFMin
<1>4. \A y \in T : ~ (y < x)
  BY <1>2, <1>3, Zenon
<1> QED
  BY <1>4

LEMMA HasGreatest ==
    ASSUME NEW n \in Nat, NEW S \in SUBSET (1 .. n), S # {}
    PROVE  Max(S) \in S /\ \A y \in S : Max(S) >= y
<1> DEFINE T == { n - v : v \in S }
<1>1. T \in SUBSET Nat /\ T # {}
  <2>1. \A v \in S : n - v \in Nat
    OBVIOUS
  <2> QED
    BY <2>1
<1>2. PICK x \in T : \A y \in T : x <= y
  BY <1>1, HasLeast
<1>3. PICK v \in S : x = n - v
  BY <1>2
<1>4. \A y \in S : v >= y
  <2> TAKE y \in S
  <2>1. n - y \in T
    OBVIOUS
  <2> QED
    BY <1>2, <1>3, <2>1
<1> QED
  BY <1>4, Zenon DEF Max

LEMMA NewestListed ==
    ASSUME NEW p \in Paths, Listed(p) # {}
    PROVE  Newest(p) \in Listed(p) /\ \A v \in Listed(p) : Newest(p) >= v
<1>1. Listed(p) \in SUBSET (1 .. Cardinality(Ops))
  BY DEF Listed, Versions
<1> QED
  BY <1>1, Numbers, HasGreatest DEF Newest

\* the tasks of Reka.run
BootTasks == { t \in DeployTasks : t.op = Boot }

LEMMA StartedHaveConfig ==
    ASSUME NEW started \in Started, NEW p \in started
    PROVE  p \in Paths /\ Listed(p) # {} /\ Content(p) \in Ops
BY DEF Started

LEMMA Boots ==
    ASSUME NEW started \in Started, NEW order \in SetToSeqs(started)
    PROVE  [i \in DOMAIN order |-> Task("deploy", order[i], Newest(order[i]),
                                         Content(order[i]), Boot)] \in Seq(BootTasks)
<1> DEFINE n == Cardinality(started)
           Start(p) == Task("deploy", p, Newest(p), Content(p), Boot)
<1>1. n \in Nat
  <2>1. started \in SUBSET Paths
    BY StartedHaveConfig
  <2> QED
    BY <2>1, OpsAssumption, FS_Subset, FS_CardinalityType
<1>2. order \in [1 .. n -> started]
  BY DEF SetToSeqs
<1>3. ASSUME NEW p \in started PROVE Start(p) \in BootTasks
  <2>1. p \in Paths /\ Listed(p) # {} /\ Content(p) \in Ops
    BY StartedHaveConfig
  <2>2. Newest(p) \in Listed(p)
    BY <2>1, NewestListed
  <2>3. Newest(p) \in Nat
    BY <2>2, Numbers DEF Listed, Versions
  <2> QED
    BY <2>1, <2>3 DEF BootTasks, DeployTasks, Task
<1> HIDE DEF Start, n
<1>4. [i \in 1 .. n |-> Start(order[i])] \in [1 .. n -> BootTasks]
  BY <1>2, <1>3
<1>5. [i \in 1 .. n |-> Start(order[i])] \in Seq(BootTasks)
  BY <1>1, <1>4
<1>6. DOMAIN order = 1 .. n
  BY <1>2
<1> QED
  BY <1>5, <1>6 DEF Start

-----------------------------------------------------------------------------
LEMMA InitType == Init => ManagerType
<1> SUFFICES ASSUME Init PROVE ManagerType
  OBVIOUS
<1> USE DEF Init
<1>1. setting \in Settings /\ restarts \in Nat
  OBVIOUS
<1>2. ops \in [Ops -> [pc : PCs, path : Paths \cup {0}, version : Nat]]
  BY DEF PCs, AtWork
<1>3. \A o \in Ops : ops[o].pc = "idle"
  OBVIOUS
<1>4. answers \in [Ops -> Seq({"ok", "error"})]
  <2>1. <<>> \in Seq({"ok", "error"})
    OBVIOUS
  <2> QED
    BY <2>1
<1>5. disk \in [Paths -> Directories]
  BY DEF Directories
<1>6. WaitForNextTask \in KnownTasks
  BY DEF WaitForNextTask, Task, KnownTasks, SmallTasks, Boot
<1>7. q \in Seq(KnownTasks) /\ executor \in Seq(KnownTasks)
  BY <1>6
<1>8. NoApp \in Apps
  BY DEF NoApp, App, Apps, Boot
<1>9. deploying \subseteq Deployments /\ versions \in [Paths -> Nat]
  OBVIOUS
<1> QED
  BY <1>1, <1>2, <1>3, <1>4, <1>5, <1>7, <1>8, <1>9 DEF ManagerType, AtWork

\* what the operations change
OpsType ==
    /\ ops \in [Ops -> [pc : PCs, path : Paths \cup {0}, version : Nat]]
    /\ \A o \in Ops : ops[o].pc \in AtWork => ops[o].path \in Paths

LEMMA OpsStep ==
    ASSUME ManagerType, NEW o \in Ops, NEW pc \in PCs, NEW p \in Paths, NEW v \in Nat,
           ops' = [ops EXCEPT ![o] = [pc |-> pc, path |-> p, version |-> v]]
    PROVE  OpsType'
BY DEF ManagerType, OpsType

LEMMA PcStep ==
    ASSUME ManagerType, NEW o \in Ops, NEW pc \in PCs,
           pc \in {"waiting", "ended"} \/ ops[o].path \in Paths,
           ops' = [ops EXCEPT ![o].pc = pc]
    PROVE  OpsType'
<1>1. ops[o] \in [pc : PCs, path : Paths \cup {0}, version : Nat]
  BY DEF ManagerType
<1> DEFINE next == [pc |-> pc, path |-> ops[o].path, version |-> ops[o].version]
<1>2. [ops[o] EXCEPT !.pc = pc] = next
  BY <1>1
<1>3. ops' = [ops EXCEPT ![o] = [ops[o] EXCEPT !.pc = pc]]
  BY Zenon
<1>4. ops' = [ops EXCEPT ![o] = next]
  BY <1>2, <1>3, Zenon
<1>5. ops[o].version \in Nat
  BY <1>1
<1>6. /\ next \in [pc : PCs, path : Paths \cup {0}, version : Nat]
      /\ next.pc \in AtWork => next.path \in Paths
  BY <1>1, <1>5 DEF AtWork
<1> HIDE DEF next
<1> QED
  BY <1>4, <1>6 DEF ManagerType, OpsType

LEMMA QueueStep ==
    ASSUME q \in Seq(KnownTasks), NEW t \in KnownTasks, Push(t)
    PROVE  q' \in Seq(KnownTasks)
BY DEF Push

LEMMA AnswersType ==
    ASSUME answers \in [Ops -> Seq({"ok", "error"})], NEW o \in Ops, NEW a \in {"ok", "error"},
           answers' = [answers EXCEPT ![o] = Append(@, a)]
    PROVE  answers' \in [Ops -> Seq({"ok", "error"})]
<1>1. answers[o] \in Seq({"ok", "error"})
  OBVIOUS
<1>2. Append(answers[o], a) \in Seq({"ok", "error"})
  BY <1>1
<1>3. answers' = [answers EXCEPT ![o] = Append(answers[o], a)]
  OBVIOUS
<1> QED
  BY <1>2, <1>3

LEMMA DiskStep ==
    ASSUME disk \in [Paths -> Directories], NEW p \in Paths, NEW v,
           NEW c \in Ops \cup {Missing, Empty, Unparsed},
           disk' = [disk EXCEPT ![p][v] = c]
    PROVE  disk' \in [Paths -> Directories]
BY DEF Directories

LEMMA OperationType ==
    ASSUME ManagerType, Operation
    PROVE  ManagerType'
<1> USE DEF instances, tables, requested, counted
<1> PICK o \in Ops : Choose(o) \/ Clear(o) \/ Unpack(o) \/ Submit(o) \/ Delete(o) \/ AskUndeploy(o)
  BY DEF Operation
<1>1. UNCHANGED <<setting, restarts, executor, deploying, applications, status, versions>>
  BY DEF Choose, Clear, Unpack, Submit, Delete, AskUndeploy
<1> SUFFICES /\ OpsType' /\ answers' \in [Ops -> Seq({"ok", "error"})]
             /\ disk' \in [Paths -> Directories] /\ q' \in Seq(KnownTasks)
  BY <1>1 DEF ManagerType, OpsType, Deployments, DeployTasks, KnownTasks, Apps
<1>2. CASE Choose(o)
  <2>1. PICK p \in setting.paths :
           ops' = [ops EXCEPT ![o] = [pc |-> "chosen", path |-> p, version |-> NextVersion(p)]]
    BY <1>2 DEF Choose
  <2>2. p \in Paths /\ NextVersion(p) \in Nat
    BY OpsAssumption DEF ManagerType, NextVersion
  <2>3. OpsType'
    BY <2>1, <2>2, OpsStep DEF PCs, AtWork
  <2> QED
    BY <1>2, <2>3 DEF Choose, ManagerType
<1>3. CASE Clear(o)
  <2>1. ops[o].path \in Paths
    BY <1>3 DEF Clear, ManagerType, AtWork
  <2>2. OpsType'
    BY <1>3, <2>1, PcStep DEF Clear, PCs, AtWork
  <2>3. disk' \in [Paths -> Directories]
    BY <1>3, <2>1, DiskStep DEF Clear, ManagerType
  <2> QED
    BY <1>3, <2>2, <2>3 DEF Clear, ManagerType
<1>4. CASE Unpack(o)
  <2>1. ops[o].path \in Paths
    BY <1>4 DEF Unpack, ManagerType, AtWork
  <2>2. OpsType'
    BY <1>4, <2>1, PcStep DEF Unpack, PCs, AtWork
  <2>3. PICK content \in {o} \cup {Unparsed} :
           disk' = [disk EXCEPT ![ops[o].path][ops[o].version] = content]
    BY <1>4 DEF Unpack
  <2>4. disk' \in [Paths -> Directories]
    BY <2>1, <2>3, DiskStep DEF ManagerType
  <2> QED
    BY <1>4, <2>2, <2>4 DEF Unpack, ManagerType
<1>5. CASE Submit(o)
  <2> DEFINE config == disk[ops[o].path][ops[o].version]
  <2>1. ops[o].path \in Paths
    BY <1>5 DEF Submit, ManagerType, AtWork
  <2>2. disk' \in [Paths -> Directories]
    BY <1>5 DEF Submit, ManagerType
  <2>3. CASE config \in Ops
    <3>1. /\ Push(Task("deploy", ops[o].path, 0, config, o))
          /\ ops' = [ops EXCEPT ![o].pc = "waiting"] /\ UNCHANGED answers
      BY <1>5, <2>3 DEF Submit
    <3>2. Task("deploy", ops[o].path, 0, config, o) \in KnownTasks
      BY <2>1, <2>3 DEF Task, KnownTasks, DeployTasks
    <3>3. OpsType'
      BY <2>1, <3>1, PcStep DEF PCs, AtWork
    <3> QED
      BY <2>2, <3>1, <3>2, <3>3, QueueStep DEF ManagerType
  <2>4. CASE config \notin Ops
    <3>1. ops' = [ops EXCEPT ![o].pc = "ended"] /\ UNCHANGED <<answers, q>>
      BY <1>5, <2>4 DEF Submit
    <3>2. OpsType'
      BY <2>1, <3>1, PcStep DEF PCs, AtWork
    <3> QED
      BY <1>5, <2>2, <3>1, <3>2 DEF Submit, ManagerType
  <2> QED
    BY <2>3, <2>4
<1>6. CASE Delete(o)
  <2>1. PICK p \in setting.paths :
           /\ ops' = [ops EXCEPT ![o] = [pc |-> "deleted", path |-> p, version |-> 0]]
           /\ disk' = [disk EXCEPT ![p] = [v \in Versions |-> Missing]]
    BY <1>6 DEF Delete
  <2>2. p \in Paths
    BY OpsAssumption DEF ManagerType
  <2>3. OpsType'
    BY <2>1, <2>2, OpsStep DEF PCs, AtWork
  <2>4. disk' \in [Paths -> Directories]
    BY <2>1, <2>2 DEF ManagerType, Directories
  <2> QED
    BY <1>6, <2>3, <2>4 DEF Delete, ManagerType
<1>7. CASE AskUndeploy(o)
  <2>1. ops[o].path \in Paths
    BY <1>7 DEF AskUndeploy, ManagerType, AtWork
  <2>2. OpsType'
    BY <1>7, PcStep DEF AskUndeploy, PCs, AtWork
  <2>3. Undeploy(ops[o].path) \in KnownTasks
    BY <2>1 DEF Undeploy, Task, KnownTasks, UndeployTasks, Boot
  <2> QED
    BY <1>7, <2>2, <2>3, QueueStep, AnswersType DEF AskUndeploy, ManagerType
<1> QED
  BY <1>2, <1>3, <1>4, <1>5, <1>6, <1>7

-----------------------------------------------------------------------------
LEMMA AtStage ==
    ASSUME NEW d \in Deployments, NEW stage \in Stages
    PROVE  LET next == [d EXCEPT !.stage = stage]
           IN  /\ next \in Deployments
               /\ next = [task |-> d.task, version |-> d.version, previous |-> d.previous,
                          stage |-> stage, unpause |-> d.unpause, done |-> d.done]
BY DEF Deployments

LEMMA AtLast ==
    ASSUME NEW d \in Deployments
    PROVE  LET last == [d EXCEPT !.stage = "final", !.done = TRUE]
           IN  /\ last \in Deployments
               /\ last = [task |-> d.task, version |-> d.version, previous |-> d.previous,
                          stage |-> "final", unpause |-> d.unpause, done |-> TRUE]
<1> DEFINE mid  == [d EXCEPT !.stage = "final"]
           last == [d EXCEPT !.stage = "final", !.done = TRUE]
<1>1. /\ mid \in Deployments
      /\ mid = [task |-> d.task, version |-> d.version, previous |-> d.previous,
                stage |-> "final", unpause |-> d.unpause, done |-> d.done]
  BY AtStage DEF Stages
<1>2. ASSUME NEW m \in Deployments, NEW t
      PROVE  [m EXCEPT !.done = t] =
                 [task |-> m.task, version |-> m.version, previous |-> m.previous,
                  stage |-> m.stage, unpause |-> m.unpause, done |-> t]
  BY DEF Deployments
<1>3. last = [mid EXCEPT !.done = TRUE]
  BY Zenon
<1>4. /\ mid.task = d.task /\ mid.version = d.version /\ mid.previous = d.previous
      /\ mid.stage = "final" /\ mid.unpause = d.unpause
  BY <1>1
<1> HIDE DEF mid
<1>5. last = [task |-> d.task, version |-> d.version, previous |-> d.previous,
              stage |-> "final", unpause |-> d.unpause, done |-> TRUE]
  BY <1>1, <1>2, <1>3, <1>4, Zenon
<1>6. last \in Deployments
  BY <1>5 DEF Deployments, Stages
<1> QED
  BY <1>5, <1>6

LEMMA GoesStep ==
    ASSUME deploying \subseteq Deployments, NEW d \in deploying, NEW stage \in Stages,
           Goes(d, stage)
    PROVE  deploying' \subseteq Deployments
<1>1. [d EXCEPT !.stage = stage] \in Deployments
  BY AtStage
<1> QED
  BY <1>1 DEF Goes

LEMMA ExecutorStep ==
    ASSUME executor \in Seq(KnownTasks), NEW t \in KnownTasks
    PROVE  /\ Append(executor, t) \in Seq(KnownTasks)
           /\ executor # <<>> => /\ Head(executor) \in KnownTasks
                                 /\ Tail(executor) \in Seq(KnownTasks)
                                 /\ Append(Tail(executor), t) \in Seq(KnownTasks)
OBVIOUS

LEMMA SmallKnown == WaitForNextTask \in KnownTasks /\ UpdateStatus \in KnownTasks
BY DEF WaitForNextTask, UpdateStatus, Task, KnownTasks, SmallTasks, Boot

LEMMA NoAppKnown == NoApp \in Apps
BY DEF NoApp, App, Apps, Boot

\* the task a deployment begins with
LEMMA DeployIsDeploy ==
    ASSUME NEW t \in KnownTasks
    PROVE  /\ t.what = "deploy" => t \in DeployTasks /\ t.path \in Paths /\ t.version \in Nat
           /\ t.what = "undeploy" => t.path \in Paths
BY DEF KnownTasks, DeployTasks, UndeployTasks, SmallTasks

LEMMA ManagerStepType ==
    ASSUME ManagerType, Manager
    PROVE  ManagerType'
<1> USE DEF instances, tables, requested, counted
<1>1. UNCHANGED <<setting, restarts, ops, answers>>
  BY DEF Manager, TakeNext, RunUpdateStatus, RunUndeploy, RunDeploy
<1> SUFFICES /\ disk' \in [Paths -> Directories]
             /\ q' \in Seq(KnownTasks) /\ executor' \in Seq(KnownTasks)
             /\ deploying' \subseteq Deployments
             /\ applications' \in [Paths -> Apps] /\ status' \in [Paths -> Apps]
             /\ versions' \in [Paths -> Nat]
  BY <1>1 DEF ManagerType, PCs
<1> USE ExecutorStep, SmallKnown, NoAppKnown
<1>2. CASE TakeNext
  <2>1. Head(q) \in KnownTasks /\ Tail(q) \in Seq(KnownTasks) /\ executor # <<>>
    BY <1>2 DEF TakeNext, Runs, ManagerType
  <2>2. Append(Tail(executor), Head(q)) \in Seq(KnownTasks)
    BY <2>1 DEF ManagerType
  <2> QED
    BY <1>2, <2>1, <2>2 DEF TakeNext, ManagerType
<1>3. CASE RunUpdateStatus
  <2>1. executor' \in Seq(KnownTasks)
    BY <1>3 DEF RunUpdateStatus, Runs, EndTask, ManagerType
  <2>2. status' \in [Paths -> Apps]
    BY <1>3 DEF RunUpdateStatus, ManagerType
  <2> QED
    BY <1>3, <2>1, <2>2 DEF RunUpdateStatus, ManagerType
<1>4. CASE RunUndeploy
  <2> DEFINE p == Head(executor).path
  <2>1. executor # <<>> /\ Head(executor).what = "undeploy"
    BY <1>4 DEF RunUndeploy, Runs
  <2>2. p \in Paths
    BY <2>1, DeployIsDeploy DEF ManagerType
  <2>3. executor' \in Seq(KnownTasks)
    BY <1>4, <2>1 DEF RunUndeploy, EndTask, ManagerType
  <2>4. UNCHANGED tables \/ Forget(p)
    BY <1>4 DEF RunUndeploy
  <2>5. /\ applications' \in [Paths -> Apps] /\ status' \in [Paths -> Apps]
        /\ versions' \in [Paths -> Nat]
    <3> HIDE DEF p
    <3>1. CASE UNCHANGED tables
      BY <3>1 DEF ManagerType
    <3>2. CASE Forget(p)
      BY <3>2, <2>2 DEF Forget, ManagerType
    <3> QED
      BY <2>4, <3>1, <3>2
  <2> QED
    BY <1>4, <2>3, <2>5 DEF RunUndeploy, ManagerType
<1>5. CASE RunDeploy
  <2> DEFINE task     == Head(executor)
             p        == task.path
             version  == IF task.version > 0 THEN task.version ELSE NextVersion(p)
             previous == applications[p]
             made     == [disk EXCEPT ![p][version] = IF @ = Missing THEN Empty ELSE @]
             begun    == Deployment(task, version, previous, "building", previous # NoApp)
             refused  == Deployment(task, version, previous, "failing", FALSE)
  <2>1. executor # <<>> /\ task.what = "deploy"
    BY <1>5 DEF RunDeploy, Runs
  <2>2. task \in DeployTasks /\ p \in Paths /\ task.version \in Nat
    BY <2>1, DeployIsDeploy DEF ManagerType
  <2>3. previous \in Apps /\ version \in Nat
    BY <2>2 DEF ManagerType, NextVersion
  <2>4. made \in [Paths -> Directories]
    <3>1. disk[p] \in Directories
      BY <2>2 DEF ManagerType
    <3>2. [disk[p] EXCEPT ![version] = IF @ = Missing THEN Empty ELSE @] \in Directories
      BY <3>1 DEF Directories
    <3>3. made = [disk EXCEPT ![p] = [disk[p] EXCEPT ![version] = IF @ = Missing THEN Empty ELSE @]]
      BY Zenon
    <3> HIDE DEF made
    <3> QED
      BY <2>2, <3>2, <3>3 DEF ManagerType
  <2>5. begun \in Deployments /\ refused \in Deployments
    <3> HIDE DEF version, previous, task
    <3>1. (previous # NoApp) \in BOOLEAN
      OBVIOUS
    <3> QED
      BY <2>2, <2>3, <3>1 DEF Deployment, Deployments, Stages
  <2>6. deploying' \in {deploying \cup {begun}, deploying \cup {refused}} /\ disk' \in {disk, made}
    BY <1>5 DEF RunDeploy
  <2>7. executor' \in Seq(KnownTasks)
    BY <1>5, <2>1 DEF RunDeploy, ManagerType
  <2> HIDE DEF made, begun, refused
  <2>8. disk' \in [Paths -> Directories] /\ deploying' \subseteq Deployments
    BY <2>4, <2>5, <2>6 DEF ManagerType
  <2> QED
    BY <1>5, <2>7, <2>8 DEF RunDeploy, ManagerType
<1> QED
  BY <1>2, <1>3, <1>4, <1>5 DEF Manager

\* the fields a step of a deployment may change by telling its subscriber
LEMMA TellStep ==
    ASSUME ManagerType, NEW d \in Deployments, NEW a \in {"ok", "error"}, Tell(d, a)
    PROVE  OpsType' /\ answers' \in [Ops -> Seq({"ok", "error"})]
<1>1. d.task.op \in Ops \cup {Boot}
  BY DEF Deployments, DeployTasks
<1>2. CASE d.task.op = Boot
  BY <1>2 DEF Tell, requested, ManagerType, OpsType
<1>3. CASE d.task.op # Boot
  <2>1. /\ d.task.op \in Ops
        /\ answers' = [answers EXCEPT ![d.task.op] = Append(@, a)]
        /\ ops' = [ops EXCEPT ![d.task.op].pc = "ended"]
    BY <1>1, <1>3 DEF Tell
  <2>2. OpsType'
    BY <2>1, PcStep DEF PCs
  <2>3. answers' \in [Ops -> Seq({"ok", "error"})]
    BY <2>1, AnswersType DEF ManagerType
  <2> QED
    BY <2>2, <2>3
<1> QED
  BY <1>2, <1>3

LEMMA DeployStepType ==
    ASSUME ManagerType, NEW d \in deploying,
           \/ Build(d) \/ Publish(d) \/ Report(d) \/ TellOk(d) \/ EndOk(d)
           \/ TellError(d) \/ EndError(d) \/ Finally(d)
    PROVE  ManagerType'
<1> USE DEF instances, tables, requested, counted
<1>1. /\ UNCHANGED <<setting, restarts, q>>
      /\ d \in Deployments /\ deploying \subseteq Deployments
  BY DEF Build, Publish, Report, TellOk, EndOk, TellError, EndError, Finally, ManagerType
<1>2. /\ d.task.path \in Paths /\ d.version \in Nat /\ d.task.config \in Ops
      /\ d.task.op \in Ops \cup {Boot}
  BY <1>1 DEF Deployments, DeployTasks
<1>3. NewApp(d) \in Apps
  BY <1>2 DEF NewApp, App, Apps
<1>4. OpsType /\ OpsType' /\ answers' \in [Ops -> Seq({"ok", "error"})]
  <2>1. OpsType /\ answers \in [Ops -> Seq({"ok", "error"})]
    BY DEF ManagerType, OpsType
  <2>2. Tell(d, "ok") \/ Tell(d, "error") \/ UNCHANGED requested
    BY DEF Build, Publish, Report, TellOk, EndOk, TellError, EndError, Finally
  <2>3. CASE UNCHANGED requested
    BY <2>1, <2>3 DEF OpsType
  <2> QED
    BY <1>1, <2>1, <2>2, <2>3, TellStep
<1>5. deploying' \subseteq Deployments
  <2>1. CASE \E stage \in Stages : Goes(d, stage)
    BY <1>1, <2>1, GoesStep
  <2>2. CASE EndError(d)
    BY <1>1, <2>2, AtLast DEF EndError
  <2>3. CASE Finally(d)
    BY <1>1, <2>3 DEF Finally
  <2> QED
    BY <2>1, <2>2, <2>3 DEF Build, Publish, Report, TellOk, EndOk, TellError, Thrown, Stages
<1>6. executor' \in Seq(KnownTasks)
  <2>1. executor \in Seq(KnownTasks) /\ executor' \in {executor, Append(executor, WaitForNextTask)}
    BY DEF Build, Publish, Report, TellOk, EndOk, TellError, EndError, Finally, GiveBack, ManagerType
  <2> QED
    BY <2>1, ExecutorStep, SmallKnown
<1>7. disk' \in [Paths -> Directories]
  <2>1. disk \in [Paths -> Directories]
    BY DEF ManagerType
  <2>2. disk[d.task.path] \in Directories
    BY <1>2, <2>1
  <2>3. CASE UNCHANGED disk
    BY <2>1, <2>3
  <2>4. CASE CleanUp(d)
    BY <1>2, <2>1, <2>4, DiskStep DEF CleanUp
  <2>5. CASE EndOk(d)
    <3> DEFINE kept == [v \in Versions |-> IF v \in Old(d) THEN Missing ELSE disk[d.task.path][v]]
    <3>1. kept \in Directories
      BY <2>2 DEF Directories
    <3>2. UNCHANGED disk \/ disk' = [disk EXCEPT ![d.task.path] = kept]
      BY <2>5, Zenon DEF EndOk
    <3> HIDE DEF kept
    <3> QED
      BY <1>2, <2>1, <3>1, <3>2
  <2> QED
    BY <2>3, <2>4, <2>5 DEF Build, Publish, Report, TellOk, TellError, EndError, Finally
<1>8. /\ applications' \in [Paths -> Apps] /\ status' \in [Paths -> Apps]
      /\ versions' \in [Paths -> Nat]
  <2>1. /\ applications \in [Paths -> Apps] /\ status \in [Paths -> Apps]
        /\ versions \in [Paths -> Nat]
    BY DEF ManagerType
  <2>2. /\ applications' \in {applications, [applications EXCEPT ![d.task.path] = NewApp(d)]}
        /\ status' \in {status, [status EXCEPT ![d.task.path] = NewApp(d)]}
        /\ versions' \in {versions, [versions EXCEPT ![d.task.path] = d.version]}
    BY DEF Build, Publish, Report, TellOk, EndOk, Record, TellError, EndError, Finally
  <2> QED
    BY <1>2, <1>3, <2>1, <2>2
<1> QED
  BY <1>1, <1>4, <1>5, <1>6, <1>7, <1>8 DEF ManagerType, OpsType

LEMMA RestartType ==
    ASSUME ManagerType, Restart
    PROVE  ManagerType' /\ \A i \in DOMAIN q' : q'[i].op = Boot
<1>1. UNCHANGED <<setting, answers, disk>> /\ restarts' = restarts + 1 /\ deploying' = {}
  BY DEF Restart
<1>2. /\ ops' \in [Ops -> [pc : PCs, path : Paths \cup {0}, version : Nat]]
      /\ \A o \in Ops : ops'[o].pc \in AtWork => ops'[o].path \in Paths
  <2>1. ASSUME NEW o \in Ops
        PROVE  /\ ops[o] \in [pc : PCs, path : Paths \cup {0}, version : Nat]
               /\ ops[o].pc \in AtWork => ops[o].path \in Paths
               /\ [ops[o] EXCEPT !.pc = "ended"] \in [pc : PCs, path : Paths \cup {0}, version : Nat]
               /\ [ops[o] EXCEPT !.pc = "ended"].pc = "ended"
    BY DEF ManagerType, PCs
  <2>2. ops' = [o \in Ops |-> IF AtRest(o) THEN ops[o] ELSE [ops[o] EXCEPT !.pc = "ended"]]
    BY DEF Restart
  <2>3. "ended" \notin AtWork
    BY DEF AtWork
  <2> QED
    BY <2>1, <2>2, <2>3
<1>3. q' \in Seq(BootTasks)
  <2>1. PICK started \in Started : \E order \in SetToSeqs(started) :
           q' = [i \in DOMAIN order |-> Task("deploy", order[i], Newest(order[i]),
                                             Content(order[i]), Boot)]
    BY DEF Restart
  <2>2. PICK order \in SetToSeqs(started) :
           q' = [i \in DOMAIN order |-> Task("deploy", order[i], Newest(order[i]),
                                             Content(order[i]), Boot)]
    BY <2>1
  <2> QED
    BY <2>2, Boots
<1>4. /\ BootTasks \subseteq KnownTasks
      /\ q' \in Seq(KnownTasks) /\ \A i \in DOMAIN q' : q'[i].op = Boot
  BY <1>3 DEF BootTasks, KnownTasks
<1>5. executor' \in Seq(KnownTasks)
  <2>1. executor' = <<WaitForNextTask>>
    BY DEF Restart
  <2> QED
    BY <2>1, SmallKnown
<1>6. /\ applications' \in [Paths -> Apps] /\ status' \in [Paths -> Apps]
      /\ versions' \in [Paths -> Nat]
  BY NoAppKnown DEF Restart
<1> QED
  BY <1>1, <1>2, <1>4, <1>5, <1>6 DEF ManagerType

LEMMA TypeStep ==
    ASSUME ManagerType, [Next]_vars
    PROVE  ManagerType'
<1> USE DEF instances, tables, requested, counted
<1>1. CASE Tick
  <2>1. q' \in Seq(KnownTasks)
    BY <1>1, SmallKnown, QueueStep DEF Tick, ManagerType
  <2> QED
    BY <1>1, <2>1 DEF Tick, ManagerType
<1>2. CASE UNCHANGED vars
  BY <1>2 DEF vars, ManagerType
<1> QED
  BY <1>1, <1>2, OperationType, ManagerStepType, DeployStepType, RestartType DEF Next, Deploys

-----------------------------------------------------------------------------
(* A deploy operation that waits is in one place: the deque, the executor, or  *)
(* a deployment that has not told its subscriber.                               *)

Untold == {"building", "built", "published", "reported", "failing"}

InQueue(o)  == \E i \in DOMAIN q : q[i].op = o
Begins(o)   == \E i \in DOMAIN executor : executor[i].op = o
UnderWay(o) == \E d \in deploying : d.task.op = o /\ d.stage \in Untold

AnswerOf(o) ==
    /\ Len(answers[o]) <= 1
    /\ answers[o] = <<>> \/ ops[o].pc = "ended"
    /\ InQueue(o) \/ Begins(o) \/ UnderWay(o) => ops[o].pc = "waiting"
    /\ InQueue(o) => ~Begins(o) /\ ~UnderWay(o)
    /\ Begins(o) => ~UnderWay(o)

AnswerInv ==
    /\ \A o \in Ops : AnswerOf(o)
    /\ \A i, j \in DOMAIN q : q[i].op = q[j].op /\ q[i].op \in Ops => i = j

\* an operation nothing happened to
LEMMA AnswerStays ==
    ASSUME NEW o \in Ops, AnswerOf(o), ops'[o].pc = ops[o].pc, answers'[o] = answers[o],
           InQueue(o)' => InQueue(o), Begins(o)' => Begins(o), UnderWay(o)' => UnderWay(o)
    PROVE  AnswerOf(o)'
BY DEF AnswerOf

LEMMA QueuePush ==
    ASSUME ManagerType, NEW t \in KnownTasks, Push(t),
           \A i, j \in DOMAIN q : q[i].op = q[j].op /\ q[i].op \in Ops => i = j,
           t.op \in Ops => ~InQueue(t.op)
    PROVE  /\ \A o : InQueue(o)' => InQueue(o) \/ t.op = o
           /\ \A i, j \in DOMAIN q' : q'[i].op = q'[j].op /\ q'[i].op \in Ops => i = j
<1>1. q \in Seq(KnownTasks) /\ q' = <<t>> \o q
  BY DEF ManagerType, Push
<1>2. /\ DOMAIN q' = 1 .. Len(q) + 1 /\ DOMAIN q = 1 .. Len(q) /\ Len(q) \in Nat
      /\ q'[1] = t /\ \A i \in 2 .. Len(q) + 1 : q'[i] = q[i - 1]
  BY <1>1
<1>3. \A i \in DOMAIN q' : i = 1 \/ (i - 1 \in DOMAIN q /\ q'[i] = q[i - 1])
  BY <1>2
<1>4. \A o : InQueue(o)' => InQueue(o) \/ t.op = o
  <2> SUFFICES ASSUME NEW o, NEW i \in DOMAIN q', q'[i].op = o, t.op # o
               PROVE  InQueue(o)
    BY DEF InQueue
  <2> QED
    BY <1>2, <1>3 DEF InQueue
<1>5. ASSUME NEW i \in DOMAIN q', NEW j \in DOMAIN q', q'[i].op = q'[j].op, q'[i].op \in Ops
      PROVE  i = j
  <2>1. CASE i = 1 /\ j # 1
    BY <1>2, <1>3, <1>5, <2>1 DEF InQueue
  <2>2. CASE i # 1 /\ j = 1
    BY <1>2, <1>3, <1>5, <2>2 DEF InQueue
  <2>3. CASE i # 1 /\ j # 1
    <3>1. i - 1 = j - 1
      BY <1>3, <1>5, <2>3
    <3> QED
      BY <1>2, <3>1
  <2> QED
    BY <2>1, <2>2, <2>3
<1> QED
  BY <1>4, <1>5

LEMMA QueueTake ==
    ASSUME ManagerType, q # <<>>, q' = Tail(q),
           \A i, j \in DOMAIN q : q[i].op = q[j].op /\ q[i].op \in Ops => i = j
    PROVE  /\ \A o : InQueue(o)' => InQueue(o)
           /\ Head(q).op \in Ops => InQueue(Head(q).op) /\ \A i \in DOMAIN q' : q'[i].op # Head(q).op
           /\ \A i, j \in DOMAIN q' : q'[i].op = q'[j].op /\ q'[i].op \in Ops => i = j
<1>1. q \in Seq(KnownTasks)
  BY DEF ManagerType
<1>2. /\ DOMAIN q' = 1 .. Len(q) - 1 /\ DOMAIN q = 1 .. Len(q) /\ Len(q) \in Nat \ {0}
      /\ Head(q) = q[1] /\ \A i \in 1 .. Len(q) - 1 : q'[i] = q[i + 1]
  BY <1>1
<1>3. \A i \in DOMAIN q' : i + 1 \in DOMAIN q /\ q'[i] = q[i + 1] /\ i + 1 # 1
  BY <1>2
<1>4. \A o : InQueue(o)' => InQueue(o)
  BY <1>3 DEF InQueue
<1>5. 1 \in DOMAIN q
  BY <1>2
<1>6. Head(q).op \in Ops => InQueue(Head(q).op) /\ \A i \in DOMAIN q' : q'[i].op # Head(q).op
  BY <1>2, <1>3, <1>5 DEF InQueue
<1>7. ASSUME NEW i \in DOMAIN q', NEW j \in DOMAIN q', q'[i].op = q'[j].op, q'[i].op \in Ops
      PROVE  i = j
  <2>1. i + 1 = j + 1
    BY <1>3, <1>7
  <2> QED
    BY <1>2, <2>1
<1> QED
  BY <1>4, <1>6, <1>7

LEMMA OperationAnswers ==
    ASSUME ManagerType, AnswerInv, Operation
    PROVE  AnswerInv'
<1> USE DEF instances, tables, requested, counted
<1> PICK o \in Ops : Choose(o) \/ Clear(o) \/ Unpack(o) \/ Submit(o) \/ Delete(o) \/ AskUndeploy(o)
  BY DEF Operation
<1> DEFINE Unique == \A i, j \in DOMAIN q : q[i].op = q[j].op /\ q[i].op \in Ops => i = j
<1>1. UNCHANGED <<executor, deploying>>
  BY DEF Choose, Clear, Unpack, Submit, Delete, AskUndeploy
<1>2. \A p \in Ops : (Begins(p)' => Begins(p)) /\ (UnderWay(p)' => UnderWay(p))
  BY <1>1 DEF Begins, UnderWay
<1>3. ops \in [Ops -> [pc : PCs, path : Paths \cup {0}, version : Nat]] /\ DOMAIN answers = Ops
  BY DEF ManagerType
<1>4. \A p \in Ops \ {o} : ops'[p] = ops[p]
  BY <1>3 DEF Choose, Clear, Unpack, Submit, Delete, AskUndeploy
<1>5. ops[o].pc \in {"idle", "chosen", "cleared", "unpacked", "deleted"}
  BY DEF Choose, Clear, Unpack, Submit, Delete, AskUndeploy, MayStart
<1>6. answers[o] = <<>> /\ ~InQueue(o) /\ ~Begins(o) /\ ~UnderWay(o)
  BY <1>5 DEF AnswerInv, AnswerOf
<1>7. CASE Choose(o) \/ Clear(o) \/ Unpack(o) \/ Delete(o)
  <2>1. UNCHANGED <<q, answers>>
    BY <1>7 DEF Choose, Clear, Unpack, Delete
  <2>2. \A p \in Ops : InQueue(p)' => InQueue(p)
    BY <2>1 DEF InQueue
  <2>3. AnswerOf(o)'
    BY <1>2, <1>6, <2>1, <2>2 DEF AnswerInv, AnswerOf
  <2>4. \A p \in Ops \ {o} : AnswerOf(p)'
    BY <1>2, <1>4, <2>1, <2>2, AnswerStays DEF AnswerInv
  <2> QED
    BY <2>1, <2>3, <2>4 DEF AnswerInv
<1>8. CASE UNCHANGED <<q, answers>> /\ ops' = [ops EXCEPT ![o].pc = "ended"]
  <2>1. \A p \in Ops : InQueue(p)' => InQueue(p)
    BY <1>8 DEF InQueue
  <2>2. answers'[o] = <<>> /\ ops'[o].pc = "ended" /\ \A p \in Ops \ {o} : answers'[p] = answers[p]
    BY <1>3, <1>6, <1>8
  <2>3. AnswerOf(o)'
    BY <1>2, <1>6, <2>1, <2>2 DEF AnswerOf
  <2>4. \A p \in Ops \ {o} : AnswerOf(p)'
    BY <1>2, <1>4, <2>1, <2>2, AnswerStays DEF AnswerInv
  <2> QED
    BY <1>8, <2>3, <2>4 DEF AnswerInv
<1>9. CASE AskUndeploy(o)
  <2> DEFINE t == Undeploy(ops[o].path)
  <2>1. t \in KnownTasks /\ t.op = Boot
    <3>1. ops[o].path \in Paths
      BY <1>9 DEF AskUndeploy, ManagerType, AtWork
    <3> QED
      BY <3>1 DEF Undeploy, Task, KnownTasks, UndeployTasks, Boot
  <2>2. Push(t) /\ Boot \notin Ops
    BY <1>9, Numbers DEF AskUndeploy
  <2> HIDE DEF t
  <2>3. Unique /\ t.op \notin Ops
    BY <2>1, <2>2 DEF AnswerInv
  <2>4. (\A p : InQueue(p)' => InQueue(p) \/ t.op = p) /\ Unique'
    BY <2>1, <2>2, <2>3, QueuePush
  <2>5. \A p \in Ops : InQueue(p)' => InQueue(p)
    BY <2>3, <2>4
  <2>6. /\ ops' = [ops EXCEPT ![o].pc = "ended"]
        /\ answers' = [answers EXCEPT ![o] = Append(@, "ok")]
    BY <1>9 DEF AskUndeploy
  <2>7. answers'[o] = <<"ok">> /\ ops'[o].pc = "ended" /\ \A p \in Ops \ {o} : answers'[p] = answers[p]
    BY <1>3, <1>6, <2>6
  <2>8. AnswerOf(o)'
    BY <1>2, <1>6, <2>5, <2>7 DEF AnswerOf
  <2>9. \A p \in Ops \ {o} : AnswerOf(p)'
    BY <1>2, <1>4, <2>5, <2>7, AnswerStays DEF AnswerInv
  <2> QED
    BY <2>4, <2>8, <2>9 DEF AnswerInv
<1>10. CASE Submit(o) /\ disk[ops[o].path][ops[o].version] \in Ops
  <2> DEFINE t == Task("deploy", ops[o].path, 0, disk[ops[o].path][ops[o].version], o)
  <2>1. t \in KnownTasks /\ t.op = o
    <3>1. ops[o].path \in Paths
      BY <1>10 DEF Submit, ManagerType, AtWork
    <3> QED
      BY <1>10, <3>1 DEF Task, KnownTasks, DeployTasks
  <2>2. Push(t) /\ ops' = [ops EXCEPT ![o].pc = "waiting"] /\ UNCHANGED answers
    BY <1>10 DEF Submit
  <2> HIDE DEF t
  <2>3. Unique /\ ~InQueue(t.op)
    BY <1>6, <2>1 DEF AnswerInv
  <2>4. (\A p : InQueue(p)' => InQueue(p) \/ t.op = p) /\ Unique'
    BY <2>1, <2>2, <2>3, QueuePush
  <2>5. \A p \in Ops \ {o} : InQueue(p)' => InQueue(p)
    BY <2>1, <2>4
  <2>6. ops'[o].pc = "waiting"
    BY <1>3, <2>2
  <2>7. AnswerOf(o)'
    BY <1>2, <1>6, <2>2, <2>6 DEF AnswerInv, AnswerOf
  <2>8. \A p \in Ops \ {o} : AnswerOf(p)'
    BY <1>2, <1>4, <2>2, <2>5, AnswerStays DEF AnswerInv
  <2> QED
    BY <2>4, <2>7, <2>8 DEF AnswerInv
<1> QED
  BY <1>7, <1>8, <1>9, <1>10 DEF Submit

\* what nothing but the places of the operations changed
LEMMA NothingAnswered ==
    ASSUME AnswerInv, UNCHANGED requested,
           \A o \in Ops : /\ (InQueue(o)' => InQueue(o)) /\ (Begins(o)' => Begins(o))
                          /\ (UnderWay(o)' => UnderWay(o)),
           \A i, j \in DOMAIN q' : q'[i].op = q'[j].op /\ q'[i].op \in Ops => i = j
    PROVE  AnswerInv'
<1>1. ops' = ops /\ answers' = answers
  BY DEF requested
<1>2. ASSUME NEW o \in Ops PROVE AnswerOf(o)'
  <2>1. AnswerOf(o) /\ ops'[o].pc = ops[o].pc /\ answers'[o] = answers[o]
    BY <1>1 DEF AnswerInv
  <2>2. /\ InQueue(o)' => InQueue(o)
        /\ Begins(o)' => Begins(o)
        /\ UnderWay(o)' => UnderWay(o)
    OBVIOUS
  <2> QED
    BY <2>1, <2>2, AnswerStays
<1> QED
  BY <1>2 DEF AnswerInv

\* the executor goes on with something that is no deployment
LEMMA NobodyBegins ==
    ASSUME ManagerType, executor' = Append(executor, WaitForNextTask)
                         \/ (executor # <<>> /\ executor' = Append(Tail(executor), WaitForNextTask)),
           NEW o \in Ops, Begins(o)'
    PROVE  Begins(o)
<1>1. WaitForNextTask.op = Boot /\ Boot \notin Ops /\ WaitForNextTask \in KnownTasks
  BY Numbers, SmallKnown DEF WaitForNextTask, Task, Boot
<1>2. executor \in Seq(KnownTasks)
  BY DEF ManagerType
<1>3. PICK i \in DOMAIN executor' : executor'[i].op = o
  BY DEF Begins
<1>4. executor'[i] # WaitForNextTask
  BY <1>1, <1>3
<1> HIDE DEF WaitForNextTask
<1>5. CASE executor' = Append(executor, WaitForNextTask)
  <2>1. i \in DOMAIN executor /\ executor'[i] = executor[i]
    BY <1>1, <1>2, <1>3, <1>4, <1>5
  <2> QED
    BY <1>3, <2>1 DEF Begins
<1>6. CASE executor # <<>> /\ executor' = Append(Tail(executor), WaitForNextTask)
  <2>1. i + 1 \in DOMAIN executor /\ executor'[i] = executor[i + 1]
    BY <1>1, <1>2, <1>3, <1>4, <1>6
  <2> QED
    BY <1>3, <2>1 DEF Begins
<1> QED
  BY <1>5, <1>6

LEMMA ManagerAnswers ==
    ASSUME ManagerType, TurnInv, AnswerInv, Manager
    PROVE  AnswerInv'
<1> USE DEF instances, tables, requested, counted
<1> DEFINE Unique == \A i, j \in DOMAIN q : q[i].op = q[j].op /\ q[i].op \in Ops => i = j
<1>1. executor = <<Head(executor)>> /\ Unfinished = {}
  BY DEF Manager, TakeNext, RunUpdateStatus, RunUndeploy, RunDeploy, Runs, TurnInv, Turn
<1>2. \A o \in Ops : ~UnderWay(o)
  <2> SUFFICES ASSUME NEW d \in deploying, d.stage \in Untold PROVE FALSE
    BY DEF UnderWay
  <2>1. d.done
    BY <1>1 DEF Unfinished
  <2> QED
    BY <2>1 DEF TurnInv, DoneAreFinal, Untold
<1>3. UNCHANGED requested /\ DOMAIN executor = {1} /\ executor[1] = Head(executor)
  <2>1. <<Head(executor)>>[1] = Head(executor) /\ DOMAIN <<Head(executor)>> = {1}
    OBVIOUS
  <2> QED
    BY <1>1, <2>1 DEF Manager, TakeNext, RunUpdateStatus, RunUndeploy, RunDeploy
<1>4. CASE TakeNext
  <2> DEFINE t == Head(q)
  <2>1. q # <<>> /\ q' = Tail(q) /\ executor' = Append(Tail(executor), t) /\ UNCHANGED deploying
    BY <1>4 DEF TakeNext
  <2>2. executor' = <<t>>
    BY <1>1, <2>1, OneElement
  <2>3. DOMAIN executor' = {1} /\ executor'[1] = t
    <3>1. DOMAIN <<t>> = {1} /\ <<t>>[1] = t
      OBVIOUS
    <3> QED
      BY <2>2, <3>1
  <2>4. Unique
    BY DEF AnswerInv
  <2>5. /\ \A o : InQueue(o)' => InQueue(o)
        /\ t.op \in Ops => InQueue(t.op) /\ \A i \in DOMAIN q' : q'[i].op # t.op
        /\ Unique'
    BY <2>1, <2>4, QueueTake
  <2> HIDE DEF t
  <2>6. \A o \in Ops : Begins(o)' => o = t.op
    BY <2>3 DEF Begins
  <2>7. \A o \in Ops : ~UnderWay(o)'
    BY <1>2, <2>1 DEF UnderWay
  <2>8. ASSUME NEW o \in Ops, o # t.op PROVE AnswerOf(o)'
    BY <1>3, <2>5, <2>6, <2>7, <2>8, AnswerStays DEF AnswerInv
  <2>9. ASSUME NEW o \in Ops, o = t.op PROVE AnswerOf(o)'
    <3>1. InQueue(o) /\ AnswerOf(o)
      BY <2>5, <2>9 DEF AnswerInv
    <3>2. ~ InQueue(o)'
      BY <2>5, <2>9 DEF InQueue
    <3> QED
      BY <1>3, <2>7, <3>1, <3>2 DEF AnswerOf
  <2> QED
    BY <2>5, <2>8, <2>9 DEF AnswerInv
<1>5. CASE RunUpdateStatus \/ RunUndeploy
  <2>1. UNCHANGED <<q, deploying>> /\ executor # <<>> /\ executor' = Append(Tail(executor), WaitForNextTask)
    BY <1>5 DEF RunUpdateStatus, RunUndeploy, EndTask, Runs
  <2>2. \A o \in Ops : /\ (InQueue(o)' => InQueue(o)) /\ (Begins(o)' => Begins(o))
                       /\ (UnderWay(o)' => UnderWay(o))
    BY <2>1, NobodyBegins DEF InQueue, UnderWay
  <2>3. Unique'
    BY <2>1 DEF AnswerInv
  <2> QED
    BY <1>3, <2>2, <2>3, NothingAnswered
<1>6. CASE RunDeploy
  <2> DEFINE task == Head(executor)
  <2>1. PICK version, previous, stage, unpause :
           deploying' = deploying \cup {Deployment(task, version, previous, stage, unpause)}
    <3> DEFINE p == task.path
               previous == applications[p]
               version == IF task.version > 0 THEN task.version ELSE NextVersion(p)
               Begun(stage, unpause) ==
                   deploying' = deploying \cup
                       {Deployment(task, version, previous, stage, unpause)}
    <3>1. Begun("building", previous # NoApp) \/ Begun("failing", FALSE)
      BY <1>6 DEF RunDeploy
    <3> QED
      BY <3>1
  <2>2. UNCHANGED q /\ executor' = <<>>
    BY <1>1, <1>6, OneElement DEF RunDeploy
  <2> HIDE DEF task
  <2>3. \A o \in Ops : UnderWay(o)' => o = task.op
    BY <1>2, <2>1 DEF UnderWay, Deployment
  <2>4. \A o \in Ops : ~Begins(o)' /\ (InQueue(o)' <=> InQueue(o))
    BY <2>2 DEF Begins, InQueue
  <2>5. ASSUME NEW o \in Ops, o # task.op PROVE AnswerOf(o)'
    BY <1>3, <2>3, <2>4, <2>5, AnswerStays DEF AnswerInv
  <2>6. ASSUME NEW o \in Ops, o = task.op PROVE AnswerOf(o)'
    <3>1. Begins(o) /\ AnswerOf(o)
      BY <1>3, <2>6 DEF AnswerInv, Begins, task
    <3> QED
      BY <1>3, <2>4, <3>1 DEF AnswerOf
  <2> QED
    BY <2>2, <2>5, <2>6 DEF AnswerInv
<1> QED
  BY <1>4, <1>5, <1>6 DEF Manager

LEMMA DeployAnswers ==
    ASSUME ManagerType, TurnInv, AnswerInv, NEW d \in deploying,
           \/ Build(d) \/ Publish(d) \/ Report(d) \/ TellOk(d) \/ EndOk(d)
           \/ TellError(d) \/ EndError(d) \/ Finally(d)
    PROVE  AnswerInv'
<1> USE DEF instances, tables, requested, counted
<1>1. /\ UNCHANGED q /\ d \in Deployments /\ deploying \subseteq Deployments
      /\ \A i, j \in DOMAIN q : q[i].op = q[j].op /\ q[i].op \in Ops => i = j
  BY DEF Build, Publish, Report, TellOk, EndOk, TellError, EndError, Finally, ManagerType, AnswerInv
<1>2. \A o \in Ops : /\ InQueue(o)' => InQueue(o)
                     /\ Begins(o)' => Begins(o)
  <2>1. UNCHANGED executor \/ executor' = Append(executor, WaitForNextTask)
    BY DEF Build, Publish, Report, TellOk, EndOk, TellError, EndError, Finally, GiveBack
  <2>2. CASE UNCHANGED executor
    BY <1>1, <2>2 DEF InQueue, Begins
  <2>3. CASE executor' = Append(executor, WaitForNextTask)
    BY <1>1, <2>3, NobodyBegins DEF InQueue
  <2> QED
    BY <2>1, <2>2, <2>3
\* where it goes it is under way only if it was
<1>3. ASSUME NEW stage \in Stages, Goes(d, stage), NEW o, UnderWay(o)',
             stage \in Untold => d.stage \in Untold
      PROVE  UnderWay(o)
  <2> DEFINE next == [d EXCEPT !.stage = stage]
  <2>1. next.task = d.task /\ next.stage = stage
    BY <1>1, AtStage
  <2>2. deploying' = (deploying \ {d}) \cup {next}
    BY <1>3 DEF Goes
  <2> HIDE DEF next
  <2>3. PICK e \in deploying' : e.task.op = o /\ e.stage \in Untold
    BY <1>3 DEF UnderWay
  <2> QED
    BY <1>3, <2>1, <2>2, <2>3 DEF UnderWay
<1>4. CASE Build(d) \/ Publish(d) \/ Report(d) \/ EndOk(d)
  <2>1. UNCHANGED requested
    BY <1>4 DEF Build, Publish, Report, EndOk
  <2>2. PICK stage \in Stages : Goes(d, stage) /\ (stage \in Untold => d.stage \in Untold)
    BY <1>4 DEF Build, Publish, Report, EndOk, Thrown, Stages, Untold
  <2> QED
    BY <1>1, <1>2, <1>3, <2>1, <2>2, NothingAnswered
<1>5. CASE EndError(d) \/ Finally(d)
  <2>1. UNCHANGED requested
    BY <1>5 DEF EndError, Finally
  <2> DEFINE last == [d EXCEPT !.stage = "final", !.done = TRUE]
  <2>2. deploying' \subseteq deploying \cup {last}
    BY <1>5 DEF EndError, Finally
  <2>3. last.stage \notin Untold
    <3>1. last = [task |-> d.task, version |-> d.version, previous |-> d.previous,
                  stage |-> "final", unpause |-> d.unpause, done |-> TRUE]
      BY <1>1, AtLast, Zenon
    <3> HIDE DEF last
    <3> QED
      BY <3>1 DEF Untold
  <2> HIDE DEF last
  <2>4. \A o \in Ops : UnderWay(o)' => UnderWay(o)
    BY <2>2, <2>3 DEF UnderWay
  <2> QED
    BY <1>1, <1>2, <2>1, <2>4, NothingAnswered
<1>6. ASSUME NEW stage \in Stages \ Untold, NEW a, d.stage \in Untold, Goes(d, stage), Tell(d, a)
      PROVE  AnswerInv'
  <2>1. \A o : UnderWay(o)' => UnderWay(o)
    BY <1>3, <1>6
  <2>2. CASE d.task.op = Boot
    <3>1. UNCHANGED requested
      BY <1>6, <2>2 DEF Tell
    <3> QED
      BY <1>1, <1>2, <2>1, <3>1, NothingAnswered
  <2>3. CASE d.task.op # Boot
    <3>1. d.task.op \in Ops
      BY <1>1, <2>3 DEF Deployments, DeployTasks
    <3>2. PICK o \in Ops : o = d.task.op
      BY <3>1
    <3>3. /\ answers' = [answers EXCEPT ![o] = Append(@, a)]
          /\ ops' = [ops EXCEPT ![o].pc = "ended"]
      BY <1>6, <2>3, <3>2 DEF Tell
    <3>4. UnderWay(o) /\ AnswerOf(o)
      BY <1>6, <3>2 DEF AnswerInv, UnderWay
    <3>5. answers[o] = <<>> /\ ~InQueue(o) /\ ~Begins(o)
      BY <3>4 DEF AnswerOf
    <3>6. /\ answers'[o] = <<a>> /\ ops'[o].pc = "ended"
          /\ \A p \in Ops \ {o} : answers'[p] = answers[p] /\ ops'[p] = ops[p]
      <4>1. /\ DOMAIN answers = Ops
            /\ ops \in [Ops -> [pc : PCs, path : Paths \cup {0}, version : Nat]]
        BY DEF ManagerType
      <4>2. Append(<<>>, a) = <<a>>
        BY OneElement
      <4> QED
        BY <3>3, <3>5, <4>1, <4>2
    <3>7. ~UnderWay(o)'
      <4> DEFINE next == [d EXCEPT !.stage = stage]
      <4>1. next.stage = stage
        BY <1>1, AtStage
      <4>2. ~d.done
        BY <1>6 DEF TurnInv, DoneAreFinal, Untold
      <4>3. Unfinished = {d}
        BY <4>2, HasTheTurn
      <4>4. \A e \in deploying \ {d} : e.stage = "final"
        BY <4>3 DEF Unfinished, TurnInv, DoneAreFinal
      <4>5. deploying' = (deploying \ {d}) \cup {next}
        BY <1>6 DEF Goes
      <4> HIDE DEF next
      <4> QED
        BY <1>6, <4>1, <4>4, <4>5 DEF UnderWay, Untold
    <3>8. AnswerOf(o)'
      <4>1. Len(<<a>>) = 1
        BY OneElement
      <4> QED
        BY <1>2, <3>5, <3>6, <3>7, <4>1 DEF AnswerOf
    <3>9. ASSUME NEW p \in Ops \ {o} PROVE AnswerOf(p)'
      BY <1>2, <2>1, <3>6, <3>9, AnswerStays DEF AnswerInv
    <3> QED
      BY <1>1, <3>8, <3>9 DEF AnswerInv
  <2> QED
    BY <2>2, <2>3
<1>7. CASE TellOk(d)
  BY <1>6, <1>7 DEF TellOk, Untold, Stages
<1>8. CASE TellError(d)
  <2>1. PICK stage \in {"refused", "final"} : Goes(d, stage)
    BY <1>8 DEF TellError, Thrown
  <2>2. stage \in Stages \ Untold
    BY DEF Stages, Untold
  <2> QED
    BY <1>6, <1>8, <2>1, <2>2 DEF TellError, Untold
<1> QED
  BY <1>4, <1>5, <1>7, <1>8

LEMMA RestartAnswers ==
    ASSUME ManagerType, AnswerInv, Restart
    PROVE  AnswerInv'
<1>1. \A i \in DOMAIN q' : q'[i].op = Boot
  BY RestartType
<1>2. executor' = <<WaitForNextTask>> /\ deploying' = {} /\ answers' = answers
  BY DEF Restart
<1>3. Boot \notin Ops /\ WaitForNextTask.op = Boot
  BY Numbers DEF WaitForNextTask, Task, Boot
<1>4. DOMAIN executor' = {1} /\ executor'[1].op = Boot
  <2>1. DOMAIN <<WaitForNextTask>> = {1} /\ <<WaitForNextTask>>[1] = WaitForNextTask
    OBVIOUS
  <2> QED
    BY <1>2, <1>3, <2>1
<1>5. ASSUME NEW o \in Ops PROVE AnswerOf(o)'
  <2>1. ~InQueue(o)' /\ ~Begins(o)' /\ ~UnderWay(o)'
    BY <1>1, <1>2, <1>3, <1>4 DEF InQueue, Begins, UnderWay
  <2>2. AnswerOf(o) /\ answers'[o] = answers[o]
    BY <1>2 DEF AnswerInv
  <2>3. ops[o].pc = "ended" => ops'[o].pc = "ended"
    BY DEF Restart, AtRest
  <2> QED
    BY <2>1, <2>2, <2>3 DEF AnswerOf
<1> QED
  BY <1>1, <1>3, <1>5 DEF AnswerInv

LEMMA AnswerStep ==
    ASSUME ManagerType, TurnInv, AnswerInv, [Next]_vars
    PROVE  AnswerInv'
<1> USE DEF instances, tables, requested, counted
<1>1. CASE Tick
  <2>1. UNCHANGED <<requested, executor, deploying>> /\ Push(UpdateStatus)
    BY <1>1 DEF Tick
  <2>2. UpdateStatus.op \notin Ops /\ UpdateStatus \in KnownTasks
    BY Numbers, SmallKnown DEF UpdateStatus, Task, Boot
  <2> HIDE DEF UpdateStatus
  <2>3. /\ \A o : InQueue(o)' => InQueue(o) \/ UpdateStatus.op = o
        /\ \A i, j \in DOMAIN q' : q'[i].op = q'[j].op /\ q'[i].op \in Ops => i = j
    BY <2>1, <2>2, QueuePush DEF AnswerInv
  <2>4. \A o \in Ops : /\ (InQueue(o)' => InQueue(o)) /\ (Begins(o)' => Begins(o))
                       /\ (UnderWay(o)' => UnderWay(o))
    BY <2>1, <2>2, <2>3 DEF Begins, UnderWay
  <2> QED
    BY <2>1, <2>3, <2>4, NothingAnswered
<1>2. CASE UNCHANGED vars
  BY <1>2 DEF vars, AnswerInv, AnswerOf, InQueue, Begins, UnderWay
<1> QED
  BY <1>1, <1>2, OperationAnswers, ManagerAnswers, DeployAnswers, RestartAnswers DEF Next, Deploys

-----------------------------------------------------------------------------
(* What is paused is what a deployment that has not ended will unpause.         *)

PausedInv == \A x \in paused : \E d \in deploying : x \in Unpaused(d)

\* a deployment that goes on unpauses what it would have unpaused
LEMMA UnpausesTheSame ==
    ASSUME NEW d \in Deployments
    PROVE  /\ \A stage \in Stages : Unpaused([d EXCEPT !.stage = stage]) = Unpaused(d)
           /\ Unpaused([d EXCEPT !.stage = "final", !.done = TRUE]) = Unpaused(d)
<1>1. ASSUME NEW e, e.task = d.task, e.previous = d.previous, e.unpause = d.unpause
      PROVE  Unpaused(e) = Unpaused(d)
  BY <1>1, Zenon DEF Unpaused
<1>2. ASSUME NEW stage \in Stages
      PROVE  Unpaused([d EXCEPT !.stage = stage]) = Unpaused(d)
  <2> DEFINE e == [d EXCEPT !.stage = stage]
  <2>1. e = [task |-> d.task, version |-> d.version, previous |-> d.previous,
             stage |-> stage, unpause |-> d.unpause, done |-> d.done]
    BY AtStage
  <2> HIDE DEF e
  <2>2. e.task = d.task /\ e.previous = d.previous /\ e.unpause = d.unpause
    BY <2>1, Zenon
  <2>3. Unpaused(e) = Unpaused(d)
    BY <1>1, <2>2
  <2> QED
    BY <2>3 DEF e
<1>3. Unpaused([d EXCEPT !.stage = "final", !.done = TRUE]) = Unpaused(d)
  <2> DEFINE e == [d EXCEPT !.stage = "final", !.done = TRUE]
  <2>1. e = [task |-> d.task, version |-> d.version, previous |-> d.previous,
             stage |-> "final", unpause |-> d.unpause, done |-> TRUE]
    BY AtLast, Zenon
  <2> HIDE DEF e
  <2>2. e.task = d.task /\ e.previous = d.previous /\ e.unpause = d.unpause
    BY <2>1, Zenon
  <2>3. Unpaused(e) = Unpaused(d)
    BY <1>1, <2>2
  <2> QED
    BY <2>3 DEF e
<1> QED
  BY <1>2, <1>3

LEMMA PausedStays ==
    ASSUME PausedInv, NEW d, NEW rest, deploying' = (deploying \ {d}) \cup rest,
           \E e \in rest : Unpaused(e) = Unpaused(d), UNCHANGED paused
    PROVE  PausedInv'
<1>1. ASSUME NEW x \in paused PROVE \E e \in deploying' : x \in Unpaused(e)
  BY DEF PausedInv
<1> QED
  BY <1>1 DEF PausedInv, Unpaused

LEMMA PausedStep ==
    ASSUME ManagerType, PausedInv, [Next]_vars
    PROVE  PausedInv'
<1> USE DEF instances, tables, requested, counted
<1>1. CASE UNCHANGED <<deploying, paused>>
  BY <1>1 DEF PausedInv
<1>2. CASE RunDeploy
  <2> DEFINE task     == Head(executor)
             p        == task.path
             version  == IF task.version > 0 THEN task.version ELSE NextVersion(p)
             previous == applications[p]
             begun    == Deployment(task, version, previous, "building", previous # NoApp)
             refused  == Deployment(task, version, previous, "failing", FALSE)
  <2>1. \/ deploying' = deploying \cup {begun} /\ paused' = paused \cup Instance(p, previous)
        \/ deploying' = deploying \cup {refused} /\ UNCHANGED paused
    BY <1>2 DEF RunDeploy
  <2>2. Instance(p, previous) \subseteq Unpaused(begun)
    BY DEF Unpaused, Deployment, Instance
  <2> HIDE DEF begun, refused, previous, p
  <2> QED
    BY <2>1, <2>2 DEF PausedInv
<1>3. ASSUME NEW d \in deploying,
             Build(d) \/ Publish(d) \/ Report(d) \/ TellOk(d) \/ EndOk(d) \/ TellError(d)
      PROVE  PausedInv'
  <2>1. d \in Deployments /\ UNCHANGED paused
    BY <1>3 DEF ManagerType, Build, Publish, Report, TellOk, EndOk, TellError
  <2>2. PICK stage \in Stages : Goes(d, stage)
    BY <1>3 DEF Build, Publish, Report, TellOk, EndOk, TellError, Thrown, Stages
  <2> DEFINE next == [d EXCEPT !.stage = stage]
  <2>3. deploying' = (deploying \ {d}) \cup {next} /\ Unpaused(next) = Unpaused(d)
    BY <2>1, <2>2, UnpausesTheSame DEF Goes
  <2> HIDE DEF next
  <2> QED
    BY <2>1, <2>3, PausedStays
<1>4. ASSUME NEW d \in deploying, EndError(d) PROVE PausedInv'
  <2> DEFINE last == [d EXCEPT !.stage = "final", !.done = TRUE]
  <2>1. d \in Deployments /\ UNCHANGED paused
    BY <1>4 DEF ManagerType, EndError
  <2>2. /\ deploying' = (deploying \ {d}) \cup IF d.unpause THEN {last} ELSE {}
        /\ Unpaused(last) = Unpaused(d)
    BY <1>4, <2>1, UnpausesTheSame DEF EndError
  <2> HIDE DEF last
  <2>3. CASE d.unpause
    BY <2>1, <2>2, <2>3, PausedStays
  <2>4. CASE ~d.unpause
    <3>1. Unpaused(d) = {} /\ deploying' = deploying \ {d}
      BY <2>2, <2>4 DEF Unpaused
    <3> QED
      BY <2>1, <3>1 DEF PausedInv
  <2> QED
    BY <2>3, <2>4
<1>5. ASSUME NEW d \in deploying, Finally(d) PROVE PausedInv'
  <2>1. deploying' = deploying \ {d} /\ paused' = paused \ Unpaused(d)
    BY <1>5 DEF Finally
  <2> QED
    BY <2>1 DEF PausedInv
<1>6. CASE Restart
  <2>1. paused' = {}
    BY <1>6 DEF Restart
  <2> QED
    BY <2>1 DEF PausedInv
<1>7. CASE Operation \/ Tick \/ TakeNext \/ RunUpdateStatus \/ RunUndeploy \/ UNCHANGED vars
  <2>1. UNCHANGED <<deploying, paused>>
    BY <1>7 DEF Operation, Choose, Clear, Unpack, Submit, Delete, AskUndeploy, Tick, TakeNext,
                RunUpdateStatus, RunUndeploy, vars
  <2> QED
    BY <1>1, <2>1
<1> QED
  BY <1>2, <1>3, <1>4, <1>5, <1>6, <1>7 DEF Next, Manager, Deploys

-----------------------------------------------------------------------------
DeploymentInv == ManagerType /\ TurnInv /\ AnswerInv /\ PausedInv

LEMMA InitDeploymentInv == Init => DeploymentInv
<1> SUFFICES ASSUME Init PROVE DeploymentInv
  OBVIOUS
<1>1. ManagerType
  BY InitType
<1>2. executor = <<WaitForNextTask>> /\ deploying = {} /\ q = <<>> /\ paused = {}
  BY DEF Init
<1>3. TurnInv
  <2>1. Head(executor) = WaitForNextTask
    BY <1>2, OneElement
  <2> QED
    BY <1>2, <2>1 DEF TurnInv, Turn, DoneAreFinal, Unfinished
<1>4. AnswerInv
  <2>1. DOMAIN q = {} /\ \A i \in DOMAIN executor : executor[i] = WaitForNextTask
    BY <1>2
  <2>2. WaitForNextTask.op \notin Ops
    BY Numbers DEF WaitForNextTask, Task, Boot
  <2>3. ASSUME NEW o \in Ops PROVE AnswerOf(o)
    <3>1. ~InQueue(o) /\ ~Begins(o) /\ ~UnderWay(o)
      BY <1>2, <2>1, <2>2 DEF InQueue, Begins, UnderWay
    <3>2. answers[o] = <<>> /\ Len(answers[o]) = 0
      BY DEF Init
    <3> QED
      BY <3>1, <3>2 DEF AnswerOf
  <2> QED
    BY <2>1, <2>3 DEF AnswerInv
<1>5. PausedInv
  BY <1>2 DEF PausedInv
<1> QED
  BY <1>1, <1>3, <1>4, <1>5 DEF DeploymentInv

LEMMA DeploymentInvHolds == Spec => []DeploymentInv
<1>1. DeploymentInv /\ [Next]_vars => DeploymentInv'
  BY TypeStep, StepTurn, AnswerStep, PausedStep DEF DeploymentInv
<1> QED
  BY <1>1, InitDeploymentInv, PTL DEF Spec

(* A deploy operation is answered at most once, for every mixture of           *)
(* operations, failures after the answer, crashes and restarts.                *)
THEOREM AnswersAreSingle == Spec => []AnsweredOnce
<1>1. DeploymentInv => AnsweredOnce
  BY DEF DeploymentInv, AnswerInv, AnswerOf, AnsweredOnce
<1> QED
  BY <1>1, DeploymentInvHolds, PTL

(* When the manager has nothing to do no application is paused, however the    *)
(* deployments that paused it ended.                                           *)
THEOREM EveryPauseEnds == Spec => []NothingLeftPaused
<1>1. DeploymentInv => NothingLeftPaused
  BY DEF DeploymentInv, PausedInv, NothingLeftPaused, Idle
<1> QED
  BY <1>1, DeploymentInvHolds, PTL

-----------------------------------------------------------------------------
(* What is deployed.  When nothing throws after a build was answered (Calm),  *)
(* what runs, what statusFor answers and the version numbers agree with the   *)
(* applications the manager knows, for any number of operations that overlap  *)
(* on any paths and are refused or fail to build, and any number of restarts  *)
(* and crashes.  Without Calm they come apart: a trigger that throws leaves   *)
(* instances nobody knows, a report or a delete that throws leaves the old    *)
(* status or version.                                                         *)

\* a statement on what may happen, which no step changes
Calm == setting.faults \cap {"partial", "report", "delete"} = {}

\* without restarts every deployment numbers itself when it begins
Asked(t) == t.what = "deploy" => t.version = 0

AskedInv ==
    setting.restarts = 0 =>
        /\ \A i \in DOMAIN q : Asked(q[i])
        /\ \A i \in DOMAIN executor : Asked(executor[i])
        /\ \A d \in deploying : Asked(d.task)

Unbuilt == {"building", "built", "failing"}

\* what an operation deploys is not deployed before it is built
Unpublished(o) == \/ InQueue(o) \/ Begins(o)
                  \/ \E d \in deploying : d.task.op = o /\ d.stage \in Unbuilt

\* nor is what a restart deploys, which it does once
FromBoot(t)   == t.what = "deploy" /\ t.op = Boot
BootWaits(p)  == \E i \in DOMAIN q : FromBoot(q[i]) /\ q[i].path = p
BootBegins(p) == \E i \in DOMAIN executor : FromBoot(executor[i]) /\ executor[i].path = p
BootGoesOn(p) == \E d \in deploying : d.task.op = Boot /\ d.task.path = p /\ d.stage \in Unbuilt
Unstarted(p)  == BootWaits(p) \/ BootBegins(p) \/ BootGoesOn(p)

BootsOnce ==
    /\ \A i, j \in DOMAIN q : FromBoot(q[i]) /\ FromBoot(q[j]) /\ q[i].path = q[j].path => i = j
    /\ \A p \in Paths : BootWaits(p) => ~BootBegins(p) /\ ~BootGoesOn(p)

Known(p) == /\ applications[p].op = Boot => ~Unstarted(p)
            /\ applications[p].op \in Ops => /\ ops[applications[p].op].pc \in {"waiting", "ended"}
                                            /\ ~Unpublished(applications[p].op)

KnownInv == \A p \in Paths : applications[p] = NoApp \/ Known(p)

Settled == /\ running = Deployed
           /\ \A p \in Paths : status[p] = applications[p] /\ versions[p] = applications[p].version

\* how far the deployment that has the turn has come with running and the tables
Reached(d) ==
    LET p == d.task.path
    IN  /\ running = Deployed \cup IF d.stage = "built" THEN New(d) ELSE {}
        /\ \A r \in Paths : (r = p /\ d.stage = "published") \/ status[r] = applications[r]
        /\ \A r \in Paths : \/ r = p /\ d.stage \in {"published", "reported", "told"}
                            \/ versions[r] = applications[r].version
        /\ d.stage \in {"published", "reported", "told"} => applications[p] = NewApp(d)
        /\ d.stage \in {"building", "built"} =>
               d.previous = applications[p] /\ (d.task.version = 0 => d.version = versions[p] + 1)

TablesInv ==
    /\ AskedInv /\ BootsOnce /\ KnownInv
    /\ Unfinished = {} => Settled
    /\ \A d \in Unfinished : Reached(d)

CalmInv == DeploymentInv /\ (Calm => TablesInv)

-----------------------------------------------------------------------------
LEMMA MembersOfDeployed ==
    /\ \A x : x \in Deployed <=> \E p \in Paths : applications[p] # NoApp /\ x = <<p, applications[p].op>>
    /\ \A x : x \in Deployed' <=> \E p \in Paths : applications'[p] # NoApp /\ x = <<p, applications'[p].op>>
<1>1. ASSUME NEW p, NEW a, NEW x
      PROVE  x \in Instance(p, a) <=> a # NoApp /\ x = <<p, a.op>>
  BY DEF Instance
<1>2. /\ \A x : x \in Deployed <=> \E p \in Paths : x \in Instance(p, applications[p])
      /\ \A x : x \in Deployed' <=> \E p \in Paths : x \in Instance(p, applications'[p])
  BY DEF Deployed, Instance
<1> QED
  BY <1>1, <1>2

LEMMA SameDeployed ==
    ASSUME UNCHANGED applications
    PROVE  Deployed' = Deployed
BY DEF Deployed, Instance

\* steps that leave the tables, the instances and the deployments alone
LEMMA TablesStay ==
    ASSUME TablesInv, UNCHANGED <<tables, running, deploying>>
    PROVE  (Unfinished = {} => Settled)' /\ (\A d \in Unfinished : Reached(d))'
<1> USE DEF tables
<1>1. Unfinished' = Unfinished /\ Deployed' = Deployed
  BY SameDeployed DEF Unfinished
<1>2. Settled => Settled'
  BY <1>1 DEF Settled
<1>3. ASSUME NEW d, Reached(d) PROVE Reached(d)'
  BY <1>1, <1>3 DEF Reached
<1> QED
  BY <1>1, <1>2, <1>3 DEF TablesInv

\* of one application
LEMMA KnownThen ==
    ASSUME NEW p \in Paths, Known(p), applications'[p] = applications[p],
           \A o \in Ops : ops[o].pc \in {"waiting", "ended"} =>
               ops'[o].pc \in {"waiting", "ended"} /\ (Unpublished(o)' => Unpublished(o)),
           Unstarted(p)' => Unstarted(p)
    PROVE  Known(p)'
<1>1. applications'[p].op \in Ops => /\ ops'[applications'[p].op].pc \in {"waiting", "ended"}
                                     /\ ~Unpublished(applications[p].op)'
  <2> SUFFICES ASSUME NEW o \in Ops, o = applications[p].op
               PROVE  ops'[o].pc \in {"waiting", "ended"} /\ ~Unpublished(o)'
    BY DEF Unpublished, InQueue, Begins
  <2> QED
    BY DEF Known
<1> QED
  BY <1>1 DEF Known, Unpublished, InQueue, Begins

LEMMA KnownStays ==
    ASSUME KnownInv, UNCHANGED applications,
           \A o \in Ops : ops[o].pc \in {"waiting", "ended"} =>
               ops'[o].pc \in {"waiting", "ended"} /\ (Unpublished(o)' => Unpublished(o)),
           \A p \in Paths : Unstarted(p)' => Unstarted(p)
    PROVE  KnownInv'
<1> SUFFICES ASSUME NEW p \in Paths, applications[p] # NoApp PROVE Known(p)'
  BY DEF KnownInv
<1>1. Known(p) /\ applications'[p] = applications[p]
  BY DEF KnownInv
<1> QED
  BY <1>1, KnownThen

\* what is taken from the executor goes on
LEMMA BootsStay ==
    ASSUME BootsOnce, UNCHANGED q,
           \A p \in Paths : /\ BootBegins(p)' => BootBegins(p)
                            /\ BootGoesOn(p)' => BootGoesOn(p) \/ BootBegins(p)
    PROVE  BootsOnce' /\ \A p \in Paths : Unstarted(p)' => Unstarted(p)
<1>1. \A p \in Paths : BootWaits(p)' = BootWaits(p)
  BY DEF BootWaits, FromBoot
<1>2. \A i, j \in DOMAIN q' : FromBoot(q'[i]) /\ FromBoot(q'[j]) /\ q'[i].path = q'[j].path => i = j
  BY DEF BootsOnce
<1>3. \A p \in Paths : BootWaits(p)' => ~BootBegins(p)' /\ ~BootGoesOn(p)'
  BY <1>1 DEF BootsOnce
<1> QED
  BY <1>1, <1>2, <1>3 DEF BootsOnce, Unstarted, FromBoot

LEMMA BootsPush ==
    ASSUME ManagerType, BootsOnce, NEW t \in KnownTasks, ~FromBoot(t), Push(t),
           UNCHANGED <<executor, deploying>>
    PROVE  BootsOnce' /\ \A p \in Paths : Unstarted(p)' => Unstarted(p)
<1>1. q \in Seq(KnownTasks) /\ q' = <<t>> \o q
  BY DEF ManagerType, Push
<1>2. /\ DOMAIN q' = 1 .. Len(q) + 1 /\ DOMAIN q = 1 .. Len(q) /\ Len(q) \in Nat
      /\ q'[1] = t /\ \A i \in 2 .. Len(q) + 1 : q'[i] = q[i - 1]
  BY <1>1
<1>3. \A i \in DOMAIN q' : FromBoot(q'[i]) => i - 1 \in DOMAIN q /\ q'[i] = q[i - 1] /\ i \in Nat
  BY <1>2
<1>4. \A p \in Paths : BootWaits(p)' => BootWaits(p)
  <2> SUFFICES ASSUME NEW p \in Paths, NEW i \in DOMAIN q', FromBoot(q'[i]), q'[i].path = p
               PROVE  BootWaits(p)
    BY DEF BootWaits, FromBoot
  <2> QED
    BY <1>3 DEF BootWaits
<1>5. \A p \in Paths : /\ BootBegins(p)' = BootBegins(p) /\ BootGoesOn(p)' = BootGoesOn(p)
  BY DEF BootBegins, BootGoesOn, FromBoot
<1>6. ASSUME NEW i \in DOMAIN q', NEW j \in DOMAIN q', FromBoot(q'[i]), FromBoot(q'[j]),
             q'[i].path = q'[j].path
      PROVE  i = j
  <2>1. i - 1 = j - 1
    BY <1>3, <1>6 DEF BootsOnce
  <2> QED
    BY <1>3, <1>6, <2>1
<1>7. \A p \in Paths : BootWaits(p)' => ~BootBegins(p)' /\ ~BootGoesOn(p)'
  BY <1>4, <1>5 DEF BootsOnce
<1> QED
  BY <1>4, <1>5, <1>6, <1>7 DEF BootsOnce, Unstarted, FromBoot

LEMMA AskedPush ==
    ASSUME ManagerType, NEW t \in KnownTasks, Asked(t), Push(t), AskedInv,
           UNCHANGED <<executor, deploying, setting>>
    PROVE  AskedInv'
<1> SUFFICES ASSUME setting.restarts = 0 PROVE \A i \in DOMAIN q' : Asked(q'[i])
  BY DEF AskedInv
<1>1. q \in Seq(KnownTasks) /\ q' = <<t>> \o q
  BY DEF ManagerType, Push
<1>2. \A i \in DOMAIN q' : q'[i] = t \/ \E j \in DOMAIN q : q'[i] = q[j]
  <2>1. /\ DOMAIN q' = 1 .. Len(q) + 1 /\ DOMAIN q = 1 .. Len(q) /\ Len(q) \in Nat
        /\ q'[1] = t /\ \A i \in 2 .. Len(q) + 1 : q'[i] = q[i - 1]
    BY <1>1
  <2>2. \A i \in DOMAIN q' : i = 1 \/ (i - 1 \in DOMAIN q /\ q'[i] = q[i - 1])
    BY <2>1
  <2> QED
    BY <2>1, <2>2
<1> QED
  BY <1>2 DEF AskedInv

\* a push of the operation o, or of nobody
LEMMA PushedUnpublished ==
    ASSUME ManagerType, AnswerInv, NEW t \in KnownTasks, Push(t), UNCHANGED <<executor, deploying>>,
           t.op \in Ops => ~InQueue(t.op)
    PROVE  \A o : Unpublished(o)' => Unpublished(o) \/ t.op = o
<1>1. \A i, j \in DOMAIN q : q[i].op = q[j].op /\ q[i].op \in Ops => i = j
  BY DEF AnswerInv
<1>2. \A o : InQueue(o)' => InQueue(o) \/ t.op = o
  BY <1>1, QueuePush
<1>3. \A o : Begins(o)' => Begins(o)
  BY DEF Begins
<1> QED
  BY <1>2, <1>3 DEF Unpublished

LEMMA OperationTables ==
    ASSUME DeploymentInv, TablesInv, Operation
    PROVE  TablesInv'
<1> USE DEF instances, tables, requested, counted
<1> PICK o \in Ops : Choose(o) \/ Clear(o) \/ Unpack(o) \/ Submit(o) \/ Delete(o) \/ AskUndeploy(o)
  BY DEF Operation
<1>1. UNCHANGED <<executor, deploying, tables, running, setting>>
  BY DEF Choose, Clear, Unpack, Submit, Delete, AskUndeploy
<1>2. ManagerType /\ AnswerInv /\ ops \in [Ops -> [pc : PCs, path : Paths \cup {0}, version : Nat]]
  BY DEF DeploymentInv, ManagerType
<1>3. \A p \in Ops \ {o} : ops'[p] = ops[p]
  BY <1>2 DEF Choose, Clear, Unpack, Submit, Delete, AskUndeploy
<1>4. ops[o].pc \in {"idle", "chosen", "cleared", "unpacked", "deleted"}
  BY DEF Choose, Clear, Unpack, Submit, Delete, AskUndeploy, MayStart
<1>5. ~InQueue(o)
  BY <1>2, <1>4 DEF AnswerInv, AnswerOf
<1>6. \/ UNCHANGED q
      \/ \E t \in KnownTasks : Push(t) /\ Asked(t) /\ t.op \in {o, Boot} /\ ~FromBoot(t)
  <2>1. CASE Choose(o) \/ Clear(o) \/ Unpack(o) \/ Delete(o)
    BY <2>1 DEF Choose, Clear, Unpack, Delete
  <2>2. CASE AskUndeploy(o)
    <3>1. ops[o].path \in Paths
      BY <1>2, <2>2 DEF AskUndeploy, ManagerType, AtWork
    <3>2. Undeploy(ops[o].path) \in KnownTasks
      BY <3>1 DEF Undeploy, Task, KnownTasks, UndeployTasks, Boot
    <3>3. Asked(Undeploy(ops[o].path)) /\ Undeploy(ops[o].path).op = Boot
          /\ ~FromBoot(Undeploy(ops[o].path))
      BY DEF Undeploy, Task, Asked, Boot, FromBoot
    <3> QED
      BY <2>2, <3>2, <3>3 DEF AskUndeploy
  <2>3. CASE Submit(o)
    <3> DEFINE config == disk[ops[o].path][ops[o].version]
               t == Task("deploy", ops[o].path, 0, config, o)
    <3>1. ops[o].path \in Paths
      BY <1>2, <2>3 DEF Submit, ManagerType, AtWork
    <3>2. UNCHANGED q \/ (config \in Ops /\ Push(t))
      BY <2>3 DEF Submit
    <3>3. config \in Ops => t \in KnownTasks
      BY <3>1 DEF Task, KnownTasks, DeployTasks
    <3>4. Asked(t) /\ t.op = o /\ ~FromBoot(t)
      BY Numbers DEF Task, Asked, FromBoot
    <3> HIDE DEF t, config
    <3> QED
      BY <3>2, <3>3, <3>4
  <2> QED
    BY <2>1, <2>2, <2>3
<1>7. /\ AskedInv' /\ \A p \in Ops \ {o} : Unpublished(p)' => Unpublished(p)
      /\ BootsOnce' /\ \A p \in Paths : Unstarted(p)' => Unstarted(p)
  <2>1. CASE UNCHANGED q
    <3>1. \A p : BootBegins(p)' = BootBegins(p) /\ BootGoesOn(p)' = BootGoesOn(p)
      BY <1>1 DEF BootBegins, BootGoesOn, FromBoot
    <3> QED
      BY <1>1, <2>1, <3>1, BootsStay DEF TablesInv, AskedInv, Unpublished, InQueue, Begins
  <2>2. CASE \E t \in KnownTasks : Push(t) /\ Asked(t) /\ t.op \in {o, Boot} /\ ~FromBoot(t)
    <3> PICK t \in KnownTasks : Push(t) /\ Asked(t) /\ t.op \in {o, Boot} /\ ~FromBoot(t)
      BY <2>2
    <3>1. AskedInv'
      BY <1>1, <1>2, AskedPush DEF TablesInv
    <3>2. t.op \in Ops => ~InQueue(t.op)
      BY <1>5, Numbers
    <3>3. \A p : Unpublished(p)' => Unpublished(p) \/ t.op = p
      BY <1>1, <1>2, <3>2, PushedUnpublished
    <3>4. BootsOnce' /\ \A p \in Paths : Unstarted(p)' => Unstarted(p)
      BY <1>1, <1>2, BootsPush DEF TablesInv
    <3> QED
      BY <3>1, <3>3, <3>4, Numbers
  <2> QED
    BY <1>6, <2>1, <2>2
<1>8. KnownInv'
  BY <1>1, <1>3, <1>4, <1>7, KnownStays DEF TablesInv
<1> QED
  BY <1>1, <1>7, <1>8, TablesStay DEF TablesInv

LEMMA TickTables ==
    ASSUME DeploymentInv, TablesInv, Tick
    PROVE  TablesInv'
<1> USE DEF instances, tables, requested
<1>1. UNCHANGED <<ops, executor, deploying, tables, running, setting>> /\ Push(UpdateStatus)
  BY DEF Tick
<1>2. /\ Asked(UpdateStatus) /\ UpdateStatus.op = Boot /\ UpdateStatus \in KnownTasks
      /\ ~FromBoot(UpdateStatus)
  <2>1. Asked(UpdateStatus) /\ UpdateStatus.op = Boot /\ ~FromBoot(UpdateStatus)
    BY DEF UpdateStatus, Task, Asked, Boot, FromBoot
  <2> QED
    BY <2>1, SmallKnown
<1>3. ManagerType /\ AnswerInv
  BY DEF DeploymentInv
<1> HIDE DEF UpdateStatus
<1>4. AskedInv'
  BY <1>1, <1>2, <1>3, AskedPush DEF TablesInv
<1>5. UpdateStatus.op \notin Ops
  BY <1>2, Numbers
<1>6. \A p : Unpublished(p)' => Unpublished(p) \/ UpdateStatus.op = p
  BY <1>1, <1>2, <1>3, <1>5, PushedUnpublished
<1>7. BootsOnce' /\ \A p \in Paths : Unstarted(p)' => Unstarted(p)
  BY <1>1, <1>2, <1>3, BootsPush DEF TablesInv
<1>8. KnownInv'
  BY <1>1, <1>5, <1>6, <1>7, KnownStays DEF TablesInv
<1> QED
  BY <1>1, <1>4, <1>7, <1>8, TablesStay DEF TablesInv

\* what the manager thread runs it runs when no deployment has the turn
LEMMA ManagerRuns ==
    ASSUME DeploymentInv, TablesInv, Manager
    PROVE  /\ executor = <<Head(executor)>> /\ Unfinished = {} /\ Settled
           /\ DOMAIN executor = {1} /\ executor[1] = Head(executor)
           /\ setting.restarts = 0 => Asked(Head(executor))
           /\ UNCHANGED <<requested, setting>>
<1>1. executor = <<Head(executor)>> /\ Unfinished = {}
  BY DEF Manager, TakeNext, RunUpdateStatus, RunUndeploy, RunDeploy, Runs, DeploymentInv, TurnInv, Turn
<1>2. DOMAIN executor = {1} /\ executor[1] = Head(executor)
  <2>1. <<Head(executor)>>[1] = Head(executor) /\ DOMAIN <<Head(executor)>> = {1}
    OBVIOUS
  <2> QED
    BY <1>1, <2>1
<1>3. UNCHANGED <<requested, setting>>
  BY DEF Manager, TakeNext, RunUpdateStatus, RunUndeploy, RunDeploy, counted
<1> QED
  BY <1>1, <1>2, <1>3 DEF TablesInv, AskedInv

LEMMA TakeTables ==
    ASSUME DeploymentInv, TablesInv, TakeNext
    PROVE  TablesInv'
<1> USE DEF instances, tables, requested
<1>1. /\ executor = <<Head(executor)>> /\ UNCHANGED <<ops, deploying, tables, running, setting>>
      /\ q # <<>> /\ q' = Tail(q) /\ executor' = Append(Tail(executor), Head(q))
  BY ManagerRuns DEF TakeNext, Manager
<1>2. /\ ManagerType /\ q \in Seq(KnownTasks)
      /\ \A i, j \in DOMAIN q : q[i].op = q[j].op /\ q[i].op \in Ops => i = j
  BY DEF DeploymentInv, ManagerType, AnswerInv
<1>3. executor' = <<Head(q)>>
  BY <1>1, OneElement
<1>4. DOMAIN executor' = {1} /\ executor'[1] = Head(q)
  <2>1. <<Head(q)>>[1] = Head(q) /\ DOMAIN <<Head(q)>> = {1}
    OBVIOUS
  <2> QED
    BY <1>3, <2>1
<1>5. /\ 1 \in DOMAIN q /\ Head(q) = q[1]
      /\ \A i \in DOMAIN q' : i + 1 \in DOMAIN q /\ q'[i] = q[i + 1]
  BY <1>1, <1>2
<1>6. AskedInv'
  <2> SUFFICES ASSUME setting.restarts = 0 PROVE AskedInv'
    BY <1>1 DEF AskedInv
  <2>1. \A i \in DOMAIN q : Asked(q[i])
    BY DEF TablesInv, AskedInv
  <2>2. \A i \in DOMAIN q' : Asked(q'[i])
    BY <1>5, <2>1
  <2>3. \A i \in DOMAIN executor' : Asked(executor'[i])
    BY <1>4, <1>5, <2>1
  <2> QED
    BY <1>1, <2>2, <2>3 DEF TablesInv, AskedInv
<1>7. \A o \in Ops : Unpublished(o)' => Unpublished(o)
  <2>1. \A o : InQueue(o)' => InQueue(o)
    BY <1>1, <1>2, QueueTake
  <2>2. \A o : Begins(o)' => InQueue(o)
    BY <1>4, <1>5 DEF Begins, InQueue
  <2> QED
    BY <1>1, <2>1, <2>2 DEF Unpublished
<1>8. BootsOnce' /\ \A p \in Paths : Unstarted(p)' => Unstarted(p)
  <2>1. /\ \A i \in DOMAIN q' : i + 1 \in DOMAIN q /\ q'[i] = q[i + 1] /\ i \in Nat /\ i + 1 # 1
        /\ \A i, j \in DOMAIN q : FromBoot(q[i]) /\ FromBoot(q[j]) /\ q[i].path = q[j].path => i = j
    BY <1>1, <1>2 DEF TablesInv, BootsOnce
  <2>2. \A p \in Paths : /\ BootWaits(p)' => BootWaits(p)
                         /\ BootBegins(p)' => BootWaits(p) /\ ~BootWaits(p)'
                         /\ BootGoesOn(p)' = BootGoesOn(p)
    <3> SUFFICES ASSUME NEW p \in Paths
                 PROVE  /\ BootWaits(p)' => BootWaits(p)
                        /\ BootBegins(p)' => BootWaits(p) /\ ~BootWaits(p)'
                        /\ BootGoesOn(p)' = BootGoesOn(p)
      OBVIOUS
    <3>1. BootWaits(p)' => \E i \in DOMAIN q : i # 1 /\ FromBoot(q[i]) /\ q[i].path = p
      BY <2>1 DEF BootWaits, FromBoot
    <3>2. BootBegins(p)' => FromBoot(q[1]) /\ q[1].path = p
      BY <1>4, <1>5 DEF BootBegins, FromBoot
    <3>3. BootGoesOn(p)' = BootGoesOn(p)
      BY <1>1 DEF BootGoesOn
    <3> QED
      BY <1>5, <2>1, <3>1, <3>2, <3>3 DEF BootWaits
  <2>3. ASSUME NEW i \in DOMAIN q', NEW j \in DOMAIN q', FromBoot(q'[i]), FromBoot(q'[j]),
               q'[i].path = q'[j].path
        PROVE  i = j
    <3>1. i + 1 = j + 1
      BY <2>1, <2>3
    <3> QED
      BY <2>1, <3>1
  <2>4. \A p \in Paths : BootWaits(p)' => ~BootBegins(p)' /\ ~BootGoesOn(p)'
    BY <2>2 DEF TablesInv, BootsOnce
  <2> QED
    BY <2>2, <2>3, <2>4 DEF BootsOnce, Unstarted, FromBoot
<1>9. KnownInv'
  BY <1>1, <1>7, <1>8, KnownStays DEF TablesInv
<1> QED
  BY <1>1, <1>6, <1>8, <1>9, TablesStay DEF TablesInv

\* the executor after a task that ended there
LEMMA EndedTask ==
    ASSUME DeploymentInv, TablesInv, Manager, EndTask, UNCHANGED <<q, deploying>>
    PROVE  /\ AskedInv' /\ \A o \in Ops : Unpublished(o)' => Unpublished(o)
           /\ BootsOnce' /\ \A p \in Paths : Unstarted(p)' => Unstarted(p)
<1>1. executor' = <<WaitForNextTask>>
  BY ManagerRuns, OneElement DEF EndTask
<1>2. \A i \in DOMAIN executor' : executor'[i] = WaitForNextTask
  BY <1>1
<1>3. Asked(WaitForNextTask) /\ WaitForNextTask.op \notin Ops /\ ~FromBoot(WaitForNextTask)
  BY Numbers DEF WaitForNextTask, Task, Asked, Boot, FromBoot
<1>4. AskedInv'
  BY <1>2, <1>3, ManagerRuns DEF TablesInv, AskedInv
<1>5. \A o \in Ops : Unpublished(o)' => Unpublished(o)
  BY <1>2, <1>3 DEF Unpublished, InQueue, Begins
<1>6. \A p \in Paths : ~BootBegins(p)' /\ BootGoesOn(p)' = BootGoesOn(p)
  BY <1>2, <1>3 DEF BootBegins, BootGoesOn, FromBoot
<1> QED
  BY <1>4, <1>5, <1>6, BootsStay DEF TablesInv

LEMMA StatusTables ==
    ASSUME DeploymentInv, Calm, TablesInv, RunUpdateStatus
    PROVE  TablesInv'
<1> USE DEF instances, tables, requested, counted
<1>1. Unfinished = {} /\ Settled
  BY ManagerRuns DEF Manager
<1>2. UNCHANGED <<ops, q, deploying, applications, versions, running>> /\ EndTask
  BY <1>1 DEF RunUpdateStatus
<1>3. /\ AskedInv' /\ \A o \in Ops : Unpublished(o)' => Unpublished(o)
      /\ BootsOnce' /\ \A p \in Paths : Unstarted(p)' => Unstarted(p)
  BY <1>2, EndedTask DEF Manager
<1>4. KnownInv'
  BY <1>2, <1>3, KnownStays DEF TablesInv
<1>5. \A p \in Paths : status'[p] = applications[p]
  BY <1>1 DEF RunUpdateStatus, Calm, May, Settled
<1>6. Settled'
  BY <1>1, <1>2, <1>5, SameDeployed DEF Settled
<1>7. Unfinished' = {}
  BY <1>1, <1>2 DEF Unfinished
<1> QED
  BY <1>3, <1>4, <1>6, <1>7 DEF TablesInv

LEMMA UndeployTables ==
    ASSUME DeploymentInv, TablesInv, RunUndeploy
    PROVE  TablesInv'
<1> USE DEF instances, tables, requested, counted
<1> DEFINE p == Head(executor).path
<1>1. Unfinished = {} /\ Settled
  BY ManagerRuns DEF Manager
<1>2. UNCHANGED <<ops, q, deploying>> /\ EndTask
  BY DEF RunUndeploy
<1>3. /\ AskedInv' /\ \A o \in Ops : Unpublished(o)' => Unpublished(o)
      /\ BootsOnce' /\ \A r \in Paths : Unstarted(r)' => Unstarted(r)
  BY <1>2, EndedTask DEF Manager
<1>4. Unfinished' = {}
  BY <1>1, <1>2 DEF Unfinished
<1>5. CASE UNCHANGED <<tables, running>>
  <2>1. KnownInv'
    BY <1>2, <1>3, <1>5, KnownStays DEF TablesInv
  <2> QED
    BY <1>2, <1>3, <1>5, <2>1, TablesStay DEF TablesInv
<1>6. CASE Forget(p) /\ running' = running \ Instance(p, applications[p]) /\ applications[p] # NoApp
  <2>1. p \in Paths
    BY DeployIsDeploy, ExecutorStep, SmallKnown DEF DeploymentInv, ManagerType, RunUndeploy, Runs
  <2>2. /\ applications \in [Paths -> Apps] /\ status \in [Paths -> Apps] /\ versions \in [Paths -> Nat]
    BY DEF DeploymentInv, ManagerType
  <2> HIDE DEF p
  <2>3. /\ applications'[p] = NoApp /\ status'[p] = NoApp /\ versions'[p] = 0
        /\ \A r \in Paths \ {p} : /\ applications'[r] = applications[r] /\ status'[r] = status[r]
                                  /\ versions'[r] = versions[r]
    BY <1>6, <2>1, <2>2 DEF Forget
  <2>4. NoApp.version = 0
    BY DEF NoApp, App
  <2>5. running' = Deployed'
    <3>1. \A x : x \in running' <=> x \in Deployed /\ x # <<p, applications[p].op>>
      BY <1>1, <1>6 DEF Settled, Instance
    <3>2. \A x : x \in running' <=> \E r \in Paths : applications'[r] # NoApp /\ x = <<r, applications'[r].op>>
      BY <2>1, <2>3, <3>1, MembersOfDeployed
    <3>3. \A x : x \in running' <=> x \in Deployed'
      BY <3>2, MembersOfDeployed
    <3> QED
      BY <3>3
  <2>6. Settled'
    BY <1>1, <2>3, <2>4, <2>5 DEF Settled
  <2>7. KnownInv'
    <3> SUFFICES ASSUME NEW r \in Paths, applications'[r] # NoApp PROVE Known(r)'
      BY DEF KnownInv
    <3>1. applications'[r] = applications[r] /\ Known(r)
      BY <2>3 DEF TablesInv, KnownInv
    <3> QED
      BY <1>2, <1>3, <3>1, KnownThen
  <2> QED
    BY <1>3, <1>4, <2>6, <2>7 DEF TablesInv
<1> QED
  BY <1>5, <1>6 DEF RunUndeploy

LEMMA BeginTables ==
    ASSUME DeploymentInv, TablesInv, RunDeploy
    PROVE  TablesInv'
<1> USE DEF instances, tables, requested, counted
<1> DEFINE task == Head(executor)
           p    == task.path
<1>1. /\ executor = <<task>> /\ Unfinished = {} /\ Settled
      /\ setting.restarts = 0 => Asked(task)
      /\ DOMAIN executor = {1} /\ executor[1] = task
  BY ManagerRuns DEF Manager
<1>2. UNCHANGED <<ops, q, tables, running, setting>> /\ executor' = <<>>
  BY <1>1, OneElement DEF RunDeploy
<1>3. /\ task \in DeployTasks /\ p \in Paths /\ task.version \in Nat /\ task.op \in Ops \cup {Boot}
      /\ task.what = "deploy"
  BY <1>1, DeployIsDeploy, ExecutorStep, SmallKnown
     DEF DeploymentInv, ManagerType, RunDeploy, Runs, DeployTasks
<1> DEFINE version == IF task.version > 0 THEN task.version ELSE NextVersion(p)
<1>4. PICK stage \in {"building", "failing"} : \E unpause :
         deploying' = deploying \cup {Deployment(task, version, applications[p], stage, unpause)}
  <2> DEFINE Begun(stage, unpause) ==
                 deploying' = deploying \cup
                     {Deployment(task, version, applications[p], stage, unpause)}
  <2>1. Begun("building", applications[p] # NoApp) \/ Begun("failing", FALSE)
    BY DEF RunDeploy
  <2> HIDE DEF version, task
  <2> QED
    BY <2>1
<1>5. PICK new : /\ \E unpause : new = Deployment(task, version, applications[p], stage, unpause)
                 /\ deploying' = deploying \cup {new}
  BY <1>4
<1>6. /\ new.task = task /\ (task.version = 0 => new.version = versions[p] + 1)
      /\ new.previous = applications[p] /\ new.stage = stage /\ ~new.done
  BY <1>5 DEF Deployment, NextVersion
<1>7. deploying' = deploying \cup {new}
  BY <1>5
<1>8. PICK o \in Ops \cup {Boot}, r \in Paths : o = task.op /\ r = p
  BY <1>3
<1> HIDE DEF task, p, version
<1>9. Unfinished' = {new}
  BY <1>1, <1>6, <1>7 DEF Unfinished
<1>10. AskedInv'
  BY <1>1, <1>2, <1>6, <1>7 DEF TablesInv, AskedInv
<1>11. /\ \A e \in Ops : Unpublished(e)' => Unpublished(e)
       /\ BootsOnce' /\ \A e \in Paths : Unstarted(e)' => Unstarted(e)
  <2>1. \A e \in Ops : Unpublished(e)' => Unpublished(e)
    BY <1>1, <1>2, <1>6, <1>7, <1>8 DEF Unpublished, InQueue, Begins
  <2>2. \A e \in Paths : ~BootBegins(e)'
    BY <1>2 DEF BootBegins
  <2>3. ASSUME NEW e \in Paths, BootGoesOn(e)' PROVE BootGoesOn(e) \/ BootBegins(e)
    <3>1. BootGoesOn(e) \/ (new.task.op = Boot /\ new.task.path = e)
      BY <1>7, <2>3 DEF BootGoesOn
    <3>2. new.task.op = Boot /\ new.task.path = e => BootBegins(e)
      BY <1>1, <1>3, <1>6 DEF BootBegins, FromBoot, p
    <3> QED
      BY <3>1, <3>2
  <2> QED
    BY <1>2, <2>1, <2>2, <2>3, BootsStay DEF TablesInv
<1>12. KnownInv'
  BY <1>2, <1>11, KnownStays DEF TablesInv
<1>13. Reached(new)'
  <2>1. Deployed' = Deployed /\ r = new.task.path /\ new.stage \in {"building", "failing"}
    BY <1>2, <1>4, <1>6, <1>8, SameDeployed DEF p
  <2>2. /\ running' = Deployed' /\ \A e \in Paths : /\ status'[e] = applications'[e]
                                                    /\ versions'[e] = applications'[e].version
    BY <1>1, <1>2, <2>1 DEF Settled
  <2>3. new.previous = applications'[r] /\ (new.task.version = 0 => new.version = versions'[r] + 1)
    BY <1>2, <1>6, <1>8
  <2> QED
    BY <2>1, <2>2, <2>3 DEF Reached
<1> QED
  BY <1>9, <1>10, <1>11, <1>12, <1>13 DEF TablesInv

\* a deployment that is not at its end, before and after it goes on
LEMMA GoesOn ==
    ASSUME DeploymentInv, TablesInv, NEW d \in deploying, d.stage # "final",
           NEW stage \in Stages, Goes(d, stage)
    PROVE  \E next :
             /\ Unfinished = {d} /\ Unfinished' = {next} /\ deploying' = (deploying \ {d}) \cup {next}
             /\ next.task = d.task /\ next.version = d.version /\ next.previous = d.previous
             /\ next.stage = stage /\ Reached(d) /\ d.task.op \in Ops \cup {Boot} /\ d.task.path \in Paths
             /\ \A e \in deploying' \ {next} : e.stage = "final"
<1>1. d \in Deployments /\ ~d.done /\ d.task.op \in Ops \cup {Boot} /\ d.task.path \in Paths
  BY DEF DeploymentInv, ManagerType, TurnInv, DoneAreFinal, IsDeployment, Deployments, DeployTasks
<1>2. Unfinished = {d} /\ Reached(d)
  BY <1>1, HasTheTurn DEF DeploymentInv, TablesInv, Unfinished
<1> DEFINE next == [d EXCEPT !.stage = stage]
<1>3. next = [task |-> d.task, version |-> d.version, previous |-> d.previous,
              stage |-> stage, unpause |-> d.unpause, done |-> d.done]
  BY <1>1, AtStage
<1>4. deploying' = (deploying \ {d}) \cup {next}
  BY DEF Goes
<1> HIDE DEF next
<1>5. /\ next.task = d.task /\ next.version = d.version /\ next.previous = d.previous
      /\ next.stage = stage /\ next.done = d.done
  BY <1>3, Zenon
<1>6. \A e \in deploying \ {d} : e.done /\ e.stage = "final"
  BY <1>2 DEF Unfinished, DeploymentInv, TurnInv, DoneAreFinal
<1>7. Unfinished' = {next}
  BY <1>1, <1>4, <1>5, <1>6 DEF Unfinished
<1> QED
  BY <1>1, <1>2, <1>4, <1>5, <1>6, <1>7

LEMMA ExecutorGrows ==
    ASSUME ManagerType, UNCHANGED executor \/ executor' = Append(executor, WaitForNextTask)
    PROVE  \A i \in DOMAIN executor' : executor'[i] = WaitForNextTask
                                      \/ (i \in DOMAIN executor /\ executor'[i] = executor[i])
<1>1. executor \in Seq(KnownTasks) /\ WaitForNextTask \in KnownTasks
  BY SmallKnown DEF ManagerType
<1> HIDE DEF WaitForNextTask
<1>2. CASE executor' = Append(executor, WaitForNextTask)
  BY <1>1, <1>2
<1> QED
  BY <1>2

\* of what a deployment may do only publishing changes what is known to the manager
LEMMA DeployKnown ==
    ASSUME DeploymentInv, TablesInv, NEW d \in deploying, NEW next,
           next.task = d.task, UNCHANGED setting,
           deploying' = (deploying \ {d}) \cup {next}, UNCHANGED <<q, applications>>,
           UNCHANGED executor \/ executor' = Append(executor, WaitForNextTask),
           next.stage \in Unbuilt => d.stage \in Unbuilt,
           \A o \in Ops : ops[o].pc \in {"waiting", "ended"} => ops'[o].pc \in {"waiting", "ended"}
    PROVE  AskedInv' /\ BootsOnce' /\ KnownInv'
<1>1. \A o \in Ops : Begins(o)' => Begins(o)
  <2>1. CASE UNCHANGED executor
    BY <2>1 DEF Begins
  <2>2. CASE executor' = Append(executor, WaitForNextTask)
    BY <2>2, NobodyBegins DEF DeploymentInv
  <2> QED
    BY <2>1, <2>2
<1>2. \A o \in Ops : Unpublished(o)' => Unpublished(o)
  BY <1>1 DEF Unpublished, InQueue
<1>3. \A i \in DOMAIN executor' : executor'[i] = WaitForNextTask
                                  \/ (i \in DOMAIN executor /\ executor'[i] = executor[i])
  BY ExecutorGrows DEF DeploymentInv
<1>4. Asked(WaitForNextTask) /\ ~FromBoot(WaitForNextTask)
  BY DEF WaitForNextTask, Task, Asked, FromBoot
<1> HIDE DEF WaitForNextTask
<1>5. \A p \in Paths : BootBegins(p)' => BootBegins(p)
  BY <1>3, <1>4 DEF BootBegins, FromBoot
<1>6. \A p \in Paths : BootGoesOn(p)' => BootGoesOn(p)
  BY DEF BootGoesOn
<1>7. BootsOnce' /\ \A p \in Paths : Unstarted(p)' => Unstarted(p)
  BY <1>5, <1>6, BootsStay DEF TablesInv
<1>8. KnownInv'
  BY <1>2, <1>7, KnownStays DEF TablesInv
<1>9. AskedInv'
  <2> SUFFICES ASSUME setting.restarts = 0 PROVE AskedInv'
    BY DEF AskedInv
  <2>1. /\ \A i \in DOMAIN q : Asked(q[i])
        /\ \A i \in DOMAIN executor : Asked(executor[i])
        /\ \A e \in deploying : Asked(e.task)
    BY DEF TablesInv, AskedInv
  <2>2. \A i \in DOMAIN executor' : Asked(executor'[i])
    BY <1>3, <1>4, <2>1
  <2>3. \A e \in deploying' : Asked(e.task)
    BY <2>1
  <2> QED
    BY <2>1, <2>2, <2>3 DEF AskedInv
<1> QED
  BY <1>7, <1>8, <1>9

LEMMA BuildTables ==
    ASSUME DeploymentInv, Calm, TablesInv, NEW d \in deploying, Build(d)
    PROVE  TablesInv'
<1> USE DEF instances, tables, requested, counted
<1>1. d.stage = "building" /\ UNCHANGED <<ops, q, executor, applications, status, versions, setting>>
  BY DEF Build
<1>2. \/ Goes(d, "built") /\ running' = running \cup New(d)
      \/ Goes(d, "failing") /\ UNCHANGED running
  BY DEF Build, Calm, May
<1>3. PICK stage \in {"built", "failing"} :
         Goes(d, stage) /\ running' = running \cup IF stage = "built" THEN New(d) ELSE {}
  BY <1>2
<1>4. stage \in Stages /\ d.stage # "final"
  BY <1>1 DEF Stages
<1>5. PICK next :
         /\ Unfinished = {d} /\ Unfinished' = {next} /\ deploying' = (deploying \ {d}) \cup {next}
         /\ next.task = d.task /\ next.version = d.version /\ next.previous = d.previous
         /\ next.stage = stage /\ Reached(d) /\ d.task.path \in Paths
  BY <1>3, <1>4, GoesOn
<1>6. AskedInv' /\ BootsOnce' /\ KnownInv'
  BY <1>1, <1>5, DeployKnown DEF Unbuilt
<1>7. Reached(next)'
  <2>1. Deployed' = Deployed /\ New(next) = New(d)
    BY <1>1, <1>5, SameDeployed DEF New, NewApp
  <2>2. running' = Deployed' \cup IF next.stage = "built" THEN New(next) ELSE {}
    BY <1>1, <1>3, <1>5, <2>1 DEF Reached
  <2>3. \A r \in Paths : status'[r] = applications'[r] /\ versions'[r] = applications'[r].version
    BY <1>1, <1>5 DEF Reached
  <2>4. /\ d.previous = applications'[d.task.path]
        /\ d.task.version = 0 => d.version = versions'[d.task.path] + 1
    BY <1>1, <1>5 DEF Reached
  <2> QED
    BY <1>5, <2>2, <2>3, <2>4 DEF Reached
<1> QED
  BY <1>5, <1>6, <1>7 DEF TablesInv

LEMMA PublishTables ==
    ASSUME DeploymentInv, TablesInv, NEW d \in deploying, Publish(d)
    PROVE  /\ TablesInv'
           /\ \A p \in Paths \ {d.task.path} : applications'[p] = applications[p]
           /\ applications[d.task.path].version \in Nat
           /\ applications'[d.task.path].version = d.version
           /\ d.task.version = 0 => d.version = applications[d.task.path].version + 1
<1> USE DEF instances, tables, requested, counted
<1> DEFINE p == d.task.path
<1>1. /\ d.stage = "built" /\ UNCHANGED <<ops, q, executor, status, versions, setting>>
      /\ Goes(d, "published") /\ running' = running \ Instance(p, d.previous)
      /\ applications' = [applications EXCEPT ![p] = NewApp(d)]
  BY DEF Publish, Replaced
<1>2. "published" \in Stages /\ d.stage # "final"
  BY <1>1 DEF Stages
<1>3. PICK next :
         /\ Unfinished = {d} /\ Unfinished' = {next} /\ deploying' = (deploying \ {d}) \cup {next}
         /\ next.task = d.task /\ next.version = d.version /\ next.previous = d.previous
         /\ next.stage = "published" /\ Reached(d) /\ d.task.op \in Ops \cup {Boot} /\ p \in Paths
         /\ \A e \in deploying' \ {next} : e.stage = "final"
  BY <1>1, <1>2, GoesOn
<1>4. applications \in [Paths -> Apps]
  BY DEF DeploymentInv, ManagerType
<1>5. /\ applications'[p] = NewApp(d)
      /\ \A r \in Paths \ {p} : applications'[r] = applications[r]
  BY <1>1, <1>3, <1>4
<1>6. /\ NewApp(d).op = d.task.op /\ NewApp(d).version = d.version /\ NoApp.op = Boot
      /\ NewApp(d) # NoApp
  <2>1. NewApp(d).op = d.task.op /\ NewApp(d).version = d.version /\ NoApp.op = Boot
    BY DEF NewApp, App, NoApp, Boot
  <2>2. NewApp(d).config \in Ops /\ NoApp.config = Empty
    BY DEF NewApp, App, NoApp, Empty, DeploymentInv, ManagerType, Deployments, DeployTasks
  <2> QED
    BY <2>1, <2>2, Numbers
<1>7. /\ d.previous = applications[p] /\ (d.task.version = 0 => d.version = versions[p] + 1)
      /\ \A r \in Paths : status[r] = applications[r] /\ versions[r] = applications[r].version
      /\ running = Deployed \cup New(d)
  BY <1>1, <1>3 DEF Reached
<1>8. PICK o \in Ops \cup {Boot} : o = d.task.op
  BY <1>3
<1>9. /\ o \in Ops => UnderWay(o) /\ Unpublished(o)
      /\ o = Boot => BootGoesOn(p) /\ Unstarted(p)
  BY <1>1, <1>8 DEF UnderWay, Untold, Unpublished, Unbuilt, BootGoesOn, Unstarted
<1>10. /\ o \in Ops => ops[o].pc = "waiting" /\ ~InQueue(o) /\ ~Begins(o)
       /\ o = Boot => ~BootWaits(p)
  BY <1>3, <1>9 DEF DeploymentInv, AnswerInv, AnswerOf, TablesInv, BootsOnce
<1>11. /\ applications[p] # NoApp => applications[p].op # o
       /\ executor = <<>>
  <2>1. applications[p] # NoApp => applications[p].op # o
    BY <1>3, <1>9 DEF TablesInv, KnownInv, Known
  <2>2. d \in Unfinished
    BY <1>3
  <2> QED
    BY <2>1, <2>2, HasTheTurn DEF DeploymentInv, Unfinished
<1> HIDE DEF p
<1>12. running' = Deployed'
  <2>1. \A x : x \in New(d) <=> x = <<p, o>>
    BY <1>6, <1>8 DEF New, Instance, p
  <2>2. \A x : x \in Instance(p, d.previous) <=>
                   applications[p] # NoApp /\ x = <<p, applications[p].op>>
    BY <1>7 DEF Instance
  <2>3. \A x : x \in running' <=> \/ x = <<p, o>>
                                   \/ \E r \in Paths \ {p} : applications[r] # NoApp
                                                             /\ x = <<r, applications[r].op>>
    <3>1. \A x : x \in running' <=>
              /\ x = <<p, o>> \/ \E r \in Paths : applications[r] # NoApp /\ x = <<r, applications[r].op>>
              /\ ~(applications[p] # NoApp /\ x = <<p, applications[p].op>>)
      BY <1>1, <1>7, <2>1, <2>2, MembersOfDeployed
    <3>2. applications[p] # NoApp => <<p, o>> # <<p, applications[p].op>>
      BY <1>3, <1>11
    <3>3. \A r \in Paths \ {p} : <<r, applications[r].op>> # <<p, applications[p].op>>
      OBVIOUS
    <3> QED
      BY <1>3, <3>1, <3>2, <3>3
  <2>4. \A x : x \in running' <=> \E r \in Paths : applications'[r] # NoApp /\ x = <<r, applications'[r].op>>
    BY <1>3, <1>5, <1>6, <1>8, <2>3
  <2>5. \A x : x \in running' <=> x \in Deployed'
    BY <2>4, MembersOfDeployed
  <2> QED
    BY <2>5
<1>13. Reached(next)'
  <2>1. NewApp(next) = NewApp(d) /\ next.task.path = p
    BY <1>3 DEF NewApp, p
  <2>2. \A r \in Paths \ {p} : status'[r] = applications'[r] /\ versions'[r] = applications'[r].version
    BY <1>1, <1>5, <1>7
  <2>3. running' = Deployed' \cup IF next.stage = "built" THEN New(next) ELSE {}
    BY <1>3, <1>12
  <2> QED
    BY <1>3, <1>5, <2>1, <2>2, <2>3 DEF Reached
<1>14. AskedInv'
  BY <1>1, <1>3 DEF TablesInv, AskedInv
<1>15. ASSUME NEW e \in Ops, Unpublished(e)' PROVE Unpublished(e) /\ e # o
  <2>1. \A x \in deploying' : x.stage \in {"published", "final"}
    BY <1>3
  <2>2. InQueue(e)' \/ Begins(e)'
    BY <1>15, <2>1 DEF Unpublished, Unbuilt
  <2>3. InQueue(e) \/ Begins(e)
    BY <1>1, <2>2 DEF InQueue, Begins
  <2> QED
    BY <1>10, <1>15, <2>3 DEF Unpublished
<1>16. /\ BootsOnce' /\ \A r \in Paths : Unstarted(r)' => Unstarted(r)
       /\ o = Boot => ~Unstarted(p)'
  <2>1. \A x \in deploying' : x.stage \in {"published", "final"}
    BY <1>3
  <2>2. \A r \in Paths : ~BootGoesOn(r)' /\ ~BootBegins(r)'
    BY <1>1, <1>11, <2>1 DEF BootGoesOn, BootBegins, Unbuilt
  <2>3. BootWaits(p)' = BootWaits(p)
    BY <1>1 DEF BootWaits, FromBoot
  <2>4. BootsOnce' /\ \A r \in Paths : Unstarted(r)' => Unstarted(r)
    BY <1>1, <2>2, BootsStay DEF TablesInv
  <2> QED
    BY <1>3, <1>10, <2>2, <2>3, <2>4 DEF Unstarted, p
<1>17. KnownInv'
  <2> SUFFICES ASSUME NEW r \in Paths, applications'[r] # NoApp PROVE Known(r)'
    BY DEF KnownInv
  <2>1. CASE r = p
    <3>1. applications'[r].op = o
      BY <1>5, <1>6, <1>8, <2>1
    <3>2. o \in Ops => ops'[o].pc = "waiting" /\ ~Unpublished(o)'
      BY <1>1, <1>10, <1>15
    <3>3. o = Boot => ~Unstarted(r)'
      BY <1>16, <2>1
    <3> QED
      BY <3>1, <3>2, <3>3 DEF Known, Unpublished, InQueue, Begins
  <2>2. CASE r # p
    <3>1. applications'[r] = applications[r] /\ Known(r)
      BY <1>5, <2>2 DEF TablesInv, KnownInv
    <3> QED
      BY <1>1, <1>15, <1>16, <3>1, KnownThen
  <2> QED
    BY <2>1, <2>2
<1>18. TablesInv'
  BY <1>3, <1>13, <1>14, <1>16, <1>17 DEF TablesInv
<1>19. /\ applications[p].version \in Nat /\ applications'[p].version = d.version
       /\ d.task.version = 0 => d.version = applications[p].version + 1
  BY <1>3, <1>4, <1>5, <1>6, <1>7 DEF Apps
<1> QED
  BY <1>5, <1>18, <1>19 DEF p

\* Report, TellOk, EndOk and TellError, from what they do to the status and the version
LEMMA FollowingTables ==
    ASSUME DeploymentInv, Calm, TablesInv, NEW d \in deploying,
           Report(d) \/ TellOk(d) \/ EndOk(d) \/ TellError(d)
    PROVE  TablesInv'
<1> USE DEF instances, tables, requested, counted
<1> DEFINE p == d.task.path
<1>1. UNCHANGED <<q, executor, applications, running, setting>>
  BY DEF Report, TellOk, EndOk, TellError
<1>2. /\ status \in [Paths -> Apps] /\ versions \in [Paths -> Nat] /\ d \in Deployments
      /\ ops \in [Ops -> [pc : PCs, path : Paths \cup {0}, version : Nat]]
  BY DEF DeploymentInv, ManagerType
<1>3. PICK stage \in {"reported", "told", "final", "refused"} :
         /\ Goes(d, stage)
         /\ stage = "reported" => d.stage = "published" /\ status' = [status EXCEPT ![p] = NewApp(d)]
         /\ stage # "reported" => UNCHANGED status
         /\ stage = "told" => d.stage = "reported"
         /\ stage = "final" => d.stage = "told" /\ versions' = [versions EXCEPT ![p] = d.version]
         /\ stage # "final" => UNCHANGED versions
         /\ stage = "refused" => d.stage = "failing"
  BY DEF Report, TellOk, EndOk, TellError, Record, Calm, May
<1>4. stage \in Stages /\ d.stage \in {"published", "reported", "told", "failing"}
  BY <1>3 DEF Stages
<1>5. PICK next :
         /\ Unfinished = {d} /\ Unfinished' = {next} /\ deploying' = (deploying \ {d}) \cup {next}
         /\ next.task = d.task /\ next.version = d.version /\ next.previous = d.previous
         /\ next.stage = stage /\ Reached(d) /\ d.task.op \in Ops \cup {Boot} /\ p \in Paths
  BY <1>3, <1>4, GoesOn
<1>6. \A o \in Ops : ops[o].pc \in {"waiting", "ended"} => ops'[o].pc \in {"waiting", "ended"}
  <2>1. CASE UNCHANGED ops
    BY <2>1
  <2>2. CASE d.task.op # Boot /\ ops' = [ops EXCEPT ![d.task.op].pc = "ended"]
    BY <1>2, <1>5, <2>2
  <2> QED
    BY <2>1, <2>2 DEF Report, TellOk, EndOk, TellError, Tell
<1>7. AskedInv' /\ BootsOnce' /\ KnownInv'
  BY <1>1, <1>3, <1>5, <1>6, DeployKnown DEF Unbuilt
<1>8. NewApp(next) = NewApp(d) /\ NewApp(d).version = d.version /\ next.task.path = p
  BY <1>5 DEF NewApp, App
<1> HIDE DEF p
<1>9. Reached(next)'
  <2>1. running' = Deployed' \cup IF next.stage = "built" THEN New(next) ELSE {}
    <3>1. running = Deployed
      BY <1>4, <1>5 DEF Reached
    <3> QED
      BY <1>1, <1>3, <1>5, <3>1, SameDeployed
  <2>2. /\ \A r \in Paths : (r = p /\ d.stage = "published") \/ status[r] = applications[r]
        /\ \A r \in Paths : \/ r = p /\ d.stage \in {"published", "reported", "told"}
                            \/ versions[r] = applications[r].version
        /\ d.stage \in {"published", "reported", "told"} => applications[p] = NewApp(d)
    BY <1>5, <1>8 DEF Reached
  <2>3. \A r \in Paths : status'[r] = applications'[r]
    BY <1>1, <1>2, <1>3, <1>5, <2>2
  <2>4. \A r \in Paths : \/ r = p /\ next.stage \in {"published", "reported", "told"}
                         \/ versions'[r] = applications'[r].version
    BY <1>1, <1>2, <1>3, <1>5, <1>8, <2>2
  <2>5. next.stage \in {"published", "reported", "told"} => applications'[p] = NewApp(next)
    BY <1>1, <1>3, <1>5, <1>8, <2>2
  <2> QED
    BY <1>3, <1>5, <1>8, <2>1, <2>3, <2>4, <2>5 DEF Reached
<1> QED
  BY <1>5, <1>7, <1>9 DEF TablesInv

\* the turn is given back by a deployment that is settled
LEMMA EndTables ==
    ASSUME DeploymentInv, TablesInv, NEW d \in deploying, EndError(d) \/ Finally(d)
    PROVE  TablesInv'
<1> USE DEF instances, tables, requested, counted
<1>1. /\ d \in Deployments
      /\ UNCHANGED <<ops, q, running, applications, status, versions, setting>>
      /\ d.stage \in {"refused", "final"}
  BY DEF DeploymentInv, ManagerType, EndError, Finally
<1> DEFINE last == [d EXCEPT !.stage = "final", !.done = TRUE]
<1>2. last = [task |-> d.task, version |-> d.version, previous |-> d.previous,
              stage |-> "final", unpause |-> d.unpause, done |-> TRUE]
  BY <1>1, AtLast, Zenon
<1>3. deploying' = deploying \ {d} \/ deploying' = (deploying \ {d}) \cup {last}
  BY DEF EndError, Finally
<1> HIDE DEF last
<1>4. last.task = d.task /\ last.stage = "final" /\ last.done
  BY <1>2
<1>5. UNCHANGED executor \/ executor' = Append(executor, WaitForNextTask)
  BY DEF EndError, Finally, GiveBack
<1> DEFINE rest == deploying' \ (deploying \ {d})
<1>6. /\ deploying' = (deploying \ {d}) \cup rest
      /\ \A e \in rest : e.task = d.task /\ e.stage = "final" /\ e.done
  BY <1>3, <1>4
<1> HIDE DEF rest
<1>7. \A o \in Ops : Unpublished(o)' => Unpublished(o)
  <2>1. \A o \in Ops : Begins(o)' => Begins(o)
    BY <1>5, NobodyBegins DEF Begins, DeploymentInv
  <2> QED
    BY <1>1, <1>6, <2>1 DEF Unpublished, InQueue, Unbuilt
<1>8. \A i \in DOMAIN executor' : executor'[i] = WaitForNextTask
                                  \/ (i \in DOMAIN executor /\ executor'[i] = executor[i])
  BY <1>5, ExecutorGrows DEF DeploymentInv
<1>9. AskedInv' /\ BootsOnce' /\ KnownInv'
  <2>1. Asked(WaitForNextTask) /\ ~FromBoot(WaitForNextTask)
    BY DEF WaitForNextTask, Task, Asked, FromBoot
  <2> HIDE DEF WaitForNextTask
  <2>2. \A p \in Paths : BootBegins(p)' => BootBegins(p)
    BY <1>8, <2>1 DEF BootBegins, FromBoot
  <2>3. \A p \in Paths : BootGoesOn(p)' => BootGoesOn(p)
    BY <1>6 DEF BootGoesOn, Unbuilt
  <2>4. BootsOnce' /\ \A p \in Paths : Unstarted(p)' => Unstarted(p)
    BY <1>1, <2>2, <2>3, BootsStay DEF TablesInv
  <2>5. KnownInv'
    BY <1>1, <1>7, <2>4, KnownStays DEF TablesInv
  <2>6. AskedInv'
    BY <1>1, <1>6, <1>8, <2>1 DEF TablesInv, AskedInv
  <2> QED
    BY <2>4, <2>5, <2>6
<1>10. (Unfinished = {} => Settled)'
  <2> SUFFICES ASSUME Unfinished' = {} PROVE Settled'
    OBVIOUS
  <2>1. CASE d \in Unfinished
    <3>1. Reached(d)
      BY <2>1 DEF TablesInv
    <3>2. running = Deployed /\ \A r \in Paths : status[r] = applications[r]
                                                 /\ versions[r] = applications[r].version
      BY <1>1, <3>1 DEF Reached
    <3> QED
      BY <1>1, <3>2, SameDeployed DEF Settled
  <2>2. CASE d \notin Unfinished
    <3>1. Unfinished = {}
      BY <1>3, <2>2 DEF Unfinished
    <3>2. Settled
      BY <3>1 DEF TablesInv
    <3> QED
      BY <1>1, <3>2, SameDeployed DEF Settled
  <2> QED
    BY <2>1, <2>2
<1>11. ASSUME NEW e \in Unfinished' PROVE Reached(e)'
  <2>1. e \in Unfinished
    BY <1>3, <1>4, <1>11 DEF Unfinished
  <2>2. Reached(e)
    BY <2>1 DEF TablesInv
  <2>3. Deployed' = Deployed
    BY <1>1, SameDeployed
  <2> QED
    BY <1>1, <2>2, <2>3 DEF Reached
<1> QED
  BY <1>9, <1>10, <1>11 DEF TablesInv

-----------------------------------------------------------------------------
\* the order in which a restart goes through the applications
LEMMA AllOfThem ==
    ASSUME NEW S \in SUBSET Paths, NEW order \in SetToSeqs(S)
    PROVE  /\ \A i \in DOMAIN order : order[i] \in S
           /\ \A i, j \in DOMAIN order : order[i] = order[j] => i = j
           /\ \A s \in S : \E i \in DOMAIN order : order[i] = s
<1> DEFINE n == Cardinality(S)
<1>1. IsFiniteSet(S) /\ n \in Nat
  BY OpsAssumption, FS_Subset, FS_CardinalityType
<1>2. order \in [1 .. n -> S] /\ \A i, j \in 1 .. n : i # j => order[i] # order[j]
  BY DEF SetToSeqs
<1>3. Cardinality(1 .. n) = n
  <2> HIDE DEF n
  <2>1. 1 \in Int /\ n \in Int
    BY <1>1
  <2>2. Cardinality(1 .. n) = IF 1 > n THEN 0 ELSE n - 1 + 1
    BY <2>1, FS_Interval
  <2> QED
    BY <1>1, <2>2
<1> HIDE DEF n
<1>4. order \in Injection(1 .. n, S)
  BY <1>2 DEF Injection, IsInjective
<1>5. order \in Surjection(1 .. n, S)
  BY <1>1, <1>3, <1>4, FS_Injection DEF n
<1> QED
  BY <1>2, <1>5 DEF Surjection

LEMMA RestartTables ==
    ASSUME DeploymentInv, TablesInv, Restart
    PROVE  TablesInv'
<1>1. PICK S \in SUBSET Paths : \E order \in SetToSeqs(S) :
         q' = [i \in DOMAIN order |-> Task("deploy", order[i], Newest(order[i]), Content(order[i]), Boot)]
  <2>1. \A S \in Started : S \in SUBSET Paths
    BY DEF Started
  <2> QED
    BY <2>1 DEF Restart
<1> PICK order \in SetToSeqs(S) :
         q' = [i \in DOMAIN order |-> Task("deploy", order[i], Newest(order[i]), Content(order[i]), Boot)]
  BY <1>1
<1>2. /\ executor' = <<WaitForNextTask>> /\ deploying' = {} /\ running' = {}
      /\ \A p \in Paths : applications'[p] = NoApp /\ status'[p] = NoApp /\ versions'[p] = 0
      /\ setting' = setting /\ restarts < setting.restarts
  BY DEF Restart, counted
<1>3. AskedInv'
  BY <1>2, OpsAssumption DEF AskedInv, DeploymentInv, ManagerType
<1>4. KnownInv'
  BY <1>2 DEF KnownInv
<1>5. BootsOnce'
  <2>1. \A i, j \in DOMAIN order : order[i] = order[j] => i = j
    BY AllOfThem
  <2>2. DOMAIN q' = DOMAIN order /\ \A i \in DOMAIN q' : q'[i].path = order[i]
    BY DEF Task
  <2>3. \A i \in DOMAIN executor' : ~FromBoot(executor'[i])
    <3>1. \A i \in DOMAIN executor' : executor'[i] = WaitForNextTask
      BY <1>2
    <3> QED
      BY <3>1 DEF WaitForNextTask, Task, FromBoot
  <2>4. \A p \in Paths : ~BootBegins(p)' /\ ~BootGoesOn(p)'
    BY <1>2, <2>3 DEF BootBegins, BootGoesOn, FromBoot
  <2> QED
    BY <2>1, <2>2, <2>4 DEF BootsOnce
<1>6. Settled' /\ Unfinished' = {}
  <2>1. Deployed' = {} /\ Unfinished' = {}
    BY <1>2 DEF Deployed, Instance, Unfinished
  <2>2. NoApp.version = 0
    BY DEF NoApp, App
  <2> QED
    BY <1>2, <2>1, <2>2 DEF Settled
<1> QED
  BY <1>3, <1>4, <1>5, <1>6 DEF TablesInv

LEMMA SettingStays ==
    ASSUME [Next]_vars
    PROVE  setting' = setting
BY DEF Next, Operation, Choose, Clear, Unpack, Submit, Delete, AskUndeploy, Tick, Manager,
       TakeNext, RunUpdateStatus, RunUndeploy, RunDeploy, Deploys, Build, Publish, Report, TellOk,
       EndOk, TellError, EndError, Finally, Restart, vars, counted

LEMMA CalmStays ==
    ASSUME [Next]_vars
    PROVE  Calm' <=> Calm
BY SettingStays DEF Calm

LEMMA TablesStep ==
    ASSUME DeploymentInv, Calm, TablesInv, [Next]_vars
    PROVE  TablesInv'
<1>1. CASE UNCHANGED vars
  <2>1. UNCHANGED <<ops, q, executor, deploying, tables, running, setting>>
    BY <1>1 DEF vars, requested, instances, counted
  <2>2. AskedInv'
    BY <2>1 DEF TablesInv, AskedInv
  <2>3. BootsOnce' /\ \A p \in Paths : Unstarted(p)' => Unstarted(p)
    <3>1. \A p : BootBegins(p)' = BootBegins(p) /\ BootGoesOn(p)' = BootGoesOn(p)
      BY <2>1 DEF BootBegins, BootGoesOn, FromBoot
    <3> QED
      BY <2>1, <3>1, BootsStay DEF TablesInv
  <2>4. KnownInv'
    BY <2>1, <2>3, KnownStays DEF TablesInv, Unpublished, InQueue, Begins, tables
  <2> QED
    BY <2>1, <2>2, <2>3, <2>4, TablesStay DEF TablesInv
<1> QED
  BY <1>1, OperationTables, TickTables, RestartTables, TakeTables, StatusTables, UndeployTables, BeginTables,
     BuildTables, PublishTables, FollowingTables, EndTables DEF Next, Manager, Deploys

LEMMA InitCalmInv == Init => CalmInv
<1> SUFFICES ASSUME Init PROVE CalmInv
  OBVIOUS
<1>1. DeploymentInv
  BY InitDeploymentInv
<1>2. /\ q = <<>> /\ executor = <<WaitForNextTask>> /\ deploying = {} /\ running = {}
      /\ applications = [p \in Paths |-> NoApp] /\ status = [p \in Paths |-> NoApp]
      /\ versions = [p \in Paths |-> 0]
  BY DEF Init
<1>3. AskedInv /\ BootsOnce
  <2>1. DOMAIN q = {} /\ \A i \in DOMAIN executor : executor[i] = WaitForNextTask
    BY <1>2
  <2>2. Asked(WaitForNextTask)
    BY DEF WaitForNextTask, Task, Asked
  <2> QED
    BY <1>2, <2>1, <2>2 DEF AskedInv, BootsOnce, BootWaits
<1>4. KnownInv
  BY <1>2 DEF KnownInv
<1>5. Settled /\ Unfinished = {}
  <2>1. Deployed = {} /\ Unfinished = {}
    BY <1>2 DEF Deployed, Instance, Unfinished
  <2>2. NoApp.version = 0
    BY DEF NoApp, App
  <2> QED
    BY <1>2, <2>1, <2>2 DEF Settled
<1> QED
  BY <1>1, <1>3, <1>4, <1>5 DEF CalmInv, TablesInv

LEMMA CalmInvHolds == Spec => []CalmInv
<1>1. ASSUME CalmInv, [Next]_vars PROVE CalmInv'
  <2>1. DeploymentInv'
    BY <1>1, TypeStep, StepTurn, AnswerStep, PausedStep DEF CalmInv, DeploymentInv
  <2>2. Calm' => TablesInv'
    BY <1>1, CalmStays, TablesStep DEF CalmInv
  <2> QED
    BY <2>1, <2>2 DEF CalmInv
<1>2. CalmInv /\ [Next]_vars => CalmInv'
  BY <1>1
<1> QED
  BY <1>2, InitCalmInv, PTL DEF Spec

LEMMA StaysCalm == Spec /\ Calm => []Calm
<1>1. Calm /\ [Next]_vars => Calm'
  BY CalmStays
<1> QED
  BY <1>1, PTL DEF Spec

LEMMA SettledWhenIdle ==
    ASSUME CalmInv, Calm, Idle
    PROVE  Settled /\ status = applications
<1>1. Settled
  BY DEF CalmInv, TablesInv, Idle, Unfinished
<1>2. status \in [Paths -> Apps] /\ applications \in [Paths -> Apps]
  BY DEF CalmInv, DeploymentInv, ManagerType
<1> QED
  BY <1>1, <1>2 DEF Settled

(* When the manager has nothing to do, exactly the applications it knows run:  *)
(* the version a redeploy replaced was stopped, and that of a redeploy that    *)
(* was refused or failed to build was left alone.                              *)
THEOREM KnownApplicationsRun == Spec /\ Calm => []OnlyDeployedRun
<1>1. CalmInv /\ Calm => OnlyDeployedRun
  BY SettledWhenIdle DEF OnlyDeployedRun, Settled
<1> QED
  BY <1>1, CalmInvHolds, StaysCalm, PTL

(* ... and statusFor answers for them as they were deployed.                   *)
THEOREM StatusIsKnown == Spec /\ Calm => []StatusOfDeployed
<1>1. CalmInv /\ Calm => StatusOfDeployed
  BY SettledWhenIdle DEF StatusOfDeployed
<1> QED
  BY <1>1, CalmInvHolds, StaysCalm, PTL

-----------------------------------------------------------------------------
(* Version numbers.  TypeOK bounds them by the number of operations, which is *)
(* what makes the directories of Versions enough: no version is above the     *)
(* number of operations that have begun, and none that is recorded or started  *)
(* at boot is above the number of those that have ended.                       *)

EndedOf(f) == Cardinality({ o \in Ops : f[o].pc = "ended" })
BegunOf(f) == Cardinality({ o \in Ops : f[o].pc # "idle" })
Ended == EndedOf(ops)
Begun == BegunOf(ops)

\* of a task and of a deployment, with so many operations begun and ended
Numbered(t, ended) ==
    /\ t.version <= ended
    /\ t.what = "deploy" /\ t.op = Boot => t.version > 0

DepNumbered(d, begun, ended) ==
    /\ d.version \in 1 .. begun /\ d.version <= ended + 1
    /\ d.stage = "told" \/ d.task.op = Boot => d.version <= ended

NumInv ==
    /\ \A o \in Ops : ops[o].version <= Begun
    /\ \A p \in Paths : versions[p] <= Ended
    /\ \A i \in DOMAIN q : Numbered(q[i], Ended)
    /\ \A i \in DOMAIN executor : Numbered(executor[i], Ended)
    /\ \A d \in deploying : DepNumbered(d, Begun, Ended)
    /\ \A p \in Paths, v \in Versions : disk[p][v] # Missing => v <= Begun

LEMMA Counts ==
    ASSUME NEW f
    PROVE  /\ EndedOf(f) \in Nat /\ BegunOf(f) \in Nat
           /\ EndedOf(f) <= BegunOf(f) /\ BegunOf(f) <= Cardinality(Ops)
           /\ \A o \in Ops : f[o].pc \notin {"idle", "ended"} => EndedOf(f) + 1 <= BegunOf(f)
<1> DEFINE E == { o \in Ops : f[o].pc = "ended" }
           B == { o \in Ops : f[o].pc # "idle" }
<1>1. E \in SUBSET B /\ B \in SUBSET Ops /\ IsFiniteSet(Ops)
  BY OpsAssumption
<1>2. /\ IsFiniteSet(B) /\ Cardinality(B) \in Nat /\ Cardinality(B) <= Cardinality(Ops)
      /\ Cardinality(E) \in Nat /\ Cardinality(E) <= Cardinality(B)
      /\ Cardinality(B) = Cardinality(E) => B = E
  BY <1>1, FS_Subset, FS_CardinalityType
<1>3. ASSUME NEW o \in Ops, f[o].pc \notin {"idle", "ended"} PROVE Cardinality(E) + 1 <= Cardinality(B)
  <2>1. o \in B /\ o \notin E
    BY <1>3
  <2>2. Cardinality(B) # Cardinality(E)
    BY <1>2, <2>1
  <2> HIDE DEF E, B
  <2> QED
    BY <1>2, <2>2
<1> QED
  BY <1>2, <1>3 DEF EndedOf, BegunOf

LEMMA CountsGrow ==
    ASSUME NEW f, NEW g,
           \A o \in Ops : /\ f[o].pc # "idle" => g[o].pc # "idle"
                          /\ f[o].pc = "ended" => g[o].pc = "ended"
    PROVE  /\ EndedOf(f) <= EndedOf(g) /\ BegunOf(f) <= BegunOf(g)
           /\ \A o \in Ops : f[o].pc = "idle" /\ g[o].pc # "idle" => BegunOf(f) + 1 <= BegunOf(g)
           /\ \A o \in Ops : f[o].pc # "ended" /\ g[o].pc = "ended" => EndedOf(f) + 1 <= EndedOf(g)
<1>1. ASSUME NEW S, NEW T \in SUBSET S, S \in SUBSET Ops
      PROVE  /\ Cardinality(T) <= Cardinality(S)
             /\ \A o \in S \ T : Cardinality(T) + 1 <= Cardinality(S)
  <2>1. IsFiniteSet(Ops)
    BY OpsAssumption
  <2>2. IsFiniteSet(S) /\ IsFiniteSet(T)
    BY <1>1, <2>1, FS_Subset
  <2>3. Cardinality(S) \in Nat /\ Cardinality(T) \in Nat
    BY <2>2, FS_CardinalityType
  <2>4. Cardinality(T) <= Cardinality(S) /\ (Cardinality(S) = Cardinality(T) => S = T)
    BY <2>2, FS_Subset
  <2> QED
    BY <2>3, <2>4
<1> DEFINE EF == { o \in Ops : f[o].pc = "ended" }
           BF == { o \in Ops : f[o].pc # "idle" }
           EG == { o \in Ops : g[o].pc = "ended" }
           BG == { o \in Ops : g[o].pc # "idle" }
<1>2. EF \in SUBSET EG /\ BF \in SUBSET BG /\ EG \in SUBSET Ops /\ BG \in SUBSET Ops
  OBVIOUS
<1>3. /\ \A o \in Ops : f[o].pc = "idle" /\ g[o].pc # "idle" => o \in BG \ BF
      /\ \A o \in Ops : f[o].pc # "ended" /\ g[o].pc = "ended" => o \in EG \ EF
  OBVIOUS
<1>4. /\ Cardinality(EF) <= Cardinality(EG) /\ \A o \in EG \ EF : Cardinality(EF) + 1 <= Cardinality(EG)
      /\ Cardinality(BF) <= Cardinality(BG) /\ \A o \in BG \ BF : Cardinality(BF) + 1 <= Cardinality(BG)
  <2> HIDE DEF EF, BF, EG, BG
  <2> QED
    BY <1>1, <1>2
<1>5. EndedOf(f) = Cardinality(EF) /\ EndedOf(g) = Cardinality(EG)
  BY DEF EndedOf
<1>6. BegunOf(f) = Cardinality(BF) /\ BegunOf(g) = Cardinality(BG)
  BY DEF BegunOf
<1> HIDE DEF EF, BF, EG, BG
<1> QED
  BY <1>3, <1>4, <1>5, <1>6

\* how an operation may go on
LEMMA OpsGrow ==
    ASSUME ManagerType, [Next]_vars
    PROVE  \A o \in Ops : /\ ops[o].pc # "idle" => ops'[o].pc # "idle"
                          /\ ops[o].pc = "ended" => ops'[o].pc = "ended"
<1> USE DEF instances, tables, requested, counted
<1> DEFINE Goal == \A o \in Ops : /\ ops[o].pc # "idle" => ops'[o].pc # "idle"
                                  /\ ops[o].pc = "ended" => ops'[o].pc = "ended"
<1>1. ops \in [Ops -> [pc : PCs, path : Paths \cup {0}, version : Nat]]
  BY DEF ManagerType
<1>2. ASSUME NEW o \in Ops, NEW r, ops' = [ops EXCEPT ![o] = r],
             r.pc # "idle", ops[o].pc # "ended"
      PROVE  Goal
  BY <1>1, <1>2
<1>3. ASSUME NEW o \in Ops, NEW pc, ops' = [ops EXCEPT ![o].pc = pc],
             pc # "idle", ops[o].pc # "ended" \/ pc = "ended"
      PROVE  Goal
  <2>1. [ops[o] EXCEPT !.pc = pc].pc = pc
    BY <1>1
  <2>2. \A r \in Ops : ops'[r].pc = IF r = o THEN pc ELSE ops[r].pc
    BY <1>1, <1>3, <2>1
  <2> QED
    BY <1>3, <2>2
<1>4. CASE Operation
  <2> PICK o \in Ops : Choose(o) \/ Clear(o) \/ Unpack(o) \/ Submit(o) \/ Delete(o) \/ AskUndeploy(o)
    BY <1>4 DEF Operation
  <2>1. CASE Choose(o)
    <3> PICK p \in setting.paths :
           ops' = [ops EXCEPT ![o] = [pc |-> "chosen", path |-> p, version |-> NextVersion(p)]]
      BY <2>1 DEF Choose
    <3>1. ops[o].pc = "idle"
      BY <2>1 DEF Choose, MayStart
    <3> QED
      BY <1>2, <3>1
  <2>2. CASE Delete(o)
    <3> PICK p \in setting.paths :
           ops' = [ops EXCEPT ![o] = [pc |-> "deleted", path |-> p, version |-> 0]]
      BY <2>2 DEF Delete
    <3>1. ops[o].pc = "idle"
      BY <2>2 DEF Delete, MayStart
    <3> QED
      BY <1>2, <3>1
  <2>3. CASE Clear(o)
    BY <2>3, <1>3 DEF Clear
  <2>4. CASE Unpack(o)
    BY <2>4, <1>3 DEF Unpack
  <2>5. CASE Submit(o)
    <3>1. ops' = [ops EXCEPT ![o].pc = "waiting"] \/ ops' = [ops EXCEPT ![o].pc = "ended"]
      BY <2>5 DEF Submit
    <3>2. ops[o].pc = "unpacked"
      BY <2>5 DEF Submit
    <3> QED
      BY <3>1, <3>2, <1>3
  <2>6. CASE AskUndeploy(o)
    BY <2>6, <1>3 DEF AskUndeploy
  <2> QED
    BY <2>1, <2>2, <2>3, <2>4, <2>5, <2>6
<1>5. CASE Deploys
  <2> PICK d \in deploying : \/ Build(d) \/ Publish(d) \/ Report(d) \/ TellOk(d) \/ EndOk(d)
                             \/ TellError(d) \/ EndError(d) \/ Finally(d)
    BY <1>5 DEF Deploys
  <2>1. \/ UNCHANGED ops
        \/ d.task.op # Boot /\ ops' = [ops EXCEPT ![d.task.op].pc = "ended"]
    BY DEF Build, Publish, Report, TellOk, EndOk, TellError, EndError, Finally, Tell
  <2>2. d.task.op \in Ops \cup {Boot}
    BY DEF ManagerType, Deployments, DeployTasks
  <2> QED
    BY <1>3, <2>1, <2>2
<1>6. CASE Restart
  <2>1. ops' = [o \in Ops |-> IF AtRest(o) THEN ops[o] ELSE [ops[o] EXCEPT !.pc = "ended"]]
    BY <1>6 DEF Restart
  <2>2. \A o \in Ops : [ops[o] EXCEPT !.pc = "ended"].pc = "ended"
    BY <1>1
  <2> QED
    BY <2>1, <2>2 DEF AtRest
<1>7. CASE UNCHANGED ops
  BY <1>7
<1> QED
  BY <1>4, <1>5, <1>6, <1>7
     DEF Next, Tick, Manager, TakeNext, RunUpdateStatus, RunUndeploy, RunDeploy, vars

\* the counts of both states of a step
Growing == /\ Ended \in Nat /\ Begun \in Nat /\ Ended' \in Nat /\ Begun' \in Nat
           /\ Ended <= Begun /\ Ended' <= Begun'
           /\ Ended <= Ended' /\ Begun <= Begun'

LEMMA Grows == ManagerType /\ [Next]_vars => Growing
<1> SUFFICES ASSUME ManagerType, [Next]_vars PROVE Growing
  OBVIOUS
<1>1. Ended' = EndedOf(ops') /\ Begun' = BegunOf(ops')
  BY DEF Ended, Begun, EndedOf, BegunOf
<1>2. Ended = EndedOf(ops) /\ Begun = BegunOf(ops)
  BY DEF Ended, Begun
<1>3. EndedOf(ops) <= EndedOf(ops') /\ BegunOf(ops) <= BegunOf(ops')
  BY OpsGrow, CountsGrow
<1> QED
  BY <1>1, <1>2, <1>3, Counts DEF Growing

LEMMA StillNumbered ==
    ASSUME Growing
    PROVE  /\ \A t \in KnownTasks : Numbered(t, Ended) => Numbered(t, Ended')
           /\ \A d \in Deployments : DepNumbered(d, Begun, Ended) => DepNumbered(d, Begun', Ended')
<1>1. ASSUME NEW t \in KnownTasks, Numbered(t, Ended) PROVE Numbered(t, Ended')
  <2>1. t.version \in Nat
    BY DEF KnownTasks, DeployTasks, UndeployTasks, SmallTasks
  <2> QED
    BY <1>1, <2>1 DEF Numbered, Growing
<1>2. ASSUME NEW d \in Deployments, DepNumbered(d, Begun, Ended) PROVE DepNumbered(d, Begun', Ended')
  <2>1. d.version \in Nat
    BY DEF Deployments
  <2> QED
    BY <1>2, <2>1 DEF DepNumbered, Growing
<1> QED
  BY <1>1, <1>2

LEMMA SmallNumbered ==
    ASSUME ManagerType
    PROVE  /\ Numbered(WaitForNextTask, Ended) /\ Numbered(UpdateStatus, Ended)
           /\ \A p : Numbered(Undeploy(p), Ended)
           /\ \A p, c, o : o # Boot => Numbered(Task("deploy", p, 0, c, o), Ended)
<1>1. 0 <= Ended
  BY Counts DEF Ended
<1> QED
  BY <1>1 DEF Numbered, WaitForNextTask, UpdateStatus, Undeploy, Task, Boot

\* the versions of operations
LEMMA OpsNumbered ==
    ASSUME ManagerType, NumInv, [Next]_vars, Growing
    PROVE  \A o \in Ops : ops'[o].version <= Begun'
<1> USE DEF instances, tables, requested, counted
<1>0. ops \in [Ops -> [pc : PCs, path : Paths \cup {0}, version : Nat]]
  BY DEF ManagerType
<1>1. ASSUME NEW o \in Ops, NEW r, ops' = [ops EXCEPT ![o] = r], r.version \in Nat, r.version <= Begun'
      PROVE  \A x \in Ops : ops'[x].version <= Begun'
  <2>1. \A x \in Ops : ops[x].version \in Nat /\ ops[x].version <= Begun
    BY <1>0 DEF NumInv
  <2>2. \A x \in Ops : ops'[x] = IF x = o THEN r ELSE ops[x]
    BY <1>0, <1>1
  <2> QED
    BY <1>1, <2>1, <2>2 DEF Growing
<1>2. ASSUME \A x \in Ops : ops'[x].version = ops[x].version
      PROVE  \A x \in Ops : ops'[x].version <= Begun'
  <2>1. \A x \in Ops : ops[x].version \in Nat /\ ops[x].version <= Begun
    BY <1>0 DEF NumInv
  <2> QED
    BY <1>2, <2>1 DEF Growing
<1>3. ASSUME NEW o \in Ops, NEW pc, ops' = [ops EXCEPT ![o].pc = pc]
      PROVE  \A x \in Ops : ops'[x].version = ops[x].version
  BY <1>0, <1>3
<1>4. CASE Operation
  <2> PICK o \in Ops : Choose(o) \/ Clear(o) \/ Unpack(o) \/ Submit(o) \/ Delete(o) \/ AskUndeploy(o)
    BY <1>4 DEF Operation
  <2>1. CASE Choose(o)
    <3>1. PICK p \in setting.paths :
             ops' = [ops EXCEPT ![o] = [pc |-> "chosen", path |-> p, version |-> NextVersion(p)]]
      BY <2>1 DEF Choose
    <3>2. ops[o].pc = "idle" /\ ops'[o].pc # "idle" /\ p \in Paths
      BY <1>0, <2>1, <3>1, OpsAssumption DEF Choose, MayStart, ManagerType
    <3>3. BegunOf(ops) + 1 <= BegunOf(ops')
      BY <3>2, OpsGrow, CountsGrow
    <3>4. Begun' = BegunOf(ops') /\ Begun = BegunOf(ops)
      BY DEF Begun, BegunOf
    <3>5. versions[p] \in Nat /\ versions[p] <= Ended
      BY <3>2 DEF ManagerType, NumInv
    <3> DEFINE r == [pc |-> "chosen", path |-> p, version |-> NextVersion(p)]
    <3>6. r.version \in Nat /\ r.version <= Begun'
      BY <3>3, <3>4, <3>5 DEF NextVersion, Growing
    <3>7. ops' = [ops EXCEPT ![o] = r]
      BY <3>1
    <3> HIDE DEF r
    <3> QED
      BY <1>1, <3>6, <3>7
  <2>2. CASE Delete(o)
    <3>1. PICK p \in setting.paths :
             ops' = [ops EXCEPT ![o] = [pc |-> "deleted", path |-> p, version |-> 0]]
      BY <2>2 DEF Delete
    <3> DEFINE r == [pc |-> "deleted", path |-> p, version |-> 0]
    <3>2. r.version \in Nat /\ r.version <= Begun'
      BY DEF Growing
    <3>3. ops' = [ops EXCEPT ![o] = r]
      BY <3>1
    <3> HIDE DEF r
    <3> QED
      BY <1>1, <3>2, <3>3
  <2>3. CASE Clear(o) \/ Unpack(o) \/ Submit(o) \/ AskUndeploy(o)
    <3>1. \E pc : ops' = [ops EXCEPT ![o].pc = pc]
      BY <2>3 DEF Clear, Unpack, Submit, AskUndeploy
    <3> QED
      BY <1>2, <1>3, <3>1
  <2> QED
    BY <2>1, <2>2, <2>3
<1>5. CASE Deploys
  <2> PICK d \in deploying : \/ Build(d) \/ Publish(d) \/ Report(d) \/ TellOk(d) \/ EndOk(d)
                             \/ TellError(d) \/ EndError(d) \/ Finally(d)
    BY <1>5 DEF Deploys
  <2>1. \/ UNCHANGED ops
        \/ d.task.op # Boot /\ ops' = [ops EXCEPT ![d.task.op].pc = "ended"]
    BY DEF Build, Publish, Report, TellOk, EndOk, TellError, EndError, Finally, Tell
  <2>2. d.task.op \in Ops \cup {Boot}
    BY DEF ManagerType, Deployments, DeployTasks
  <2> QED
    BY <1>2, <1>3, <2>1, <2>2
<1>6. CASE Restart
  <2>1. ops' = [o \in Ops |-> IF AtRest(o) THEN ops[o] ELSE [ops[o] EXCEPT !.pc = "ended"]]
    BY <1>6 DEF Restart
  <2>2. \A o \in Ops : [ops[o] EXCEPT !.pc = "ended"].version = ops[o].version
    BY <1>0
  <2> QED
    BY <1>2, <2>1, <2>2
<1>7. CASE UNCHANGED ops
  BY <1>2, <1>7
<1> QED
  BY <1>4, <1>5, <1>6, <1>7
     DEF Next, Tick, Manager, TakeNext, RunUpdateStatus, RunUndeploy, RunDeploy, vars

\* the versions of the table
LEMMA TableNumbered ==
    ASSUME ManagerType, NumInv, [Next]_vars, Growing
    PROVE  \A p \in Paths : versions'[p] <= Ended'
<1> USE DEF instances, tables, requested, counted
<1>0. versions \in [Paths -> Nat] /\ \A p \in Paths : versions[p] <= Ended
  BY DEF ManagerType, NumInv
<1>1. ASSUME NEW p, NEW v \in Nat, v <= Ended, versions' = [versions EXCEPT ![p] = v]
      PROVE  \A r \in Paths : versions'[r] <= Ended'
  BY <1>0, <1>1 DEF Growing
<1>2. CASE UNCHANGED versions
  BY <1>0, <1>2 DEF Growing
<1>3. CASE RunUndeploy
  <2>1. UNCHANGED versions \/ \E p : versions' = [versions EXCEPT ![p] = 0]
    BY <1>3 DEF RunUndeploy, Forget
  <2>2. 0 <= Ended
    BY DEF Growing
  <2> QED
    BY <1>1, <1>2, <2>1, <2>2
<1>4. ASSUME NEW d \in deploying, EndOk(d) PROVE \A r \in Paths : versions'[r] <= Ended'
  <2>1. d.stage = "told" /\ d.version \in Nat
    BY <1>4 DEF EndOk, ManagerType, Deployments
  <2>2. d.version <= Ended
    BY <2>1 DEF NumInv, DepNumbered
  <2>3. UNCHANGED versions \/ versions' = [versions EXCEPT ![d.task.path] = d.version]
    BY <1>4 DEF EndOk, Record
  <2> QED
    BY <1>1, <1>2, <2>1, <2>2, <2>3
<1>5. CASE Restart
  <2>1. \A p \in Paths : versions'[p] = 0
    BY <1>5 DEF Restart
  <2> QED
    BY <2>1 DEF Growing
<1> QED
  BY <1>2, <1>3, <1>4, <1>5
     DEF Next, Operation, Choose, Clear, Unpack, Submit, Delete, AskUndeploy, Tick, Manager,
         TakeNext, RunUpdateStatus, RunDeploy, Deploys, Build, Publish, Report, TellOk,
         TellError, EndError, Finally, vars

-----------------------------------------------------------------------------
(* What is in the deque and in the executor after a step.                     *)

LEMMA PushElements ==
    ASSUME NEW s \in Seq(KnownTasks), NEW t \in KnownTasks
    PROVE  \A i \in DOMAIN (<<t>> \o s) :
               (i = 1 /\ (<<t>> \o s)[i] = t) \/ (i - 1 \in DOMAIN s /\ (<<t>> \o s)[i] = s[i - 1])
<1>1. /\ DOMAIN (<<t>> \o s) = 1 .. Len(s) + 1 /\ DOMAIN s = 1 .. Len(s) /\ Len(s) \in Nat
      /\ \A i \in 1 .. Len(s) + 1 : (<<t>> \o s)[i] = IF i = 1 THEN t ELSE s[i - 1]
  OBVIOUS
<1> QED
  BY <1>1

LEMMA TailElements ==
    ASSUME NEW s \in Seq(KnownTasks), s # <<>>
    PROVE  /\ 1 \in DOMAIN s /\ Head(s) = s[1] /\ Head(s) \in KnownTasks
           /\ \A i \in DOMAIN Tail(s) : i \in Nat /\ i + 1 \in DOMAIN s /\ i + 1 # 1 /\ Tail(s)[i] = s[i + 1]
<1>1. /\ DOMAIN s = 1 .. Len(s) /\ Len(s) \in Nat /\ Len(s) # 0
      /\ DOMAIN Tail(s) = 1 .. Len(s) - 1
      /\ \A i \in 1 .. Len(s) - 1 : Tail(s)[i] = s[i + 1]
  OBVIOUS
<1>2. 1 \in DOMAIN s /\ Head(s) = s[1] /\ s[1] \in KnownTasks
  BY <1>1
<1> QED
  BY <1>1, <1>2

LEMMA AppendElements ==
    ASSUME NEW s \in Seq(KnownTasks), NEW t \in KnownTasks
    PROVE  \A i \in DOMAIN Append(s, t) :
               Append(s, t)[i] = t \/ (i \in DOMAIN s /\ Append(s, t)[i] = s[i])
<1>1. /\ DOMAIN Append(s, t) = 1 .. Len(s) + 1 /\ DOMAIN s = 1 .. Len(s) /\ Len(s) \in Nat
      /\ \A i \in 1 .. Len(s) + 1 : Append(s, t)[i] = IF i = Len(s) + 1 THEN t ELSE s[i]
  OBVIOUS
<1> QED
  BY <1>1

\* a step may push a task, take the next, and give the turn on
LEMMA TaskSteps ==
    ASSUME ManagerType, TurnInv, [Next]_vars, ~Restart
    PROVE  /\ \A i \in DOMAIN q' :
                  \/ q'[i] = UpdateStatus
                  \/ \E p : q'[i] = Undeploy(p)
                  \/ \E p, c : \E o \in Ops : q'[i] = Task("deploy", p, 0, c, o)
                  \/ \E j \in DOMAIN q : q'[i] = q[j]
           /\ \A i \in DOMAIN executor' :
                  \/ executor'[i] = WaitForNextTask
                  \/ \E j \in DOMAIN q : executor'[i] = q[j]
                  \/ \E j \in DOMAIN executor : executor'[i] = executor[j]
<1> USE DEF instances, tables, requested, counted
<1> DEFINE Q == \A i \in DOMAIN q' :
                  \/ q'[i] = UpdateStatus
                  \/ \E p : q'[i] = Undeploy(p)
                  \/ \E p, c : \E o \in Ops : q'[i] = Task("deploy", p, 0, c, o)
                  \/ \E j \in DOMAIN q : q'[i] = q[j]
           X == \A i \in DOMAIN executor' :
                  \/ executor'[i] = WaitForNextTask
                  \/ \E j \in DOMAIN q : executor'[i] = q[j]
                  \/ \E j \in DOMAIN executor : executor'[i] = executor[j]
<1>0. q \in Seq(KnownTasks) /\ executor \in Seq(KnownTasks) /\ WaitForNextTask \in KnownTasks
  BY SmallKnown DEF ManagerType
<1>1. UNCHANGED q => Q
  OBVIOUS
<1>2. UNCHANGED executor => X
  OBVIOUS
<1>3. ASSUME NEW t \in KnownTasks, Push(t),
             t = UpdateStatus \/ (\E p : t = Undeploy(p))
                 \/ (\E p, c : \E o \in Ops : t = Task("deploy", p, 0, c, o))
      PROVE  Q
  <2>1. q' = <<t>> \o q
    BY <1>3 DEF Push
  <2>2. \A i \in DOMAIN q' : q'[i] = t \/ \E j \in DOMAIN q : q'[i] = q[j]
    BY <1>0, <2>1, PushElements
  <2> QED
    BY <1>3, <2>2
<1>4. executor' = Append(executor, WaitForNextTask) => X
  BY <1>0, AppendElements
<1>5. executor # <<>> /\ EndTask => X
  <2> SUFFICES ASSUME executor # <<>>, EndTask PROVE X
    OBVIOUS
  <2>1. executor = <<Head(executor)>>
    BY DEF TurnInv, Turn
  <2>2. executor' = <<WaitForNextTask>>
    BY <2>1, OneElement DEF EndTask
  <2> QED
    BY <2>2
<1>6. CASE Operation
  <2> PICK o \in Ops : Choose(o) \/ Clear(o) \/ Unpack(o) \/ Submit(o) \/ Delete(o) \/ AskUndeploy(o)
    BY <1>6 DEF Operation
  <2>1. UNCHANGED executor
    BY DEF Choose, Clear, Unpack, Submit, Delete, AskUndeploy
  <2>2. CASE Submit(o)
    <3> DEFINE c == disk[ops[o].path][ops[o].version]
               t == Task("deploy", ops[o].path, 0, c, o)
    <3>1. UNCHANGED q \/ (Push(t) /\ c \in Ops)
      BY <2>2 DEF Submit
    <3>2. c \in Ops => t \in KnownTasks
      <4>1. ops[o].path \in Paths
        BY <2>2 DEF Submit, ManagerType, AtWork
      <4> HIDE DEF c
      <4> QED
        BY <4>1 DEF KnownTasks, DeployTasks, Task
    <3>4. \E p, e : \E x \in Ops : t = Task("deploy", p, 0, e, x)
      BY Zenon
    <3> HIDE DEF t, c
    <3> QED
      BY <1>1, <1>2, <1>3, <2>1, <3>1, <3>2, <3>4
  <2>3. CASE AskUndeploy(o)
    <3>1. Push(Undeploy(ops[o].path))
      BY <2>3 DEF AskUndeploy
    <3>2. Undeploy(ops[o].path) \in KnownTasks
      BY <2>3 DEF AskUndeploy, ManagerType, AtWork, Undeploy, Task, KnownTasks, UndeployTasks, Boot
    <3> QED
      BY <1>2, <1>3, <2>1, <3>1, <3>2
  <2>4. CASE Choose(o) \/ Clear(o) \/ Unpack(o) \/ Delete(o)
    BY <1>1, <1>2, <2>1, <2>4 DEF Choose, Clear, Unpack, Delete
  <2> QED
    BY <2>2, <2>3, <2>4
<1>7. CASE Tick
  BY <1>2, <1>3, <1>7, SmallKnown DEF Tick
<1>8. CASE TakeNext
  <2>1. executor # <<>> /\ q # <<>> /\ q' = Tail(q) /\ executor' = Append(Tail(executor), Head(q))
    BY <1>8 DEF TakeNext, Runs
  <2>2. executor = <<Head(executor)>>
    BY <2>1 DEF TurnInv, Turn
  <2>3. executor' = <<Head(q)>>
    BY <2>1, <2>2, OneElement
  <2>4. X
    BY <1>0, <2>1, <2>3, TailElements
  <2>5. Q
    BY <1>0, <2>1, TailElements
  <2> QED
    BY <2>4, <2>5
<1>9. CASE RunUpdateStatus \/ RunUndeploy
  BY <1>1, <1>5, <1>9 DEF RunUpdateStatus, RunUndeploy, Runs
<1>10. CASE RunDeploy
  <2>1. executor # <<>> /\ executor' = Tail(executor) /\ UNCHANGED q
    BY <1>10 DEF RunDeploy, Runs
  <2>2. X
    BY <1>0, <2>1, TailElements
  <2> QED
    BY <1>1, <2>1, <2>2
<1>11. CASE Deploys
  <2>1. UNCHANGED q /\ (UNCHANGED executor \/ executor' = Append(executor, WaitForNextTask))
    BY <1>11 DEF Deploys, Build, Publish, Report, TellOk, EndOk, TellError, EndError, Finally, GiveBack
  <2> QED
    BY <1>1, <1>2, <1>4, <2>1
<1>12. CASE UNCHANGED vars
  BY <1>1, <1>2, <1>12 DEF vars
<1> QED
  BY <1>6, <1>7, <1>8, <1>9, <1>10, <1>11, <1>12 DEF Next, Manager

LEMMA BootNumbered ==
    ASSUME ManagerType, NumInv, Growing, Restart
    PROVE  /\ \A i \in DOMAIN q' : Numbered(q'[i], Ended')
           /\ \A i \in DOMAIN executor' : Numbered(executor'[i], Ended')
<1>1. PICK started \in Started : \E order \in SetToSeqs(started) :
         q' = [i \in DOMAIN order |-> Task("deploy", order[i], Newest(order[i]),
                                           Content(order[i]), Boot)]
  BY DEF Restart
<1>2. PICK order \in SetToSeqs(started) :
         q' = [i \in DOMAIN order |-> Task("deploy", order[i], Newest(order[i]),
                                           Content(order[i]), Boot)]
  BY <1>1
<1>3. Ended' = Begun
  <2>1. ops' = [o \in Ops |-> IF AtRest(o) THEN ops[o] ELSE [ops[o] EXCEPT !.pc = "ended"]]
    BY DEF Restart
  <2>2. \A o \in Ops : [ops[o] EXCEPT !.pc = "ended"].pc = "ended"
    BY DEF ManagerType
  <2>3. \A o \in Ops : ops'[o].pc = "ended" <=> ops[o].pc # "idle"
    BY <2>1, <2>2 DEF AtRest
  <2>4. { o \in Ops : ops'[o].pc = "ended" } = { o \in Ops : ops[o].pc # "idle" }
    BY <2>3
  <2> QED
    BY <2>4 DEF Ended, Begun, EndedOf, BegunOf
<1>4. ASSUME NEW i \in DOMAIN q' PROVE Numbered(q'[i], Ended')
  <2>1. order[i] \in started
    BY <1>2, <1>4 DEF SetToSeqs
  <2>2. order[i] \in Paths /\ Listed(order[i]) # {}
    BY <2>1, StartedHaveConfig
  <2>3. Newest(order[i]) \in Listed(order[i])
    BY <2>2, NewestListed
  <2>4. Newest(order[i]) \in Nat /\ Newest(order[i]) > 0 /\ Newest(order[i]) <= Begun
    BY <2>2, <2>3, Numbers DEF Listed, Versions, NumInv
  <2>5. q'[i].version = Newest(order[i])
    BY <1>2, <1>4 DEF Task
  <2> QED
    BY <1>3, <2>4, <2>5 DEF Numbered
<1>5. ASSUME NEW i \in DOMAIN executor' PROVE Numbered(executor'[i], Ended')
  <2>1. executor'[i] = WaitForNextTask
    BY <1>5 DEF Restart
  <2> QED
    BY <2>1, SmallNumbered, SmallKnown, StillNumbered
<1> QED
  BY <1>4, <1>5

LEMMA TasksNumbered ==
    ASSUME ManagerType, TurnInv, NumInv, [Next]_vars, Growing
    PROVE  /\ \A i \in DOMAIN q' : Numbered(q'[i], Ended')
           /\ \A i \in DOMAIN executor' : Numbered(executor'[i], Ended')
<1>1. CASE Restart
  BY <1>1, BootNumbered
<1>2. CASE ~Restart
  <2>1. /\ \A j \in DOMAIN q : q[j] \in KnownTasks /\ Numbered(q[j], Ended)
        /\ \A j \in DOMAIN executor : executor[j] \in KnownTasks /\ Numbered(executor[j], Ended)
    BY DEF ManagerType, NumInv
  <2>2. /\ \A j \in DOMAIN q : Numbered(q[j], Ended')
        /\ \A j \in DOMAIN executor : Numbered(executor[j], Ended')
    BY <2>1, StillNumbered
  <2>3. 0 <= Ended'
    BY DEF Growing
  <2>4. /\ Numbered(WaitForNextTask, Ended') /\ Numbered(UpdateStatus, Ended')
        /\ \A p : Numbered(Undeploy(p), Ended')
    BY <2>3 DEF Numbered, WaitForNextTask, UpdateStatus, Undeploy, Task
  <2>5. \A p, c : \A o \in Ops : Numbered(Task("deploy", p, 0, c, o), Ended')
    BY <2>3, Numbers DEF Numbered, Task
  <2>6. ASSUME NEW i \in DOMAIN q' PROVE Numbered(q'[i], Ended')
    <3>1. \/ q'[i] = UpdateStatus
          \/ \E p : q'[i] = Undeploy(p)
          \/ \E p, c : \E o \in Ops : q'[i] = Task("deploy", p, 0, c, o)
          \/ \E j \in DOMAIN q : q'[i] = q[j]
      BY <1>2, TaskSteps
    <3> QED
      BY <2>2, <2>4, <2>5, <3>1
  <2>7. ASSUME NEW i \in DOMAIN executor' PROVE Numbered(executor'[i], Ended')
    <3>1. \/ executor'[i] = WaitForNextTask
          \/ \E j \in DOMAIN q : executor'[i] = q[j]
          \/ \E j \in DOMAIN executor : executor'[i] = executor[j]
      BY <1>2, TaskSteps
    <3> QED
      BY <2>2, <2>4, <3>1
  <2> QED
    BY <2>6, <2>7
<1> QED
  BY <1>1, <1>2

LEMMA LaterNumber ==
    ASSUME Growing, NEW v \in 1 .. Begun, v <= Ended + 1
    PROVE  v \in 1 .. Begun' /\ v <= Ended' + 1 /\ (v <= Ended => v <= Ended')
<1>1. /\ Ended \in Nat /\ Ended' \in Nat /\ Ended <= Ended'
  BY DEF Growing
<1>2. /\ Begun \in Nat /\ Begun' \in Nat /\ Begun <= Begun'
  BY DEF Growing
<1>3. v \in Nat /\ 1 <= v /\ v <= Begun
  BY <1>2
<1>4. 1 <= v /\ v <= Begun'
  BY <1>2, <1>3
<1>5. v \in 1 .. Begun'
  BY <1>2, <1>3, <1>4
<1>6. v <= Ended' + 1
  <2>1. \A x, y, z \in Nat : x <= y + 1 /\ y <= z => x <= z + 1
    OBVIOUS
  <2> QED
    BY <1>1, <1>3, <2>1, Zenon
<1>7. v <= Ended => v <= Ended'
  BY <1>1, <1>3
<1> QED
  BY <1>5, <1>6, <1>7

\* the number a deployment begins with
LEMMA BeginsNumbered ==
    ASSUME ManagerType, TurnInv, AnswerInv, NumInv, Growing, RunDeploy
    PROVE  LET task    == Head(executor)
               version == IF task.version > 0 THEN task.version ELSE NextVersion(task.path)
           IN  /\ task \in DeployTasks /\ version \in Nat
               /\ version \in 1 .. Begun /\ version <= Ended + 1
               /\ task.op = Boot => version <= Ended
<1> DEFINE task    == Head(executor)
           version == IF task.version > 0 THEN task.version ELSE NextVersion(task.path)
<1> SUFFICES /\ task \in DeployTasks /\ version \in Nat
             /\ version \in 1 .. Begun /\ version <= Ended + 1
             /\ task.op = Boot => version <= Ended
  BY Zenon
<1>1. executor # <<>> /\ task.what = "deploy"
  BY DEF RunDeploy, Runs
<1>2. 1 \in DOMAIN executor /\ task = executor[1] /\ task \in KnownTasks
  BY <1>1, TailElements DEF ManagerType
<1>3. task \in DeployTasks /\ Numbered(task, Ended)
  BY <1>1, <1>2, DeployIsDeploy DEF NumInv
<1>4. task.path \in Paths /\ task.version \in Nat /\ task.op \in Ops \cup {Boot}
  BY <1>3 DEF DeployTasks
<1>5. versions[task.path] \in Nat /\ versions[task.path] <= Ended
  BY <1>4 DEF ManagerType, NumInv
<1>6. CASE task.version > 0
  <2>1. task.version <= Ended
    BY <1>3 DEF Numbered
  <2> QED
    BY <1>3, <1>4, <1>6, <2>1 DEF Growing
<1>7. CASE ~(task.version > 0)
  <2>1. task.op \in Ops /\ task.op # Boot
    BY <1>1, <1>3, <1>4, <1>7, Numbers DEF Numbered
  <2>2. Begins(task.op)
    BY <1>2 DEF Begins
  <2>3. ops[task.op].pc = "waiting"
    BY <2>1, <2>2 DEF AnswerInv, AnswerOf
  <2>4. Ended + 1 <= Begun
    BY <2>1, <2>3, Counts DEF Ended, Begun
  <2>5. version = versions[task.path] + 1
    BY <1>7 DEF NextVersion
  <2> HIDE DEF version, task
  <2> QED
    BY <1>3, <1>5, <2>1, <2>4, <2>5 DEF Growing
<1> QED
  BY <1>6, <1>7

LEMMA DeploymentsNumbered ==
    ASSUME ManagerType, TurnInv, AnswerInv, NumInv, [Next]_vars, Growing
    PROVE  \A d \in deploying' : DepNumbered(d, Begun', Ended')
<1> USE DEF instances, tables, requested, counted
<1>0. \A d \in deploying : d \in Deployments /\ DepNumbered(d, Begun, Ended) /\ DepNumbered(d, Begun', Ended')
  BY StillNumbered DEF ManagerType, NumInv
<1>1. CASE UNCHANGED deploying \/ deploying' = {}
  BY <1>0, <1>1
<1>2. CASE RunDeploy
  <2> DEFINE task    == Head(executor)
             version == IF task.version > 0 THEN task.version ELSE NextVersion(task.path)
             Begun1(stage, unpause) == Deployment(task, version, applications[task.path], stage, unpause)
  <2>1. PICK stage \in {"building", "failing"} : \E unpause :
             deploying' = deploying \cup {Begun1(stage, unpause)}
    BY <1>2 DEF RunDeploy
  <2>2. PICK unpause : deploying' = deploying \cup {Begun1(stage, unpause)}
    BY <2>1
  <2>3. /\ version \in Nat /\ version \in 1 .. Begun /\ version <= Ended + 1
        /\ task.op = Boot => version <= Ended
    BY <1>2, BeginsNumbered
  <2>4. /\ Begun1(stage, unpause).version = version /\ Begun1(stage, unpause).task = task
        /\ Begun1(stage, unpause).stage # "told"
    BY <2>1 DEF Deployment
  <2> HIDE DEF version, task, Begun1
  <2>5. /\ version \in 1 .. Begun' /\ version <= Ended' + 1
        /\ task.op = Boot => version <= Ended'
    BY <2>3, LaterNumber
  <2>6. DepNumbered(Begun1(stage, unpause), Begun', Ended')
    BY <2>4, <2>5 DEF DepNumbered
  <2> QED
    BY <1>0, <2>2, <2>6
<1>3. ASSUME NEW d \in deploying, Deploys,
             \/ Build(d) \/ Publish(d) \/ Report(d) \/ TellOk(d) \/ EndOk(d)
             \/ TellError(d) \/ EndError(d) \/ Finally(d)
      PROVE  \A e \in deploying' : DepNumbered(e, Begun', Ended')
  <2>0. d \in Deployments /\ DepNumbered(d, Begun, Ended) /\ d.version \in Nat
    BY <1>0 DEF Deployments
  <2>1. ASSUME NEW stage \in Stages, Goes(d, stage), stage # "told"
        PROVE  \A e \in deploying' : DepNumbered(e, Begun', Ended')
    <3> DEFINE next == [d EXCEPT !.stage = stage]
    <3>1. next.version = d.version /\ next.task = d.task /\ next.stage # "told"
      BY <2>0, <2>1, AtStage
    <3>2. deploying' = (deploying \ {d}) \cup {next}
      BY <2>1 DEF Goes
    <3> HIDE DEF next
    <3>3. DepNumbered(next, Begun', Ended')
      BY <2>0, <3>1 DEF DepNumbered, Growing
    <3> QED
      BY <1>0, <3>2, <3>3
  <2>2. CASE TellOk(d)
    <3> DEFINE next == [d EXCEPT !.stage = "told"]
    <3>1. next.version = d.version /\ next.task = d.task
      BY <2>0, AtStage DEF Stages
    <3>2. deploying' = (deploying \ {d}) \cup {next} /\ d.stage = "reported" /\ Tell(d, "ok")
      BY <2>2 DEF TellOk, Goes
    <3> HIDE DEF next
    <3>3. d.version <= Ended'
      <4>1. CASE d.task.op = Boot
        BY <2>0, <4>1 DEF DepNumbered, Growing
      <4>2. CASE d.task.op # Boot
        <5>1. d.task.op \in Ops
          BY <2>0, <4>2 DEF Deployments, DeployTasks
        <5>2. UnderWay(d.task.op)
          BY <3>2 DEF UnderWay, Untold
        <5>3. ops[d.task.op].pc = "waiting"
          BY <5>1, <5>2 DEF AnswerInv, AnswerOf
        <5>4. ops' = [ops EXCEPT ![d.task.op].pc = "ended"]
          BY <3>2, <4>2 DEF Tell
        <5>5. ops'[d.task.op].pc = "ended"
          BY <5>1, <5>4 DEF ManagerType
        <5>6. EndedOf(ops) + 1 <= EndedOf(ops')
          BY <5>1, <5>3, <5>5, OpsGrow, CountsGrow
        <5>7. Ended + 1 <= Ended'
          BY <5>6 DEF Ended, EndedOf
        <5> QED
          BY <2>0, <5>7 DEF DepNumbered, Growing
      <4> QED
        BY <4>1, <4>2
    <3>4. DepNumbered(next, Begun', Ended')
      BY <2>0, <3>1, <3>3 DEF DepNumbered, Growing
    <3> QED
      BY <1>0, <3>2, <3>4
  <2>3. CASE EndError(d)
    <3> DEFINE last == [d EXCEPT !.stage = "final", !.done = TRUE]
    <3>1. last.version = d.version /\ last.task = d.task /\ last.stage # "told"
      <4>1. last = [task |-> d.task, version |-> d.version, previous |-> d.previous,
                    stage |-> "final", unpause |-> d.unpause, done |-> TRUE]
        BY <2>0, AtLast, Zenon
      <4> HIDE DEF last
      <4> QED
        BY <4>1
    <3>2. \A e \in deploying' : e \in deploying \/ e = last
      BY <2>3 DEF EndError
    <3> HIDE DEF last
    <3>3. DepNumbered(last, Begun', Ended')
      BY <2>0, <3>1 DEF DepNumbered, Growing
    <3> QED
      BY <1>0, <3>2, <3>3
  <2>4. CASE Finally(d)
    BY <1>0, <2>4 DEF Finally
  <2> QED
    BY <1>3, <2>1, <2>2, <2>3, <2>4
       DEF Build, Publish, Report, EndOk, TellError, Thrown, Stages
<1> QED
  BY <1>1, <1>2, <1>3
     DEF Next, Operation, Choose, Clear, Unpack, Submit, Delete, AskUndeploy, Tick, Manager,
         TakeNext, RunUpdateStatus, RunUndeploy, Deploys, Restart, vars

\* the versions on disk
LEMMA DiskNumbered ==
    ASSUME ManagerType, TurnInv, AnswerInv, NumInv, [Next]_vars, Growing
    PROVE  \A p \in Paths, v \in Versions : disk'[p][v] # Missing => v <= Begun'
<1> USE DEF instances, tables, requested, counted
<1>0. /\ disk \in [Paths -> Directories]
      /\ \A p \in Paths, v \in Versions : disk[p][v] # Missing => v <= Begun
      /\ \A v \in Versions : v \in Nat
  BY Numbers DEF ManagerType, NumInv, Versions
<1>1. ASSUME \A p \in Paths, v \in Versions : disk'[p][v] # Missing => disk[p][v] # Missing \/ v <= Begun
      PROVE  \A p \in Paths, v \in Versions : disk'[p][v] # Missing => v <= Begun'
  BY <1>0, <1>1 DEF Growing
<1>2. ASSUME NEW r, NEW w, w <= Begun, NEW c, disk' = [disk EXCEPT ![r][w] = c]
      PROVE  \A p \in Paths, v \in Versions : disk'[p][v] # Missing => disk[p][v] # Missing \/ v <= Begun
  <2>1. \A p \in Paths, v \in Versions : disk[p] \in Directories
    BY <1>0
  <2>2. \A p \in Paths, v \in Versions : disk'[p][v] = IF p = r /\ v = w THEN c ELSE disk[p][v]
    BY <1>0, <1>2 DEF Directories
  <2> QED
    BY <1>2, <2>2
<1>3. ASSUME NEW r, NEW D, disk' = [disk EXCEPT ![r] = D],
             \A v \in Versions : D[v] # Missing => disk[r][v] # Missing
      PROVE  \A p \in Paths, v \in Versions : disk'[p][v] # Missing => disk[p][v] # Missing \/ v <= Begun
  BY <1>0, <1>3
<1>4. CASE UNCHANGED disk
  BY <1>1, <1>4
<1>5. CASE Operation
  <2> PICK o \in Ops : Choose(o) \/ Clear(o) \/ Unpack(o) \/ Submit(o) \/ Delete(o) \/ AskUndeploy(o)
    BY <1>5 DEF Operation
  <2>1. CASE Clear(o) \/ Unpack(o)
    <3>1. \E c : disk' = [disk EXCEPT ![ops[o].path][ops[o].version] = c]
      BY <2>1 DEF Clear, Unpack
    <3>2. ops[o].version <= Begun
      BY DEF NumInv
    <3> QED
      BY <1>1, <1>2, <3>1, <3>2
  <2>2. CASE Delete(o)
    <3>1. PICK p \in setting.paths : disk' = [disk EXCEPT ![p] = [v \in Versions |-> Missing]]
      BY <2>2 DEF Delete
    <3> DEFINE D == [v \in Versions |-> Missing]
    <3>2. \A v \in Versions : D[v] # Missing => disk[p][v] # Missing
      OBVIOUS
    <3>3. disk' = [disk EXCEPT ![p] = D]
      BY <3>1
    <3> HIDE DEF D
    <3> QED
      BY <1>1, <1>3, <3>2, <3>3
  <2> QED
    BY <1>4, <2>1, <2>2 DEF Choose, Submit, AskUndeploy
<1>6. CASE RunDeploy
  <2> DEFINE task    == Head(executor)
             p       == task.path
             version == IF task.version > 0 THEN task.version ELSE NextVersion(p)
             made    == [disk EXCEPT ![p][version] = IF @ = Missing THEN Empty ELSE @]
  <2>1. version \in 1 .. Begun
    BY <1>6, BeginsNumbered
  <2>2. disk' \in {disk, made}
    BY <1>6 DEF RunDeploy
  <2>3. \E c : made = [disk EXCEPT ![p][version] = c]
    <3> HIDE DEF version, p
    <3>1. made = [disk EXCEPT ![p][version] = IF disk[p][version] = Missing THEN Empty ELSE disk[p][version]]
      BY Zenon
    <3> QED
      BY <3>1, Zenon
  <2>4. version <= Begun
    BY <2>1 DEF Growing
  <2> HIDE DEF version, p, made
  <2> QED
    BY <1>1, <1>2, <1>4, <2>2, <2>3, <2>4
<1>7. ASSUME NEW d \in deploying, EndOk(d)
      PROVE  \A p \in Paths, v \in Versions : disk'[p][v] # Missing => v <= Begun'
  <2> DEFINE p == d.task.path
             D == [v \in Versions |-> IF v \in Old(d) THEN Missing ELSE disk[p][v]]
  <2>1. UNCHANGED disk \/ disk' = [disk EXCEPT ![p] = D]
    BY <1>7, Zenon DEF EndOk
  <2>2. \A v \in Versions : D[v] # Missing => disk[p][v] # Missing
    OBVIOUS
  <2> HIDE DEF D, p
  <2> QED
    BY <1>1, <1>3, <1>4, <2>1, <2>2
<1>8. ASSUME NEW d \in deploying, EndError(d)
      PROVE  \A p \in Paths, v \in Versions : disk'[p][v] # Missing => v <= Begun'
  <2>1. \/ UNCHANGED disk
        \/ /\ disk' = [disk EXCEPT ![d.task.path][ops[d.task.op].version] = Missing]
           /\ d.task.op # Boot
    BY <1>8 DEF EndError, CleanUp
  <2>2. d.task.op # Boot => ops[d.task.op].version <= Begun
    BY DEF NumInv, ManagerType, Deployments, DeployTasks
  <2> QED
    BY <1>1, <1>2, <1>4, <2>1, <2>2
<1> QED
  BY <1>4, <1>5, <1>6, <1>7, <1>8
     DEF Next, Tick, Manager, TakeNext, RunUpdateStatus, RunUndeploy, Deploys, Build, Publish,
         Report, TellOk, TellError, Finally, Restart, vars

LEMMA NumStep ==
    ASSUME DeploymentInv, NumInv, [Next]_vars
    PROVE  NumInv'
<1>1. Growing /\ ManagerType /\ TurnInv /\ AnswerInv
  BY Grows DEF DeploymentInv
<1>2. \A o \in Ops : ops'[o].version <= Begun'
  BY <1>1, OpsNumbered
<1>3. \A p \in Paths : versions'[p] <= Ended'
  BY <1>1, TableNumbered
<1>4. /\ \A i \in DOMAIN q' : Numbered(q'[i], Ended')
      /\ \A i \in DOMAIN executor' : Numbered(executor'[i], Ended')
  BY <1>1, TasksNumbered
<1>5. \A d \in deploying' : DepNumbered(d, Begun', Ended')
  BY <1>1, DeploymentsNumbered
<1>6. \A p \in Paths, v \in Versions : disk'[p][v] # Missing => v <= Begun'
  BY <1>1, DiskNumbered
<1> QED
  BY <1>2, <1>3, <1>4, <1>5, <1>6 DEF NumInv, Numbered, DepNumbered

LEMMA InitNum == Init => NumInv
<1> SUFFICES ASSUME Init PROVE NumInv
  OBVIOUS
<1>1. Ended \in Nat /\ Begun \in Nat
  BY Counts DEF Ended, Begun
<1>2. \A o \in Ops : ops[o].version = 0
  BY DEF Init
<1>3. \A p \in Paths : versions[p] = 0 /\ \A v \in Versions : disk[p][v] = Missing
  BY DEF Init
<1>4. q = <<>> /\ executor = <<WaitForNextTask>> /\ deploying = {}
  BY DEF Init
<1>5. DOMAIN q = {} /\ \A i \in DOMAIN executor : executor[i] = WaitForNextTask
  BY <1>4
<1>6. Numbered(WaitForNextTask, Ended)
  BY <1>1 DEF Numbered, WaitForNextTask, Task
<1> QED
  BY <1>1, <1>2, <1>3, <1>4, <1>5, <1>6 DEF NumInv

-----------------------------------------------------------------------------
\* the bounds that are guards of the model, and what runs or is paused
RestTypeOK ==
    /\ ticks \in Nat /\ ticks <= setting.ticks /\ restarts <= setting.restarts
    /\ running \subseteq Paths \X (Ops \cup {Boot})
    /\ paused \subseteq Paths \X (Ops \cup {Boot})

LEMMA RestTypeStep ==
    ASSUME ManagerType, RestTypeOK, [Next]_vars
    PROVE  RestTypeOK'
<1> USE DEF instances, tables, requested, counted
<1>0. setting.ticks \in Nat /\ setting.restarts \in Nat /\ restarts \in Nat
  BY OpsAssumption DEF ManagerType
<1>1. setting' = setting
  BY DEF Next, Operation, Choose, Clear, Unpack, Submit, Delete, AskUndeploy, Tick, Manager,
         TakeNext, RunUpdateStatus, RunUndeploy, RunDeploy, Deploys, Build, Publish, Report, TellOk,
         EndOk, TellError, EndError, Finally, Restart, vars
<1>2. ticks' \in Nat /\ ticks' <= setting.ticks
  <2>1. UNCHANGED ticks \/ (ticks < setting.ticks /\ ticks' = ticks + 1)
    BY DEF Next, Operation, Choose, Clear, Unpack, Submit, Delete, AskUndeploy, Tick, Manager,
           TakeNext, RunUpdateStatus, RunUndeploy, RunDeploy, Deploys, Build, Publish, Report, TellOk,
           EndOk, TellError, EndError, Finally, Restart, vars
  <2>2. ticks \in Nat /\ ticks <= setting.ticks
    BY DEF RestTypeOK
  <2> QED
    BY <1>0, <2>1, <2>2
<1>3. restarts' <= setting.restarts
  <2>1. UNCHANGED restarts \/ (restarts < setting.restarts /\ restarts' = restarts + 1)
    BY DEF Next, Operation, Choose, Clear, Unpack, Submit, Delete, AskUndeploy, Tick, Manager,
           TakeNext, RunUpdateStatus, RunUndeploy, RunDeploy, Deploys, Build, Publish, Report, TellOk,
           EndOk, TellError, EndError, Finally, Restart, vars
  <2>2. restarts <= setting.restarts
    BY DEF RestTypeOK
  <2> QED
    BY <1>0, <2>1, <2>2
<1>4. \A p \in Paths, app \in Apps : Instance(p, app) \subseteq Paths \X (Ops \cup {Boot})
  BY DEF Instance, Apps
<1>5. running' \subseteq Paths \X (Ops \cup {Boot})
  <2>1. running \subseteq Paths \X (Ops \cup {Boot})
    BY DEF RestTypeOK
  <2>2. running' \subseteq running \/ \E d \in deploying : running' = running \cup New(d)
    BY DEF Next, Operation, Choose, Clear, Unpack, Submit, Delete, AskUndeploy, Tick, Manager,
           TakeNext, RunUpdateStatus, RunUndeploy, RunDeploy, Deploys, Build, Publish, Report, TellOk,
           EndOk, TellError, EndError, Finally, Restart, vars
  <2>3. \A d \in deploying : New(d) \subseteq Paths \X (Ops \cup {Boot})
    <3> TAKE d \in deploying
    <3>1. d.task.path \in Paths /\ NewApp(d) \in Apps
      BY DEF NewApp, App, Apps, ManagerType, Deployments, DeployTasks
    <3> QED
      BY <1>4, <3>1 DEF New
  <2> QED
    BY <2>1, <2>2, <2>3
<1>6. paused' \subseteq Paths \X (Ops \cup {Boot})
  <2>1. paused \subseteq Paths \X (Ops \cup {Boot})
    BY DEF RestTypeOK
  <2>2. \/ paused' \subseteq paused
        \/ /\ RunDeploy
           /\ paused' = paused \cup Instance(Head(executor).path, applications[Head(executor).path])
    BY DEF Next, Operation, Choose, Clear, Unpack, Submit, Delete, AskUndeploy, Tick, Manager,
           TakeNext, RunUpdateStatus, RunUndeploy, RunDeploy, Deploys, Build, Publish, Report, TellOk,
           EndOk, TellError, EndError, Finally, Restart, vars
  <2>3. RunDeploy => /\ Head(executor).path \in Paths
                     /\ applications[Head(executor).path] \in Apps
    <3> SUFFICES ASSUME RunDeploy PROVE Head(executor).path \in Paths
      BY DEF ManagerType
    <3>1. executor # <<>> /\ Head(executor).what = "deploy"
      BY DEF RunDeploy, Runs
    <3>2. Head(executor) \in KnownTasks
      BY <3>1, TailElements DEF ManagerType
    <3> QED
      BY <3>1, <3>2, DeployIsDeploy
  <2> QED
    BY <1>4, <2>1, <2>2, <2>3
<1> QED
  BY <1>1, <1>2, <1>3, <1>5, <1>6 DEF RestTypeOK

LEMMA TypedThen == DeploymentInv /\ NumInv /\ RestTypeOK => TypeOK
<1> SUFFICES ASSUME DeploymentInv, NumInv, RestTypeOK PROVE TypeOK
  OBVIOUS
<1> DEFINE n == Cardinality(Ops)
<1>1. ManagerType /\ n \in Nat /\ Versions = 1 .. n
  BY Numbers DEF DeploymentInv, Versions
<1>2. /\ Ended \in Nat /\ Begun \in Nat /\ Ended <= n /\ Begun <= n
  <2>1. /\ EndedOf(ops) \in Nat /\ BegunOf(ops) \in Nat
        /\ EndedOf(ops) <= BegunOf(ops) /\ BegunOf(ops) <= n
    BY Counts
  <2> HIDE DEF n
  <2> QED
    BY <1>1, <2>1 DEF Ended, Begun
<1> HIDE DEF n
<1>3. ops \in [Ops -> [pc : {"idle", "chosen", "cleared", "unpacked", "waiting", "deleted", "ended"},
                        path : Paths \cup {0}, version : Versions \cup {0}]]
  <2>1. \A o \in Ops : ops[o] \in [pc : PCs, path : Paths \cup {0}, version : Nat] /\ ops[o].version <= Begun
    BY <1>1 DEF ManagerType, NumInv
  <2>2. \A o \in Ops : ops[o].version \in Versions \cup {0}
    BY <1>1, <1>2, <2>1
  <2>3. \A o \in Ops : ops[o] \in [pc : PCs, path : Paths \cup {0}, version : Versions \cup {0}]
    BY <2>1, <2>2
  <2>4. PCs = {"idle", "chosen", "cleared", "unpacked", "waiting", "deleted", "ended"}
    BY DEF PCs, AtWork
  <2> QED
    BY <1>1, <2>3, <2>4 DEF ManagerType
<1>4. answers \in [Ops -> Seq({"ok", "error"})]
  BY <1>1 DEF ManagerType
<1>5. disk \in [Paths -> [Versions -> Ops \cup {Missing, Empty, Unparsed}]]
  BY <1>1 DEF ManagerType, Directories
<1>6. q \in Seq(Tasks) /\ executor \in Seq(Tasks)
  <2>1. KnownTasks \subseteq Tasks
    BY DEF KnownTasks, DeployTasks, UndeployTasks, SmallTasks, Tasks
  <2>2. q \in Seq(KnownTasks) /\ executor \in Seq(KnownTasks)
    BY <1>1 DEF ManagerType
  <2> QED
    BY <2>1, <2>2
<1>7. deploying \subseteq [task : Tasks, version : Versions, previous : Apps,
                           stage : Stages, unpause : BOOLEAN, done : BOOLEAN]
  <2> SUFFICES ASSUME NEW d \in deploying
               PROVE  d \in [task : Tasks, version : Versions, previous : Apps,
                             stage : Stages, unpause : BOOLEAN, done : BOOLEAN]
    OBVIOUS
  <2>1. d \in Deployments /\ DepNumbered(d, Begun, Ended)
    BY <1>1 DEF ManagerType, NumInv
  <2>2. d.version \in Versions
    BY <1>1, <1>2, <2>1 DEF DepNumbered
  <2>3. d.task \in Tasks
    BY <2>1 DEF Deployments, DeployTasks, Tasks
  <2> QED
    BY <2>1, <2>2, <2>3 DEF Deployments
<1>8. applications \in [Paths -> Apps] /\ status \in [Paths -> Apps]
  BY <1>1 DEF ManagerType
<1>9. versions \in [Paths -> Versions \cup {0}]
  <2>1. \A p \in Paths : versions[p] \in Nat /\ versions[p] <= Ended
    BY <1>1 DEF ManagerType, NumInv
  <2>2. \A p \in Paths : versions[p] \in Versions \cup {0}
    BY <1>1, <1>2, <2>1
  <2> QED
    BY <1>1, <2>2 DEF ManagerType
<1>10. /\ running \subseteq Paths \X (Ops \cup {Boot}) /\ paused \subseteq Paths \X (Ops \cup {Boot})
       /\ setting \in Settings
  BY <1>1 DEF RestTypeOK, ManagerType
<1>11. ticks \in 0 .. setting.ticks /\ restarts \in 0 .. setting.restarts
  <2>1. setting.ticks \in Nat /\ setting.restarts \in Nat
    BY <1>1, OpsAssumption DEF ManagerType
  <2> QED
    BY <1>1, <2>1 DEF RestTypeOK, ManagerType
<1> QED
  BY <1>3, <1>4, <1>5, <1>6, <1>7, <1>8, <1>9, <1>10, <1>11 DEF TypeOK

\* all that is known of every behaviour, whatever may go wrong
ManagerInv == DeploymentInv /\ NumInv /\ RestTypeOK

LEMMA InitManagerInv == Init => ManagerInv
<1>1. Init => RestTypeOK
  BY OpsAssumption DEF Init, RestTypeOK
<1> QED
  BY <1>1, InitDeploymentInv, InitNum DEF ManagerInv

LEMMA StepManagerInv ==
    ASSUME ManagerInv, [Next]_vars
    PROVE  ManagerInv'
<1>1. DeploymentInv'
  BY TypeStep, StepTurn, AnswerStep, PausedStep DEF ManagerInv, DeploymentInv
<1> QED
  BY <1>1, NumStep, RestTypeStep DEF ManagerInv, DeploymentInv

(* Every value is of its type, and no version number is above the number of    *)
(* operations, for any operations, faults, crashes and restarts: the            *)
(* directories of Versions are all that nextVersion can ask for.                *)
THEOREM ManagerTyped == Spec => []TypeOK
<1>1. ManagerInv /\ [Next]_vars => ManagerInv'
  BY StepManagerInv
<1>2. ManagerInv => TypeOK
  BY TypedThen DEF ManagerInv
<1> QED
  BY <1>1, <1>2, InitManagerInv, PTL DEF Spec

-----------------------------------------------------------------------------
(* What a restart would deploy.  With operations that wait for one another     *)
(* and nothing but refusals and failing builds (Careful) every path is in the  *)
(* hands of one operation, one task or one deployment at most (Apart), what    *)
(* these have made of its files and of the tables so far is known, and a path  *)
(* that nobody works on is as it would be after a restart (Rests).  RestartsAlike *)
(* is this at the moments when nobody works at all.                            *)

\* a statement on what may happen, which no step changes
Careful == ~setting.overlap /\ setting.faults \subseteq {"refuse", "build"}

Asks(t) == t.what \in {"deploy", "undeploy"}

\* what is deployed is the newest on disk, but for a version that is on its way
RestsBut(p, v) ==
    /\ versions[p] = applications[p].version
    /\ applications[p] # NoApp => /\ versions[p] \in Versions /\ applications[p].config \in Ops
                                  /\ disk[p][versions[p]] = applications[p].config
    /\ \A x \in Versions : x = v \/ disk[p][x] = Missing \/ x <= versions[p]

Rests(p) == RestsBut(p, 0)

\* the next version is on its way, with these files
Comes(p, v, config) ==
    /\ RestsBut(p, v) /\ v = versions[p] + 1
    /\ v \in Versions /\ disk[p][v] = config

IsNewest(p, v, config) ==
    /\ v \in Versions /\ disk[p][v] = config
    /\ \A x \in Versions : disk[p][x] = Missing \/ x <= v

Emptied(p) == /\ \A x \in Versions : disk[p][x] = Missing
              /\ applications[p] = NoApp => versions[p] = 0

OpAt(o) ==
    LET p == ops[o].path
        v == ops[o].version
    IN  /\ ops[o].pc = "chosen" => Rests(p)
        /\ ops[o].pc \in {"chosen", "cleared", "unpacked"} => RestsBut(p, v) /\ v = versions[p] + 1
        /\ ops[o].pc = "unpacked" => v \in Versions /\ disk[p][v] = o
        /\ ops[o].pc = "deleted" => Emptied(p)

TaskAt(t) ==
    /\ t.what = "undeploy" => Emptied(t.path)
    /\ t.what = "deploy" /\ t.op = Boot =>
           /\ IsNewest(t.path, t.version, t.config)
           /\ applications[t.path] = NoApp /\ versions[t.path] = 0
    /\ t.what = "deploy" /\ t.op # Boot =>
           t.version = 0 /\ Comes(t.path, ops[t.op].version, t.config)

Built == {"building", "built", "published", "reported", "told"}

DepAt(d) ==
    LET p == d.task.path
    IN  /\ d.task.op # Boot => ops[d.task.op].version = d.version
        /\ d.stage \in Built => IsNewest(p, d.version, d.task.config)
        /\ d.stage \in {"building", "built"} /\ d.task.op # Boot => Comes(p, d.version, d.task.config)
        /\ d.stage \in {"building", "built"} /\ d.task.op = Boot => applications[p] = NoApp
        /\ d.stage \in {"failing", "refused"} => d.task.op # Boot /\ Comes(p, d.version, d.task.config)
        /\ d.stage \in {"published", "reported", "told"} => applications[p] = NewApp(d)
        /\ d.stage = "final" => Rests(p)

Alone(o) ==
    /\ \A other \in Ops \ {o} : ops[other].pc \notin AtWork
    /\ \A t \in Range(q) : ~Asks(t)
    /\ \A t \in Range(executor) : ~Asks(t)
    /\ deploying = {}

\* one task at most asks for a path
Distinct(s) == \A i, j \in DOMAIN s : Asks(s[i]) /\ Asks(s[j]) /\ s[i].path = s[j].path => i = j

Apart ==
    /\ Distinct(q)
    /\ \A s \in Range(q), t \in Range(executor) : Asks(s) /\ Asks(t) => s.path # t.path
    /\ \A t \in Range(q), d \in deploying : Asks(t) => t.path # d.task.path
    /\ \A t \in Range(executor), d \in deploying : Asks(t) => t.path # d.task.path
    /\ \A d, e \in deploying : d.task.path = e.task.path => d = e

Free(p) ==
    /\ \A o \in Ops : ops[o].pc \in AtWork => ops[o].path # p
    /\ \A t \in Range(q) : Asks(t) => t.path # p
    /\ \A t \in Range(executor) : Asks(t) => t.path # p
    /\ \A d \in deploying : d.task.path # p

RestInv ==
    /\ \A o \in Ops : ops[o].pc \in AtWork => OpAt(o) /\ Alone(o)
    /\ \A t \in Range(q) : TaskAt(t)
    /\ \A t \in Range(executor) : TaskAt(t)
    /\ \A d \in deploying : DepAt(d)
    /\ Apart
    /\ \A p \in Paths : Free(p) => Rests(p)

CarefulInv == ManagerInv /\ (Careful => RestInv)

-----------------------------------------------------------------------------
\* nothing changes that is known of a path
SameAt(p) == /\ applications'[p] = applications[p]
             /\ versions'[p] = versions[p]
             /\ disk'[p] = disk[p]

SameOps == \A o \in Ops : ops'[o].version = ops[o].version /\ ops'[o].path = ops[o].path

LEMMA PathFrame ==
    ASSUME NEW p, SameAt(p)
    PROVE  /\ \A v : RestsBut(p, v) => RestsBut(p, v)'
           /\ Rests(p) => Rests(p)'
           /\ \A v, c : Comes(p, v, c) => Comes(p, v, c)'
           /\ \A v, c : IsNewest(p, v, c) => IsNewest(p, v, c)'
           /\ Emptied(p) => Emptied(p)'
<1>1. \A v : RestsBut(p, v) => RestsBut(p, v)'
  BY DEF SameAt, RestsBut
<1>2. Rests(p) => Rests(p)'
  BY <1>1 DEF Rests
<1>3. \A v, c : Comes(p, v, c) => Comes(p, v, c)'
  BY <1>1 DEF SameAt, Comes
<1> QED
  BY <1>1, <1>2, <1>3 DEF SameAt, IsNewest, Emptied

LEMMA TaskFrame ==
    ASSUME NEW t \in KnownTasks, TaskAt(t), SameOps, Asks(t) => SameAt(t.path)
    PROVE  TaskAt(t)'
<1>1. CASE t.what = "undeploy"
  <2>1. SameAt(t.path) /\ Emptied(t.path)
    BY <1>1 DEF Asks, TaskAt
  <2> QED
    BY <1>1, <2>1, PathFrame DEF TaskAt
<1>2. CASE t.what = "deploy" /\ t.op = Boot
  <2>1. SameAt(t.path)
    BY <1>2 DEF Asks
  <2>2. /\ IsNewest(t.path, t.version, t.config)
        /\ applications[t.path] = NoApp /\ versions[t.path] = 0
    BY <1>2 DEF TaskAt
  <2>3. IsNewest(t.path, t.version, t.config)'
    BY <2>1, <2>2, PathFrame
  <2> QED
    BY <1>2, <2>1, <2>2, <2>3 DEF TaskAt, SameAt
<1>3. CASE t.what = "deploy" /\ t.op # Boot
  <2>1. SameAt(t.path)
    BY <1>3 DEF Asks
  <2>2. t.version = 0 /\ Comes(t.path, ops[t.op].version, t.config)
    BY <1>3 DEF TaskAt
  <2>3. ops'[t.op].version = ops[t.op].version
    BY <1>3 DEF KnownTasks, DeployTasks, UndeployTasks, SmallTasks, SameOps
  <2>4. \A v : Comes(t.path, v, t.config) => Comes(t.path, v, t.config)'
    BY <2>1, PathFrame
  <2>5. \A v : v = ops'[t.op].version /\ Comes(t.path, v, t.config)' =>
                   Comes(t.path, ops[t.op].version, t.config)'
    BY DEF Comes, RestsBut
  <2>6. Comes(t.path, ops[t.op].version, t.config)'
    BY <2>2, <2>3, <2>4, <2>5
  <2> QED
    BY <1>3, <2>2, <2>6 DEF TaskAt
<1>4. CASE ~Asks(t)
  BY <1>4 DEF TaskAt, Asks
<1> QED
  BY <1>1, <1>2, <1>3, <1>4 DEF Asks

LEMMA DepFrame ==
    ASSUME NEW d \in Deployments, DepAt(d), SameOps, SameAt(d.task.path)
    PROVE  DepAt(d)'
<1> DEFINE p == d.task.path
<1>1. d.task.op # Boot => ops'[d.task.op].version = d.version
  BY DEF Deployments, DeployTasks, SameOps, DepAt
<1>2. /\ \A v, c : Comes(p, v, c) => Comes(p, v, c)'
      /\ \A v, c : IsNewest(p, v, c) => IsNewest(p, v, c)'
      /\ Rests(p) => Rests(p)'
  BY PathFrame
<1>3. applications'[p] = applications[p]
  BY DEF SameAt
<1> QED
  BY <1>1, <1>2, <1>3 DEF DepAt

-----------------------------------------------------------------------------
LEMMA PushRange ==
    ASSUME NEW s \in Seq(KnownTasks), NEW t \in KnownTasks
    PROVE  /\ \A u \in Range(<<t>> \o s) : u = t \/ u \in Range(s)
           /\ t \in Range(<<t>> \o s) /\ Range(s) \subseteq Range(<<t>> \o s)
           /\ Distinct(s) /\ (Asks(t) => \A u \in Range(s) : Asks(u) => u.path # t.path) =>
                  Distinct(<<t>> \o s)
<1> DEFINE w == <<t>> \o s
<1>1. \A i \in DOMAIN w : (i = 1 /\ w[i] = t) \/ (i - 1 \in DOMAIN s /\ w[i] = s[i - 1])
  BY PushElements
<1>2. /\ DOMAIN w = 1 .. Len(s) + 1 /\ DOMAIN s = 1 .. Len(s) /\ Len(s) \in Nat
      /\ w[1] = t /\ \A i \in 1 .. Len(s) : w[i + 1] = s[i]
  OBVIOUS
<1>3. 1 \in DOMAIN w /\ \A i \in DOMAIN s : i \in Nat /\ i + 1 \in DOMAIN w /\ w[i + 1] = s[i]
  BY <1>2
<1>4. DOMAIN w \subseteq Nat
  BY <1>2
<1>5. w[1] = t
  BY <1>2
<1> HIDE DEF w
<1>6. \A u \in Range(w) : u = t \/ u \in Range(s)
  BY <1>1 DEF Range
<1>7. t \in Range(w) /\ Range(s) \subseteq Range(w)
  BY <1>3, <1>5 DEF Range
<1>8. ASSUME Distinct(s), Asks(t) => \A u \in Range(s) : Asks(u) => u.path # t.path
      PROVE  Distinct(w)
  <2> SUFFICES ASSUME NEW i \in DOMAIN w, NEW j \in DOMAIN w, Asks(w[i]), Asks(w[j]), w[i].path = w[j].path
               PROVE  i = j
    BY DEF Distinct
  <2>1. \A k \in DOMAIN s : Asks(t) /\ Asks(s[k]) => s[k].path # t.path
    BY <1>8 DEF Range
  <2>2. CASE i = 1 /\ w[i] = t /\ j - 1 \in DOMAIN s /\ w[j] = s[j - 1]
    BY <2>1, <2>2
  <2>3. CASE j = 1 /\ w[j] = t /\ i - 1 \in DOMAIN s /\ w[i] = s[i - 1]
    BY <2>1, <2>3
  <2>4. CASE i - 1 \in DOMAIN s /\ w[i] = s[i - 1] /\ j - 1 \in DOMAIN s /\ w[j] = s[j - 1]
    <3>1. i - 1 = j - 1
      BY <1>8, <2>4 DEF Distinct
    <3> QED
      BY <1>4, <3>1
  <2> QED
    BY <1>1, <2>2, <2>3, <2>4
<1> QED
  BY <1>6, <1>7, <1>8 DEF w

LEMMA TailRange ==
    ASSUME NEW s \in Seq(KnownTasks), s # <<>>
    PROVE  /\ Head(s) \in Range(s) /\ Range(Tail(s)) \subseteq Range(s)
           /\ \A u \in Range(s) : u = Head(s) \/ u \in Range(Tail(s))
           /\ Distinct(s) =>
                  /\ Distinct(Tail(s))
                  /\ Asks(Head(s)) => \A u \in Range(Tail(s)) : Asks(u) => u.path # Head(s).path
<1> DEFINE r == Tail(s)
           h == Head(s)
<1>1. /\ 1 \in DOMAIN s /\ h = s[1]
      /\ \A i \in DOMAIN r : i \in Nat /\ i + 1 \in DOMAIN s /\ i + 1 # 1 /\ r[i] = s[i + 1]
  BY TailElements
<1>2. /\ DOMAIN s = 1 .. Len(s) /\ Len(s) \in Nat /\ DOMAIN r = 1 .. Len(s) - 1
      /\ \A i \in 1 .. Len(s) - 1 : r[i] = s[i + 1]
  OBVIOUS
<1>3. \A i \in DOMAIN s : i = 1 \/ (i - 1 \in DOMAIN r /\ r[i - 1] = s[i])
  BY <1>2
<1> HIDE DEF r, h
<1>4. h \in Range(s) /\ Range(r) \subseteq Range(s)
  BY <1>1 DEF Range
<1>5. \A u \in Range(s) : u = h \/ u \in Range(r)
  <2> TAKE u \in Range(s)
  <2>1. PICK i \in DOMAIN s : u = s[i]
    BY DEF Range
  <2>2. CASE i = 1
    BY <1>1, <2>1, <2>2
  <2>3. CASE i - 1 \in DOMAIN r /\ r[i - 1] = s[i]
    BY <2>1, <2>3 DEF Range
  <2> QED
    BY <1>3, <2>2, <2>3
<1>6. ASSUME Distinct(s) PROVE Distinct(r)
  <2> SUFFICES ASSUME NEW i \in DOMAIN r, NEW j \in DOMAIN r, Asks(r[i]), Asks(r[j]), r[i].path = r[j].path
               PROVE  i = j
    BY DEF Distinct
  <2>1. i + 1 = j + 1
    BY <1>1, <1>6 DEF Distinct
  <2> QED
    BY <1>1, <2>1
<1>7. ASSUME Distinct(s), Asks(h), NEW u \in Range(r), Asks(u) PROVE u.path # h.path
  <2> PICK i \in DOMAIN r : u = r[i]
    BY DEF Range
  <2> QED
    BY <1>1, <1>7 DEF Distinct
<1> QED
  BY <1>4, <1>5, <1>6, <1>7 DEF r, h

LEMMA AppendRange ==
    ASSUME NEW s \in Seq(KnownTasks), NEW t \in KnownTasks
    PROVE  /\ \A u \in Range(Append(s, t)) : u = t \/ u \in Range(s)
           /\ Range(s) \subseteq Range(Append(s, t))
<1> DEFINE w == Append(s, t)
<1>1. /\ DOMAIN w = 1 .. Len(s) + 1 /\ DOMAIN s = 1 .. Len(s) /\ Len(s) \in Nat
      /\ \A i \in 1 .. Len(s) : w[i] = s[i]
  OBVIOUS
<1>2. \A i \in DOMAIN s : i \in DOMAIN w /\ w[i] = s[i]
  BY <1>1
<1>3. \A i \in DOMAIN w : w[i] = t \/ (i \in DOMAIN s /\ w[i] = s[i])
  BY AppendElements
<1> HIDE DEF w
<1>4. Range(s) \subseteq Range(w)
  BY <1>2 DEF Range
<1>5. \A u \in Range(w) : u = t \/ u \in Range(s)
  BY <1>3 DEF Range
<1> QED
  BY <1>4, <1>5 DEF w

LEMMA SmallRanges ==
    /\ \A t : Range(<<t>>) = {t}
    /\ Range(<<>>) = {} /\ Distinct(<<>>)
    /\ ~Asks(WaitForNextTask) /\ ~Asks(UpdateStatus)
<1>1. \A t : Range(<<t>>) = {t}
  <2> TAKE t
  <2>1. DOMAIN <<t>> = {1} /\ <<t>>[1] = t
    OBVIOUS
  <2> QED
    BY <2>1 DEF Range
<1>2. DOMAIN <<>> = {}
  OBVIOUS
<1> QED
  BY <1>1, <1>2 DEF Range, Distinct, Asks, WaitForNextTask, UpdateStatus, Task

\* a task that asks is about one of the paths
LEMMA AsksPath ==
    ASSUME NEW t \in KnownTasks
    PROVE  Asks(t) => t.path \in Paths
BY DEF Asks, KnownTasks, DeployTasks, UndeployTasks, SmallTasks

LEMMA TasksKnown ==
    ASSUME ManagerType
    PROVE  Range(q) \subseteq KnownTasks /\ Range(executor) \subseteq KnownTasks
BY DEF ManagerType, Range

-----------------------------------------------------------------------------
\* tasks that ask nothing come and go, and the others change places
LEMMA MoveStep ==
    ASSUME ManagerType, ManagerType', RestInv, \A r \in Paths : SameAt(r), UNCHANGED <<ops, deploying>>,
           \A t \in Range(q') \cup Range(executor') : Asks(t) => t \in Range(q) \cup Range(executor),
           \A t \in Range(q) \cup Range(executor) : Asks(t) => t \in Range(q') \cup Range(executor'),
           Distinct(q'),
           \A s \in Range(q'), t \in Range(executor') : Asks(s) /\ Asks(t) => s.path # t.path
    PROVE  RestInv'
<1>1. SameOps
  BY DEF SameOps
<1>2. \A o \in Ops : ops[o].pc \in AtWork => OpAt(o)'
  <2> SUFFICES ASSUME NEW o \in Ops, ops[o].pc \in AtWork PROVE OpAt(o)'
    OBVIOUS
  <2>1. OpAt(o) /\ ops[o].path \in Paths
    BY DEF RestInv, ManagerType
  <2>2. SameAt(ops[o].path)
    BY <2>1
  <2> QED
    BY <2>1, <2>2, PathFrame DEF OpAt, SameAt
<1>3. \A o \in Ops : ops'[o].pc \in AtWork => OpAt(o)' /\ Alone(o)'
  BY <1>2 DEF RestInv, Alone
<1>4. \A t \in Range(q') \cup Range(executor') : TaskAt(t)'
  <2> SUFFICES ASSUME NEW t \in Range(q') \cup Range(executor') PROVE TaskAt(t)'
    OBVIOUS
  <2>1. CASE Asks(t)
    <3>1. t \in KnownTasks /\ TaskAt(t)
      BY <2>1, TasksKnown DEF RestInv
    <3> QED
      BY <1>1, <2>1, <3>1, TaskFrame, AsksPath
  <2>2. CASE ~Asks(t)
    BY <2>2 DEF Asks, TaskAt
  <2> QED
    BY <2>1, <2>2
<1>5. \A d \in deploying' : DepAt(d)'
  <2> SUFFICES ASSUME NEW d \in deploying PROVE DepAt(d)'
    OBVIOUS
  <2>1. d \in Deployments /\ d.task.path \in Paths /\ DepAt(d)
    BY DEF RestInv, ManagerType, Deployments, DeployTasks
  <2> QED
    BY <1>1, <2>1, DepFrame
<1>6. Apart'
  BY DEF RestInv, Apart
<1>7. \A r \in Paths : Free(r)' => Rests(r)'
  <2> SUFFICES ASSUME NEW r \in Paths, Free(r)' PROVE Rests(r)'
    OBVIOUS
  <2>1. Free(r)
    BY DEF Free
  <2> QED
    BY <2>1, PathFrame DEF RestInv
<1> QED
  BY <1>3, <1>4, <1>5, <1>6, <1>7 DEF RestInv

\* a task or a deployment goes on with what is known of path p, and all that is
\* left to be done about p are the deployments in rest: one or none
Works(p, rest) ==
    /\ SameOps /\ UNCHANGED q /\ \A r \in Paths \ {p} : SameAt(r)
    /\ \A o \in Ops : ops[o].pc \notin AtWork /\ ops'[o].pc \notin AtWork
    /\ \A t \in Range(q) : Asks(t) => t.path # p
    /\ \A t \in Range(executor') : Asks(t) => t \in Range(executor) /\ t.path # p
    /\ \A t \in Range(executor) : Asks(t) => t.path = p \/ t \in Range(executor')
    /\ \A d \in deploying' : d \in rest \/ (d \in deploying /\ d.task.path # p)
    /\ \A d \in deploying : d.task.path = p \/ d \in deploying'
    /\ rest \subseteq deploying' /\ \A d, e \in rest : d = e
    /\ \A d \in rest : d.task.path = p /\ DepAt(d)'
    /\ rest = {} => Rests(p)'

LEMMA WorkStep ==
    ASSUME ManagerType, RestInv, NEW p \in Paths, NEW rest, Works(p, rest)
    PROVE  RestInv'
<1>1. SameOps /\ UNCHANGED q /\ \A r \in Paths \ {p} : SameAt(r)
  BY DEF Works
<1>2. \A o \in Ops : ops'[o].pc \notin AtWork
  BY DEF Works
<1>3. ASSUME NEW t \in KnownTasks, TaskAt(t), Asks(t) => t.path # p PROVE TaskAt(t)'
  BY <1>1, <1>3, TaskFrame, AsksPath
<1>4. \A t \in Range(q') : TaskAt(t)'
  <2> SUFFICES ASSUME NEW t \in Range(q) PROVE TaskAt(t)'
    BY <1>1
  <2> QED
    BY <1>3, TasksKnown DEF RestInv, Works
<1>5. \A t \in Range(executor') : TaskAt(t)'
  <2> SUFFICES ASSUME NEW t \in Range(executor') PROVE TaskAt(t)'
    OBVIOUS
  <2>1. CASE Asks(t)
    <3>1. t \in KnownTasks /\ TaskAt(t) /\ t.path # p
      BY <2>1, TasksKnown DEF RestInv, Works
    <3> QED
      BY <1>3, <3>1
  <2>2. CASE ~Asks(t)
    BY <2>2 DEF Asks, TaskAt
  <2> QED
    BY <2>1, <2>2
<1>6. \A d \in deploying' : DepAt(d)'
  <2> SUFFICES ASSUME NEW d \in deploying' PROVE DepAt(d)'
    OBVIOUS
  <2>1. CASE d \in rest
    BY <2>1 DEF Works
  <2>2. CASE d \in deploying /\ d.task.path # p
    <3>1. d \in Deployments /\ d.task.path \in Paths /\ DepAt(d)
      BY <2>2 DEF RestInv, ManagerType, Deployments, DeployTasks
    <3> QED
      BY <1>1, <2>2, <3>1, DepFrame
  <2> QED
    BY <2>1, <2>2 DEF Works
<1>7. Apart'
  <2>1. Apart
    BY DEF RestInv
  <2>2. Distinct(q')
    BY <1>1, <2>1 DEF Apart
  <2>3. \A s \in Range(q'), t \in Range(executor') : Asks(s) /\ Asks(t) => s.path # t.path
    BY <1>1, <2>1 DEF Apart, Works
  <2>4. \A t \in Range(q'), d \in deploying' : Asks(t) => t.path # d.task.path
    BY <1>1, <2>1 DEF Apart, Works
  <2>5. \A t \in Range(executor'), d \in deploying' : Asks(t) => t.path # d.task.path
    BY <2>1 DEF Apart, Works
  <2>6. \A d, e \in deploying' : d.task.path = e.task.path => d = e
    BY <2>1 DEF Apart, Works
  <2> QED
    BY <2>2, <2>3, <2>4, <2>5, <2>6 DEF Apart
<1>8. ASSUME NEW r \in Paths, Free(r)' PROVE Rests(r)'
  <2>1. CASE r = p
    <3>1. rest = {}
      BY <1>8, <2>1 DEF Free, Works
    <3> QED
      BY <2>1, <3>1 DEF Works
  <2>2. CASE r # p
    <3>1. Free(r)
      BY <1>1, <1>8, <2>2 DEF Free, Works
    <3>2. SameAt(r)
      BY <1>1, <2>2
    <3> QED
      BY <3>1, <3>2, PathFrame DEF RestInv
  <2> QED
    BY <2>1, <2>2
<1> QED
  BY <1>2, <1>4, <1>5, <1>6, <1>7, <1>8 DEF RestInv

\* an operation goes on with p, alone
LEMMA OpStep ==
    ASSUME ManagerType, ManagerType', RestInv, NEW o \in Ops, Alone(o), NEW p \in Paths, ops'[o].path = p,
           ops'[o].pc \in AtWork, OpAt(o)',
           \A other \in Ops \ {o} : ops'[other] = ops[other],
           UNCHANGED <<q, executor, deploying>>,
           \A r \in Paths \ {p} : SameAt(r) /\ Free(r)
    PROVE  RestInv'
<1>1. Alone(o)'
  BY DEF Alone
<1>2. ASSUME NEW other \in Ops, ops'[other].pc \in AtWork PROVE other = o
  BY <1>2 DEF Alone
<1>3. /\ \A t \in Range(q') : ~Asks(t)
      /\ \A t \in Range(executor') : ~Asks(t)
      /\ deploying' = {}
  BY DEF Alone
<1>4. /\ \A t \in Range(q') : TaskAt(t)'
      /\ \A t \in Range(executor') : TaskAt(t)'
  BY <1>3 DEF TaskAt, Asks
<1>5. Apart'
  BY <1>3 DEF RestInv, Apart
<1>6. ASSUME NEW r \in Paths, Free(r)' PROVE Rests(r)'
  <2>1. r # p
    BY <1>6 DEF Free
  <2>2. SameAt(r) /\ Rests(r)
    BY <2>1 DEF RestInv
  <2> QED
    BY <2>2, PathFrame
<1> QED
  BY <1>1, <1>2, <1>3, <1>4, <1>5, <1>6 DEF RestInv

\* an operation that worked alone pushes its task
LEMMA PushStep ==
    ASSUME ManagerType, RestInv, NEW o \in Ops, Alone(o), ops[o].pc \in AtWork,
           NEW t \in KnownTasks, Push(t), t.path = ops[o].path, Asks(t), TaskAt(t)',
           ops'[o].pc \notin AtWork, \A other \in Ops \ {o} : ops'[other] = ops[other],
           UNCHANGED <<executor, deploying>>, \A r \in Paths : SameAt(r)
    PROVE  RestInv'
<1>1. \A x \in Ops : ops'[x].pc \notin AtWork
  BY DEF Alone
<1>2. q \in Seq(KnownTasks) /\ q' = <<t>> \o q
  BY DEF ManagerType, Push
<1>3. \A u \in Range(q') : u = t \/ ~Asks(u)
  BY <1>2, PushRange DEF Alone
<1>4. t \in Range(q')
  BY <1>2, PushRange
<1>5. /\ \A u \in Range(q') : TaskAt(u)'
      /\ \A u \in Range(executor') : TaskAt(u)'
  BY <1>3 DEF TaskAt, Asks, Alone
<1>6. Apart'
  <2>1. Distinct(q')
    BY <1>2, PushRange DEF RestInv, Apart, Alone
  <2>2. deploying' = {} /\ \A u \in Range(executor') : ~Asks(u)
    BY DEF Alone
  <2> QED
    BY <2>1, <2>2 DEF Apart
<1>7. ASSUME NEW r \in Paths, Free(r)' PROVE Rests(r)'
  <2>1. r # t.path
    BY <1>4, <1>7 DEF Free
  <2>2. Free(r)
    BY <2>1 DEF Free, Alone
  <2> QED
    BY <2>2, PathFrame DEF RestInv
<1>8. deploying' = {}
  BY DEF Alone
<1> QED
  BY <1>1, <1>5, <1>6, <1>7, <1>8 DEF RestInv

-----------------------------------------------------------------------------
\* when nothing is left to do nobody works anywhere
LEMMA NobodyWorks ==
    ASSUME Idle, \A o \in Ops : AtRest(o)
    PROVE  (\A o \in Ops : Alone(o)) /\ \A r \in Paths : Free(r)
<1>1. \A o \in Ops : ops[o].pc \notin AtWork
  BY DEF AtRest, AtWork
<1>2. /\ \A t \in Range(q) : ~Asks(t)
      /\ \A t \in Range(executor) : ~Asks(t)
      /\ deploying = {}
  BY SmallRanges DEF Idle
<1> QED
  BY <1>1, <1>2 DEF Alone, Free

\* a change of one version's directory
ChangesOne(p, v, c) ==
    /\ \A x \in Versions \ {v} : disk'[p][x] = disk[p][x]
    /\ v \in Versions => disk'[p][v] = c
    /\ \A r \in Paths \ {p} : disk'[r] = disk[r]

LEMMA ExceptOne ==
    ASSUME disk \in [Paths -> Directories], NEW p \in Paths, NEW v, NEW c,
           disk' = [disk EXCEPT ![p][v] = c]
    PROVE  ChangesOne(p, v, c)
BY DEF Directories, ChangesOne

\* ... the one that is on its way
LEMMA ChangeOne ==
    ASSUME ManagerType, NEW p \in Paths, NEW v, RestsBut(p, v), v = versions[p] + 1, NEW c,
           ChangesOne(p, v, c), UNCHANGED <<applications, versions>>
    PROVE  /\ RestsBut(p, v)'
           /\ c = Missing => Rests(p)'
           /\ \A r \in Paths \ {p} : SameAt(r)
<1>1. versions[p] \in Nat
  BY DEF ManagerType
<1>2. versions[p] # v
  BY <1>1
<1>3. RestsBut(p, v)'
  BY <1>2 DEF RestsBut, ChangesOne
<1>4. c = Missing => Rests(p)'
  BY <1>3 DEF RestsBut, Rests, ChangesOne
<1>5. \A r \in Paths \ {p} : SameAt(r)
  BY DEF ChangesOne, SameAt
<1> QED
  BY <1>3, <1>4, <1>5

LEMMA OpFields ==
    ASSUME ManagerType, NEW o \in Ops, NEW pc, ops' = [ops EXCEPT ![o].pc = pc]
    PROVE  /\ ops'[o].pc = pc /\ ops'[o].path = ops[o].path /\ ops'[o].version = ops[o].version
           /\ \A other \in Ops \ {o} : ops'[other] = ops[other]
           /\ SameOps
<1>1. ops \in [Ops -> [pc : PCs, path : Paths \cup {0}, version : Nat]]
  BY DEF ManagerType
<1>2. ops'[o] = [ops[o] EXCEPT !.pc = pc] /\ \A other \in Ops \ {o} : ops'[other] = ops[other]
  BY <1>1
<1>3. ops'[o].pc = pc /\ ops'[o].path = ops[o].path /\ ops'[o].version = ops[o].version
  BY <1>1, <1>2
<1> QED
  BY <1>2, <1>3 DEF SameOps

\* the version an operation works on is one of Versions
LEMMA OpVersion ==
    ASSUME ManagerType, NumInv, NEW o \in Ops, NEW v \in Nat, ops[o].version = v + 1
    PROVE  ops[o].version \in Versions
<1>1. BegunOf(ops) \in Nat /\ BegunOf(ops) <= Cardinality(Ops)
  BY Counts
<1>2. ops[o].version <= BegunOf(ops) /\ Cardinality(Ops) \in Nat
  BY Numbers DEF NumInv, Begun
<1> QED
  BY <1>1, <1>2 DEF Versions

LEMMA OperationRests ==
    ASSUME ManagerType, ManagerType', NumInv, Careful, RestInv, Operation
    PROVE  RestInv'
<1> USE DEF instances, tables, requested, counted
<1> PICK o \in Ops : Choose(o) \/ Clear(o) \/ Unpack(o) \/ Submit(o) \/ Delete(o) \/ AskUndeploy(o)
  BY DEF Operation
<1> PICK p, v : p = ops[o].path /\ v = ops[o].version
  OBVIOUS
<1>0. UNCHANGED <<executor, deploying, applications, versions>>
  BY DEF Choose, Clear, Unpack, Submit, Delete, AskUndeploy
<1>1. MayStart(o) => Alone(o) /\ \A r \in Paths : Free(r) /\ Rests(r)
  BY NobodyWorks DEF MayStart, Careful, RestInv
<1>2. ops[o].pc \in AtWork =>
          /\ p \in Paths /\ OpAt(o) /\ Alone(o)
          /\ \A r \in Paths \ {p} : Free(r)
  BY DEF RestInv, ManagerType, Alone, Free
<1>3. setting.paths \subseteq Paths
  BY OpsAssumption DEF ManagerType
<1>4. ops \in [Ops -> [pc : PCs, path : Paths \cup {0}, version : Nat]]
  BY DEF ManagerType
<1>5. CASE Choose(o)
  <2> PICK r \in setting.paths :
         ops' = [ops EXCEPT ![o] = [pc |-> "chosen", path |-> r, version |-> NextVersion(r)]]
    BY <1>5 DEF Choose
  <2>1. /\ ops'[o].pc = "chosen" /\ ops'[o].path = r /\ ops'[o].version = versions[r] + 1
        /\ \A other \in Ops \ {o} : ops'[other] = ops[other]
    BY <1>4 DEF NextVersion
  <2>2. r \in Paths /\ MayStart(o) /\ UNCHANGED <<q, disk>>
    BY <1>3, <1>5 DEF Choose
  <2>3. Rests(r) /\ Alone(o)
    BY <1>1, <2>2
  <2> PICK next : next = versions[r] + 1
    OBVIOUS
  <2>4. RestsBut(r, next)
    <3>1. 0 \notin Versions
      BY Numbers DEF Versions
    <3> QED
      BY <2>3, <3>1 DEF Rests, RestsBut
  <2>5. \A s \in Paths : SameAt(s)
    BY <1>0, <2>2 DEF SameAt
  <2>6. Rests(r)' /\ RestsBut(r, next)'
    BY <2>2, <2>3, <2>4, <2>5, PathFrame
  <2>7. OpAt(o)'
    BY <1>0, <2>1, <2>6 DEF OpAt
  <2> QED
    BY <1>0, <1>1, <2>1, <2>2, <2>3, <2>5, <2>7, OpStep DEF AtWork
<1>6. CASE Clear(o)
  <2>1. /\ ops[o].pc = "chosen" /\ UNCHANGED q
        /\ ops' = [ops EXCEPT ![o].pc = "cleared"]
        /\ \E content \in {Missing, Empty} : disk' = [disk EXCEPT ![p][v] = content]
    BY <1>6 DEF Clear
  <2>2. p \in Paths /\ OpAt(o) /\ Alone(o) /\ \A r \in Paths \ {p} : Free(r)
    BY <1>2, <2>1 DEF AtWork
  <2>3. RestsBut(p, v) /\ v = versions[p] + 1
    BY <2>1, <2>2 DEF OpAt
  <2>4. RestsBut(p, v)' /\ \A r \in Paths \ {p} : SameAt(r)
    <3>1. PICK content \in {Missing, Empty} : ChangesOne(p, v, content)
      BY <2>1, <2>2, ExceptOne DEF ManagerType
    <3> QED
      BY <1>0, <2>2, <2>3, <3>1, ChangeOne
  <2>5. /\ ops'[o].pc = "cleared" /\ ops'[o].path = p /\ ops'[o].version = v
        /\ \A other \in Ops \ {o} : ops'[other] = ops[other]
    BY <2>1, OpFields
  <2>6. OpAt(o)'
    BY <1>0, <2>3, <2>4, <2>5 DEF OpAt
  <2> QED
    BY <1>0, <2>1, <2>2, <2>4, <2>5, <2>6, OpStep DEF AtWork
<1>7. CASE Unpack(o)
  <2>1. /\ ops[o].pc = "cleared" /\ UNCHANGED q
        /\ ops' = [ops EXCEPT ![o].pc = "unpacked"] /\ disk' = [disk EXCEPT ![p][v] = o]
    BY <1>7 DEF Unpack, Careful, May
  <2>2. p \in Paths /\ OpAt(o) /\ Alone(o) /\ \A r \in Paths \ {p} : Free(r)
    BY <1>2, <2>1 DEF AtWork
  <2>3. RestsBut(p, v) /\ v = versions[p] + 1
    BY <2>1, <2>2 DEF OpAt
  <2>4. v \in Versions
    BY <2>2, <2>3, OpVersion DEF ManagerType
  <2>5. RestsBut(p, v)' /\ disk'[p][v] = o /\ \A r \in Paths \ {p} : SameAt(r)
    <3>1. ChangesOne(p, v, o)
      BY <2>1, <2>2, ExceptOne DEF ManagerType
    <3>2. RestsBut(p, v)' /\ \A r \in Paths \ {p} : SameAt(r)
      BY <1>0, <2>2, <2>3, <3>1, ChangeOne
    <3> QED
      BY <2>4, <3>1, <3>2 DEF ChangesOne
  <2>6. /\ ops'[o].pc = "unpacked" /\ ops'[o].path = p /\ ops'[o].version = v
        /\ \A other \in Ops \ {o} : ops'[other] = ops[other]
    BY <2>1, OpFields
  <2>7. OpAt(o)'
    BY <1>0, <2>3, <2>4, <2>5, <2>6 DEF OpAt
  <2> QED
    BY <1>0, <2>1, <2>2, <2>5, <2>6, <2>7, OpStep DEF AtWork
<1>8. CASE Submit(o)
  <2> DEFINE t == Task("deploy", p, 0, o, o)
  <2>1. ops[o].pc = "unpacked" /\ UNCHANGED disk
    BY <1>8 DEF Submit
  <2>2. p \in Paths /\ OpAt(o) /\ Alone(o)
    BY <1>2, <2>1 DEF AtWork
  <2>3. RestsBut(p, v) /\ v = versions[p] + 1 /\ v \in Versions /\ disk[p][v] = o
    BY <2>1, <2>2 DEF OpAt
  <2>4. Push(t) /\ ops' = [ops EXCEPT ![o].pc = "waiting"]
    BY <1>8, <2>3 DEF Submit
  <2>5. /\ ops'[o].pc = "waiting" /\ ops'[o].version = v
        /\ \A other \in Ops \ {o} : ops'[other] = ops[other]
    BY <2>4, OpFields
  <2>6. \A r \in Paths : SameAt(r)
    BY <1>0, <2>1 DEF SameAt
  <2>7. /\ t \in KnownTasks /\ t.path = p /\ Asks(t)
        /\ t.what = "deploy" /\ t.op = o /\ t.version = 0 /\ t.config = o
    BY <2>2, Numbers DEF KnownTasks, DeployTasks, Task, Asks
  <2> HIDE DEF t
  <2>8. Comes(p, v, o)
    BY <2>3 DEF Comes
  <2>9. TaskAt(t)'
    <3>1. Comes(p, v, o)'
      BY <2>2, <2>6, <2>8, PathFrame
    <3>2. Comes(t.path, ops[t.op].version, t.config)'
      BY <2>5, <2>7, <3>1
    <3>3. t.op # Boot /\ t.what # "undeploy"
      BY <2>7, Numbers
    <3> QED
      BY <2>7, <3>2, <3>3 DEF TaskAt
  <2> QED
    BY <1>0, <2>1, <2>2, <2>4, <2>5, <2>6, <2>7, <2>9, PushStep DEF AtWork
<1>9. CASE Delete(o)
  <2> PICK r \in setting.paths :
         /\ ops' = [ops EXCEPT ![o] = [pc |-> "deleted", path |-> r, version |-> 0]]
         /\ disk' = [disk EXCEPT ![r] = [x \in Versions |-> Missing]]
    BY <1>9 DEF Delete
  <2>1. /\ ops'[o].pc = "deleted" /\ ops'[o].path = r
        /\ \A other \in Ops \ {o} : ops'[other] = ops[other]
    BY <1>4
  <2>2. r \in Paths /\ MayStart(o) /\ UNCHANGED q
    BY <1>3, <1>9 DEF Delete
  <2>3. Rests(r) /\ Alone(o) /\ disk \in [Paths -> Directories]
    BY <1>1, <2>2 DEF ManagerType
  <2>4. /\ \A x \in Versions : disk'[r][x] = Missing
        /\ \A s \in Paths \ {r} : SameAt(s)
    BY <1>0, <2>2, <2>3 DEF SameAt
  <2>5. Emptied(r)'
    <3>1. applications[r] = NoApp => versions[r] = 0
      BY <2>3 DEF Rests, RestsBut, NoApp, App
    <3> QED
      BY <1>0, <2>4, <3>1 DEF Emptied
  <2>6. OpAt(o)'
    BY <2>1, <2>5 DEF OpAt
  <2> QED
    BY <1>0, <1>1, <2>1, <2>2, <2>3, <2>4, <2>6, OpStep DEF AtWork
<1>10. CASE AskUndeploy(o)
  <2> DEFINE t == Undeploy(p)
  <2>1. ops[o].pc = "deleted" /\ UNCHANGED disk /\ Push(t) /\ ops' = [ops EXCEPT ![o].pc = "ended"]
    BY <1>10 DEF AskUndeploy
  <2>2. p \in Paths /\ OpAt(o) /\ Alone(o)
    BY <1>2, <2>1 DEF AtWork
  <2>3. ops'[o].pc = "ended" /\ \A other \in Ops \ {o} : ops'[other] = ops[other]
    BY <2>1, OpFields
  <2>4. \A r \in Paths : SameAt(r)
    BY <1>0, <2>1 DEF SameAt
  <2>5. t \in KnownTasks /\ t.path = p /\ Asks(t) /\ t.what = "undeploy"
    BY <2>2 DEF KnownTasks, UndeployTasks, Undeploy, Task, Asks, Boot
  <2> HIDE DEF t
  <2>6. Emptied(p)'
    BY <2>1, <2>2, <2>4, PathFrame DEF OpAt
  <2>7. TaskAt(t)'
    BY <2>5, <2>6 DEF TaskAt
  <2> QED
    BY <1>0, <2>1, <2>2, <2>3, <2>4, <2>5, <2>7, PushStep DEF AtWork
<1> QED
  BY <1>5, <1>6, <1>7, <1>8, <1>9, <1>10

-----------------------------------------------------------------------------
\* the deployment d goes on, as one or as none
LEMMA DepStep ==
    ASSUME ManagerType, RestInv, NEW d \in deploying, NEW rest, NEW p, p = d.task.path,
           deploying' = (deploying \ {d}) \cup rest,
           \A e, f \in rest : e = f,
           \A e \in rest : e.task.path = p /\ DepAt(e)',
           rest = {} => Rests(p)',
           SameOps, \A o \in Ops : ops'[o].pc = ops[o].pc \/ ops'[o].pc = "ended",
           UNCHANGED q, executor' \in {executor, Append(executor, WaitForNextTask)},
           \A r \in Paths \ {p} : SameAt(r)
    PROVE  RestInv'
<1>1. p \in Paths
  BY DEF ManagerType, Deployments, DeployTasks
<1>2. \A o \in Ops : ops[o].pc \notin AtWork /\ ops'[o].pc \notin AtWork
  BY DEF RestInv, Alone, AtWork
<1>3. Apart
  BY DEF RestInv
<1>4. executor \in Seq(KnownTasks) /\ WaitForNextTask \in KnownTasks
  BY SmallKnown DEF ManagerType
<1>5. /\ \A t \in Range(executor') : Asks(t) => t \in Range(executor)
      /\ Range(executor) \subseteq Range(executor')
  <2>1. CASE executor' = executor
    BY <2>1
  <2>2. CASE executor' = Append(executor, WaitForNextTask)
    BY <1>4, <2>2, AppendRange, SmallRanges
  <2> QED
    BY <2>1, <2>2
<1>6. \A e \in deploying \ {d} : e.task.path # p
  BY <1>3 DEF Apart
<1>7. Works(p, rest)
  <2>1. \A t \in Range(q) : Asks(t) => t.path # p
    BY <1>3 DEF Apart
  <2>2. \A t \in Range(executor') : Asks(t) => t \in Range(executor) /\ t.path # p
    BY <1>3, <1>5 DEF Apart
  <2>3. \A t \in Range(executor) : Asks(t) => t.path = p \/ t \in Range(executor')
    BY <1>5
  <2>4. /\ \A e \in deploying' : e \in rest \/ (e \in deploying /\ e.task.path # p)
        /\ \A e \in deploying : e.task.path = p \/ e \in deploying'
        /\ rest \subseteq deploying'
    BY <1>6
  <2> QED
    BY <1>2, <2>1, <2>2, <2>3, <2>4 DEF Works
<1> QED
  BY <1>1, <1>7, WorkStep

\* ... from stage to stage, with what this needs to know of its path
LEMMA StageStep ==
    ASSUME ManagerType, RestInv, NEW d \in deploying, NEW stage \in Stages, NEW p, p = d.task.path,
           Goes(d, stage),
           stage \in Built => IsNewest(p, d.version, d.task.config)',
           stage \in {"building", "built"} /\ d.task.op # Boot => Comes(p, d.version, d.task.config)',
           stage \in {"building", "built"} /\ d.task.op = Boot => applications'[p] = NoApp,
           stage \in {"failing", "refused"} => d.task.op # Boot /\ Comes(p, d.version, d.task.config)',
           stage \in {"published", "reported", "told"} => applications'[p] = NewApp(d),
           stage = "final" => Rests(p)',
           SameOps, \A o \in Ops : ops'[o].pc = ops[o].pc \/ ops'[o].pc = "ended",
           UNCHANGED <<q, executor>>, \A r \in Paths \ {p} : SameAt(r)
    PROVE  RestInv'
<1>1. d \in Deployments /\ DepAt(d) /\ d.task.op \in Ops \cup {Boot}
  BY DEF ManagerType, RestInv, Deployments, DeployTasks
<1>2. PICK e : /\ e = [d EXCEPT !.stage = stage]
               /\ e = [task |-> d.task, version |-> d.version, previous |-> d.previous,
                       stage |-> stage, unpause |-> d.unpause, done |-> d.done]
  BY <1>1, AtStage
<1>3. e.task = d.task /\ e.version = d.version /\ e.stage = stage
  BY <1>2
<1>4. deploying' = (deploying \ {d}) \cup {e}
  BY <1>2 DEF Goes
<1>5. e.task.op # Boot => ops'[e.task.op].version = e.version
  BY <1>1, <1>3 DEF DepAt, SameOps
<1>6. NewApp(e) = NewApp(d)
  BY <1>3 DEF NewApp
<1>7. DepAt(e)'
  BY <1>3, <1>5, <1>6 DEF DepAt, Built
<1> PICK rest : rest = {e}
  OBVIOUS
<1>8. /\ deploying' = (deploying \ {d}) \cup rest /\ rest # {}
      /\ \A f, g \in rest : f = g
      /\ \A f \in rest : f.task.path = p /\ DepAt(f)'
  BY <1>3, <1>4, <1>7
<1> QED
  BY <1>8, DepStep

LEMMA TellKeeps ==
    ASSUME ManagerType, NEW d \in Deployments, NEW a, Tell(d, a)
    PROVE  SameOps /\ \A o \in Ops : ops'[o].pc = ops[o].pc \/ ops'[o].pc = "ended"
<1>1. CASE d.task.op = Boot
  BY <1>1 DEF Tell, SameOps, requested
<1>2. CASE d.task.op # Boot
  <2>1. d.task.op \in Ops /\ ops' = [ops EXCEPT ![d.task.op].pc = "ended"]
    BY <1>2 DEF Tell, Deployments, DeployTasks
  <2> QED
    BY <2>1, OpFields
<1> QED
  BY <1>1, <1>2

LEMMA DeploysRest ==
    ASSUME ManagerType, ManagerType', Careful, RestInv, NEW d \in deploying,
           \/ Build(d) \/ Publish(d) \/ Report(d) \/ TellOk(d) \/ EndOk(d)
           \/ TellError(d) \/ EndError(d) \/ Finally(d)
    PROVE  RestInv'
<1> USE DEF instances, tables, requested, counted
<1>1. d \in Deployments /\ d.task.path \in Paths /\ DepAt(d) /\ d.task.config \in Ops
  BY DEF ManagerType, RestInv, Deployments, DeployTasks
<1> PICK p, v, c : p = d.task.path /\ v = d.version /\ c = d.task.config
  OBVIOUS
<1>2. ~May("partial") /\ ~May("report") /\ ~May("delete") /\ ~May("boot")
  BY DEF Careful, May
<1>3. UNCHANGED ops => SameOps /\ \A o \in Ops : ops'[o].pc = ops[o].pc \/ ops'[o].pc = "ended"
  BY DEF SameOps
<1>4. UNCHANGED <<applications, versions, disk>> =>
          /\ \A r \in Paths : SameAt(r)
          /\ Comes(p, v, c) => Comes(p, v, c)'
          /\ IsNewest(p, v, c) => IsNewest(p, v, c)'
          /\ Rests(p) => Rests(p)'
  <2> SUFFICES ASSUME UNCHANGED <<applications, versions, disk>>, SameAt(p)
               PROVE  /\ Comes(p, v, c) => Comes(p, v, c)'
                      /\ IsNewest(p, v, c) => IsNewest(p, v, c)'
                      /\ Rests(p) => Rests(p)'
    BY DEF SameAt
  <2> QED
    BY PathFrame
<1>5. /\ applications \in [Paths -> Apps] /\ versions \in [Paths -> Nat]
      /\ disk \in [Paths -> Directories]
  BY DEF ManagerType
<1>6. CASE Build(d)
  <2>1. d.stage = "building" /\ UNCHANGED <<ops, applications, versions, disk, q, executor>>
    BY <1>6 DEF Build
  <2>2. /\ IsNewest(p, v, c) /\ (d.task.op # Boot => Comes(p, v, c))
        /\ d.task.op = Boot => applications'[p] = NoApp
    BY <1>1, <2>1 DEF DepAt, Built
  <2>3. Goes(d, "built") \/ (d.task.op # Boot /\ Goes(d, "failing"))
    BY <1>2, <1>6 DEF Build, MayFail
  <2>4. CASE Goes(d, "built")
    BY <1>3, <1>4, <2>1, <2>2, <2>4, StageStep DEF Stages
  <2>5. CASE d.task.op # Boot /\ Goes(d, "failing")
    BY <1>3, <1>4, <2>1, <2>2, <2>5, StageStep DEF Stages, Built
  <2> QED
    BY <2>3, <2>4, <2>5
<1>7. CASE Publish(d)
  <2>1. /\ d.stage = "built" /\ UNCHANGED <<ops, versions, disk, q, executor>> /\ Goes(d, "published")
        /\ applications' = [applications EXCEPT ![p] = NewApp(d)]
    BY <1>7 DEF Publish
  <2>2. IsNewest(p, v, c)
    BY <1>1, <2>1 DEF DepAt, Built
  <2>3. IsNewest(p, v, c)'
    BY <2>1, <2>2 DEF IsNewest
  <2>4. applications'[p] = NewApp(d) /\ \A r \in Paths \ {p} : SameAt(r)
    BY <1>1, <1>5, <2>1 DEF SameAt
  <2> QED
    BY <1>3, <2>1, <2>3, <2>4, StageStep DEF Stages
<1>8. CASE Report(d)
  <2>1. /\ d.stage = "published" /\ UNCHANGED <<ops, applications, versions, disk, q, executor>>
        /\ Goes(d, "reported")
    BY <1>2, <1>8 DEF Report
  <2>2. IsNewest(p, v, c) /\ applications[p] = NewApp(d)
    BY <1>1, <2>1 DEF DepAt, Built
  <2> QED
    BY <1>3, <1>4, <2>1, <2>2, StageStep DEF Stages
<1>9. CASE TellOk(d)
  <2>1. /\ d.stage = "reported" /\ UNCHANGED <<applications, versions, disk, q, executor>>
        /\ Goes(d, "told") /\ Tell(d, "ok")
    BY <1>9 DEF TellOk
  <2>2. IsNewest(p, v, c) /\ applications[p] = NewApp(d)
    BY <1>1, <2>1 DEF DepAt, Built
  <2>3. SameOps /\ \A o \in Ops : ops'[o].pc = ops[o].pc \/ ops'[o].pc = "ended"
    BY <1>1, <2>1, TellKeeps
  <2> QED
    BY <1>4, <2>1, <2>2, <2>3, StageStep DEF Stages
<1>10. CASE EndOk(d)
  <2>1. /\ d.stage = "told" /\ UNCHANGED <<ops, applications, q, executor>> /\ Goes(d, "final")
        /\ disk' = IF d.task.op = Boot THEN disk
                   ELSE [disk EXCEPT ![p] = [x \in Versions |-> IF x \in Old(d) THEN Missing ELSE @[x]]]
        /\ versions' = [versions EXCEPT ![p] = v]
    BY <1>2, <1>10 DEF EndOk, Record
  <2>2. IsNewest(p, v, c) /\ applications[p] = NewApp(d)
    BY <1>1, <2>1 DEF DepAt, Built
  <2>3. \A r \in Paths \ {p} : SameAt(r)
    BY <1>5, <2>1 DEF SameAt
  <2>4. \A x \in Versions : disk'[p][x] = disk[p][x] \/ (disk'[p][x] = Missing /\ x \in Old(d))
    BY <1>1, <1>5, <2>1
  <2>5. v \notin Old(d)
    <3>1. v \in Nat /\ Kept \in Nat
      BY <1>1, OpsAssumption DEF Deployments
    <3> QED
      BY <3>1 DEF Old
  <2>6. versions'[p] = v /\ applications'[p] = NewApp(d) /\ NewApp(d).version = v /\ NewApp(d).config = c
    BY <1>1, <1>5, <2>1, <2>2 DEF NewApp, App
  <2>7. v \in Versions /\ disk'[p][v] = c
    BY <2>2, <2>4, <2>5 DEF IsNewest
  <2>8. \A x \in Versions : disk'[p][x] = Missing \/ x <= v
    BY <2>2, <2>4 DEF IsNewest
  <2>9. Rests(p)'
    BY <1>1, <2>6, <2>7, <2>8 DEF Rests, RestsBut
  <2> QED
    BY <1>3, <2>1, <2>3, <2>9, StageStep DEF Stages, Built
<1>11. CASE TellError(d)
  <2>1. /\ d.stage = "failing" /\ UNCHANGED <<applications, versions, disk, q, executor>>
        /\ Goes(d, "refused") /\ Tell(d, "error")
    BY <1>2, <1>11 DEF TellError
  <2>2. d.task.op # Boot /\ Comes(p, v, c)
    BY <1>1, <2>1 DEF DepAt
  <2>3. SameOps /\ \A o \in Ops : ops'[o].pc = ops[o].pc \/ ops'[o].pc = "ended"
    BY <1>1, <2>1, TellKeeps
  <2> QED
    BY <1>4, <2>1, <2>2, <2>3, StageStep DEF Stages, Built
<1>12. CASE EndError(d)
  <2> DEFINE rest == IF d.unpause THEN {[d EXCEPT !.stage = "final", !.done = TRUE]} ELSE {}
  <2>1. d.stage = "refused" /\ UNCHANGED <<ops, applications, versions, q>>
    BY <1>12 DEF EndError
  <2>2. d.task.op # Boot /\ Comes(p, v, c) /\ ops[d.task.op].version = v
    BY <1>1, <2>1 DEF DepAt
  <2>3. disk' = [disk EXCEPT ![p][v] = Missing]
    BY <1>12, <2>2 DEF EndError, CleanUp
  <2>4. Rests(p)' /\ \A r \in Paths \ {p} : SameAt(r)
    <3>1. ChangesOne(p, v, Missing)
      BY <1>1, <1>5, <2>3, ExceptOne
    <3> QED
      BY <1>1, <2>1, <2>2, <3>1, ChangeOne DEF Comes
  <2>5. PICK last : /\ last = [d EXCEPT !.stage = "final", !.done = TRUE]
                    /\ last = [task |-> d.task, version |-> d.version, previous |-> d.previous,
                               stage |-> "final", unpause |-> d.unpause, done |-> TRUE]
    BY <1>1, AtLast
  <2>6. last.task = d.task /\ last.version = v /\ last.stage = "final"
    BY <2>5
  <2>7. DepAt(last)'
    BY <2>1, <2>2, <2>4, <2>6 DEF DepAt, Built
  <2>8. rest \in {{last}, {}}
    BY <2>5
  <2>9. deploying' = (deploying \ {d}) \cup rest /\ executor' = Append(executor, WaitForNextTask)
    BY <1>12 DEF EndError
  <2> HIDE DEF rest
  <2>10. /\ \A e, f \in rest : e = f
         /\ \A e \in rest : e.task.path = p /\ DepAt(e)'
    BY <2>6, <2>7, <2>8
  <2> QED
    BY <1>3, <2>1, <2>4, <2>9, <2>10, DepStep
<1>13. CASE Finally(d)
  <2>1. /\ d.stage = "final" /\ UNCHANGED <<ops, applications, versions, disk, q>>
        /\ deploying' = deploying \ {d}
        /\ executor' \in {executor, Append(executor, WaitForNextTask)}
    BY <1>13 DEF Finally, GiveBack
  <2>2. Rests(p)
    BY <1>1, <2>1 DEF DepAt
  <2> PICK rest : rest = {}
    OBVIOUS
  <2>3. /\ deploying' = (deploying \ {d}) \cup rest
        /\ \A e, f \in rest : e = f
        /\ \A e \in rest : e.task.path = p /\ DepAt(e)'
    BY <2>1
  <2>4. Rests(p)' /\ \A r \in Paths \ {p} : SameAt(r)
    BY <1>4, <2>1, <2>2
  <2> QED
    BY <1>3, <2>1, <2>3, <2>4, DepStep
<1> QED
  BY <1>6, <1>7, <1>8, <1>9, <1>10, <1>11, <1>12, <1>13

-----------------------------------------------------------------------------
LEMMA TickRests ==
    ASSUME ManagerType, ManagerType', RestInv, Tick
    PROVE  RestInv'
<1>1. /\ UNCHANGED <<ops, executor, deploying, applications, versions, disk>>
      /\ q \in Seq(KnownTasks) /\ UpdateStatus \in KnownTasks /\ q' = <<UpdateStatus>> \o q
  BY SmallKnown DEF Tick, requested, tables, Push, ManagerType
<1>2. /\ \A t \in Range(q') : Asks(t) => t \in Range(q)
      /\ Range(q) \subseteq Range(q')
      /\ Distinct(q')
  BY <1>1, PushRange, SmallRanges DEF RestInv, Apart
<1>3. \A r \in Paths : SameAt(r)
  BY <1>1 DEF SameAt
<1>4. \A s \in Range(q'), t \in Range(executor') : Asks(s) /\ Asks(t) => s.path # t.path
  BY <1>1, <1>2 DEF RestInv, Apart
<1> QED
  BY <1>1, <1>2, <1>3, <1>4, MoveStep

LEMMA TakeRests ==
    ASSUME ManagerType, ManagerType', TurnInv, RestInv, TakeNext
    PROVE  RestInv'
<1>1. /\ UNCHANGED <<ops, deploying, applications, versions, disk>>
      /\ q \in Seq(KnownTasks) /\ q # <<>> /\ q' = Tail(q)
      /\ executor # <<>> /\ Head(executor).what = "wait"
      /\ executor' = Append(Tail(executor), Head(q))
  BY DEF TakeNext, Runs, requested, tables, ManagerType
<1>2. executor = <<Head(executor)>>
  BY <1>1 DEF TurnInv, Turn
<1>3. executor' = <<Head(q)>>
  BY <1>1, <1>2, OneElement
<1>4. Range(executor) = {Head(executor)} /\ ~Asks(Head(executor)) /\ Range(executor') = {Head(q)}
  BY <1>1, <1>2, <1>3, SmallRanges DEF Asks
<1>5. /\ Head(q) \in Range(q) /\ Range(q') \subseteq Range(q)
      /\ \A t \in Range(q) : t = Head(q) \/ t \in Range(q')
      /\ Distinct(q')
      /\ Asks(Head(q)) => \A t \in Range(q') : Asks(t) => t.path # Head(q).path
  BY <1>1, TailRange DEF RestInv, Apart
<1>6. \A r \in Paths : SameAt(r)
  BY <1>1 DEF SameAt
<1>7. \A s \in Range(q'), t \in Range(executor') : Asks(s) /\ Asks(t) => s.path # t.path
  BY <1>4, <1>5
<1> QED
  BY <1>1, <1>4, <1>5, <1>6, <1>7, MoveStep

LEMMA StatusRests ==
    ASSUME ManagerType, ManagerType', TurnInv, RestInv, RunUpdateStatus
    PROVE  RestInv'
<1>1. /\ UNCHANGED <<ops, deploying, applications, versions, disk, q>>
      /\ executor # <<>> /\ Head(executor).what = "status"
      /\ executor' = Append(Tail(executor), WaitForNextTask)
  BY DEF RunUpdateStatus, Runs, EndTask, requested
<1>2. executor = <<Head(executor)>>
  BY <1>1 DEF TurnInv, Turn
<1>3. executor' = <<WaitForNextTask>>
  BY <1>1, <1>2, OneElement
<1>4. /\ \A t \in Range(executor) : ~Asks(t)
      /\ \A t \in Range(executor') : ~Asks(t)
  <2>1. Range(executor) = {Head(executor)} /\ ~Asks(Head(executor))
    BY <1>1, <1>2, SmallRanges DEF Asks
  <2> QED
    BY <1>3, <2>1, SmallRanges
<1>5. \A r \in Paths : SameAt(r)
  BY <1>1 DEF SameAt
<1>6. Distinct(q')
  BY <1>1 DEF RestInv, Apart
<1> QED
  BY <1>1, <1>4, <1>5, <1>6, MoveStep

\* the task the manager thread runs, and what it knows of the task's path
LEMMA TaskRuns ==
    ASSUME ManagerType, TurnInv, RestInv, executor # <<>>, Asks(Head(executor))
    PROVE  /\ Head(executor) \in KnownTasks /\ Head(executor).path \in Paths /\ TaskAt(Head(executor))
           /\ executor = <<Head(executor)>> /\ Range(executor) = {Head(executor)}
           /\ \A o \in Ops : ops[o].pc \notin AtWork
           /\ \A t \in Range(q) : Asks(t) => t.path # Head(executor).path
           /\ \A d \in deploying : d.task.path # Head(executor).path
<1>1. executor = <<Head(executor)>>
  BY DEF TurnInv, Turn
<1>2. Range(executor) = {Head(executor)}
  BY <1>1, SmallRanges
<1>3. Head(executor) \in KnownTasks /\ Head(executor).path \in Paths
  BY <1>2, TasksKnown, AsksPath
<1> QED
  BY <1>1, <1>2, <1>3 DEF RestInv, Alone, Apart

LEMMA UndeployRests ==
    ASSUME ManagerType, TurnInv, RestInv, RunUndeploy
    PROVE  RestInv'
<1> PICK p : p = Head(executor).path
  OBVIOUS
<1>1. /\ UNCHANGED <<ops, deploying, disk, q>> /\ executor # <<>> /\ Head(executor).what = "undeploy"
      /\ executor' = Append(Tail(executor), WaitForNextTask)
      /\ \/ applications[p] = NoApp /\ UNCHANGED <<applications, versions>>
         \/ Forget(p)
  BY DEF RunUndeploy, Runs, EndTask, requested, tables
<1>2. /\ p \in Paths /\ TaskAt(Head(executor)) /\ executor = <<Head(executor)>>
      /\ Range(executor) = {Head(executor)}
      /\ \A o \in Ops : ops[o].pc \notin AtWork
      /\ \A t \in Range(q) : Asks(t) => t.path # p
      /\ \A d \in deploying : d.task.path # p
  BY <1>1, TaskRuns DEF Asks
<1>3. Emptied(p)
  BY <1>1, <1>2 DEF TaskAt
<1>4. applications'[p] = NoApp /\ versions'[p] = 0 /\ \A r \in Paths \ {p} : SameAt(r)
  <2>1. applications \in [Paths -> Apps] /\ versions \in [Paths -> Nat]
    BY DEF ManagerType
  <2>2. CASE applications[p] = NoApp /\ UNCHANGED <<applications, versions>>
    BY <1>1, <1>2, <1>3, <2>2 DEF Emptied, SameAt
  <2>3. CASE Forget(p)
    BY <1>1, <1>2, <2>1, <2>3 DEF Forget, SameAt
  <2> QED
    BY <1>1, <2>2, <2>3
<1>5. Rests(p)'
  BY <1>1, <1>3, <1>4 DEF Rests, RestsBut, Emptied, NoApp, App
<1>6. \A t \in Range(executor') : ~Asks(t)
  <2>1. executor' = <<WaitForNextTask>>
    BY <1>1, <1>2, OneElement
  <2> QED
    BY <2>1, SmallRanges
<1> PICK rest : rest = {}
  OBVIOUS
<1>7. \A t \in Range(executor) : t.path = p
  BY <1>2
<1>8. Works(p, rest)
  <2>1. SameOps
    BY <1>1 DEF SameOps
  <2> QED
    BY <1>1, <1>2, <1>4, <1>5, <1>6, <1>7, <2>1 DEF Works
<1> QED
  BY <1>2, <1>8, WorkStep

LEMMA BeginRests ==
    ASSUME ManagerType, TurnInv, Careful, RestInv, RunDeploy
    PROVE  RestInv'
<1> PICK t, p : t = Head(executor) /\ p = t.path
  OBVIOUS
<1> PICK v : v = IF t.version > 0 THEN t.version ELSE NextVersion(p)
  OBVIOUS
<1>1. /\ UNCHANGED <<ops, q, applications, versions>> /\ executor # <<>> /\ t.what = "deploy"
      /\ executor' = Tail(executor)
  BY DEF RunDeploy, Runs, requested, tables
<1>2. /\ p \in Paths /\ TaskAt(t) /\ executor = <<t>> /\ t \in KnownTasks
      /\ \A s \in Range(executor) : s.path = p
      /\ \A o \in Ops : ops[o].pc \notin AtWork
      /\ \A s \in Range(q) : Asks(s) => s.path # p
      /\ \A d \in deploying : d.task.path # p
  BY <1>1, TaskRuns DEF Asks
<1>3. t \in DeployTasks
  BY <1>1, <1>2, DeployIsDeploy
<1>4. versions \in [Paths -> Nat] /\ disk \in [Paths -> Directories]
  BY DEF ManagerType
<1>5. IsNewest(p, v, t.config) /\ (t.op # Boot => Comes(p, v, t.config) /\ ops[t.op].version = v)
  <2>1. CASE t.op = Boot
    <3>1. IsNewest(p, t.version, t.config)
      BY <1>1, <1>2, <2>1 DEF TaskAt
    <3>2. t.version > 0
      BY <3>1, Numbers DEF IsNewest, Versions
    <3>3. v = t.version
      BY <3>2
    <3> QED
      BY <2>1, <3>1, <3>3
  <2>2. CASE t.op # Boot
    <3>1. t.version = 0 /\ Comes(p, ops[t.op].version, t.config)
      BY <1>1, <1>2, <2>2 DEF TaskAt
    <3>2. ops[t.op].version = versions[p] + 1 /\ v = versions[p] + 1
      BY <3>1 DEF Comes, NextVersion
    <3>3. Comes(p, v, t.config)
      BY <3>1, <3>2
    <3>4. IsNewest(p, v, t.config)
      <4>1. \A x \in Versions : x \in Nat
        BY Numbers DEF Versions
      <4>2. versions[p] \in Nat
        BY <1>2, <1>4
      <4> QED
        BY <3>2, <3>3, <4>1, <4>2 DEF Comes, RestsBut, IsNewest
    <3> QED
      BY <3>2, <3>3, <3>4
  <2> QED
    BY <2>1, <2>2
<1>6. UNCHANGED disk
  <2> DEFINE made == [disk EXCEPT ![p][v] = IF @ = Missing THEN Empty ELSE @]
  <2>1. disk' \in {disk, made}
    BY DEF RunDeploy
  <2>2. disk[p][v] # Missing
    BY <1>3, <1>5, Numbers DEF IsNewest, DeployTasks
  <2>3. made = disk
    BY <1>2, <1>4, <2>2 DEF Directories
  <2> QED
    BY <2>1, <2>3
<1>7. \A r \in Paths : SameAt(r)
  BY <1>1, <1>6 DEF SameAt
<1>8. /\ IsNewest(p, v, t.config)' /\ (t.op # Boot => Comes(p, v, t.config)' /\ ops'[t.op].version = v)
      /\ t.op = Boot => applications'[p] = NoApp
  <2>1. t.op = Boot => applications'[p] = NoApp
    BY <1>1, <1>2 DEF TaskAt
  <2> QED
    BY <1>1, <1>2, <1>5, <1>7, <2>1, PathFrame
<1>9. PICK d : /\ d.task = t /\ d.version = v /\ deploying' = deploying \cup {d}
               /\ d.stage = "building" \/ (d.stage = "failing" /\ t.op # Boot)
  <2> DEFINE begun   == Deployment(t, v, applications[p], "building", applications[p] # NoApp)
             refused == Deployment(t, v, applications[p], "failing", FALSE)
  <2>1. \/ deploying' = deploying \cup {begun}
        \/ deploying' = deploying \cup {refused} /\ MayFail("refuse", t.op)
    BY DEF RunDeploy
  <2>2. MayFail("refuse", t.op) => t.op # Boot
    BY DEF Careful, MayFail, May
  <2>3. begun.task = t /\ begun.version = v /\ begun.stage = "building"
    BY DEF Deployment
  <2>4. refused.task = t /\ refused.version = v /\ refused.stage = "failing"
    BY DEF Deployment
  <2> HIDE DEF begun, refused
  <2> QED
    BY <2>1, <2>2, <2>3, <2>4
<1>10. DepAt(d)'
  BY <1>8, <1>9 DEF DepAt, Built
<1> PICK rest : rest = {d}
  OBVIOUS
<1>11. Range(executor') = {}
  BY <1>1, <1>2, OneElement, SmallRanges
<1>12. /\ SameOps /\ UNCHANGED q /\ \A r \in Paths \ {p} : SameAt(r)
       /\ \A o \in Ops : ops[o].pc \notin AtWork /\ ops'[o].pc \notin AtWork
  BY <1>1, <1>2, <1>7 DEF SameOps
<1>13. /\ rest \subseteq deploying' /\ \A e, f \in rest : e = f
       /\ \A e \in rest : e.task.path = p /\ DepAt(e)'
       /\ rest # {}
  BY <1>9, <1>10
<1>14. /\ \A e \in deploying' : e \in rest \/ (e \in deploying /\ e.task.path # p)
       /\ \A e \in deploying : e.task.path = p \/ e \in deploying'
  BY <1>2, <1>9
<1>15. Works(p, rest)
  BY <1>2, <1>11, <1>12, <1>13, <1>14 DEF Works
<1> QED
  BY <1>2, <1>15, WorkStep

-----------------------------------------------------------------------------
\* what a restart finds of a path that nobody works on
LEMMA RestingNewest ==
    ASSUME ManagerType, NEW p \in Paths, Rests(p)
    PROVE  IF applications[p] = NoApp THEN Listed(p) = {}
           ELSE /\ Listed(p) # {} /\ Newest(p) = applications[p].version
                /\ Content(p) = applications[p].config /\ Content(p) \in Ops
                /\ IsNewest(p, Newest(p), Content(p))
<1>1. /\ \A x \in Versions : x \in Nat /\ x > 0
      /\ versions[p] \in Nat
  BY Numbers DEF Versions, ManagerType
<1>2. versions[p] = applications[p].version
  BY DEF Rests, RestsBut
<1>3. \A x \in Listed(p) : x <= versions[p]
  <2> SUFFICES ASSUME NEW x \in Listed(p) PROVE x <= versions[p]
    OBVIOUS
  <2>1. x \in Versions /\ disk[p][x] # Missing /\ x # 0
    BY <1>1 DEF Listed
  <2> QED
    BY <2>1 DEF Rests, RestsBut
<1>4. CASE applications[p] = NoApp
  <2>1. versions[p] = 0
    BY <1>2, <1>4 DEF NoApp, App
  <2>2. ASSUME NEW x \in Listed(p) PROVE FALSE
    <3>1. x \in Nat /\ x > 0 /\ x <= 0
      BY <1>1, <1>3, <2>1 DEF Listed
    <3> QED
      BY <3>1
  <2> QED
    BY <1>4, <2>2
<1>5. CASE applications[p] # NoApp
  <2>1. /\ versions[p] \in Versions /\ applications[p].config \in Ops
        /\ disk[p][versions[p]] = applications[p].config
    BY <1>5 DEF Rests, RestsBut
  <2>2. versions[p] \in Listed(p)
    BY <2>1, Numbers DEF Listed
  <2>3. Newest(p) \in Listed(p) /\ \A x \in Listed(p) : Newest(p) >= x
    BY <2>2, NewestListed
  <2>4. Newest(p) = versions[p]
    <3>1. Newest(p) \in Nat /\ Newest(p) <= versions[p] /\ Newest(p) >= versions[p]
      BY <1>1, <1>3, <2>2, <2>3 DEF Listed
    <3> QED
      BY <1>1, <3>1
  <2>5. Content(p) = applications[p].config
    BY <2>1, <2>4 DEF Content
  <2>6. \A x \in Versions : disk[p][x] = Missing \/ x <= versions[p]
    BY <1>3 DEF Listed
  <2>7. IsNewest(p, Newest(p), Content(p))
    BY <2>1, <2>4, <2>5, <2>6 DEF IsNewest
  <2> QED
    BY <1>2, <1>5, <2>1, <2>2, <2>4, <2>5, <2>7
<1> QED
  BY <1>4, <1>5

LEMMA RestartRests ==
    ASSUME ManagerType, ManagerType', Careful, RestInv, Restart
    PROVE  RestInv'
<1>1. Idle /\ \A o \in Ops : AtRest(o)
  BY DEF Restart, Careful, May
<1>2. \A r \in Paths : Rests(r)
  BY <1>1, NobodyWorks DEF RestInv
<1>3. \A o \in Ops : ops'[o].pc \notin AtWork
  <2> SUFFICES ASSUME NEW o \in Ops PROVE ops'[o].pc \notin AtWork
    OBVIOUS
  <2>1. ops'[o] = ops[o]
    BY <1>1 DEF Restart
  <2> QED
    BY <1>1, <2>1 DEF AtRest, AtWork
<1>4. /\ UNCHANGED disk /\ deploying' = {} /\ executor' = <<WaitForNextTask>>
      /\ \A r \in Paths : applications'[r] = NoApp /\ versions'[r] = 0
  BY DEF Restart
<1> DEFINE listed == { r \in Paths : Listed(r) # {} }
<1>5. \A r \in listed : /\ Content(r) \in Ops /\ IsNewest(r, Newest(r), Content(r))
                        /\ Content(r) # Unparsed
  BY <1>2, RestingNewest, Numbers
<1>6. Started = {listed}
  <2>1. { r \in listed : Content(r) \in Ops } = listed
    BY <1>5
  <2>2. ~ \E r \in listed : Content(r) = Unparsed
    BY <1>5
  <2> QED
    BY <2>1, <2>2 DEF Started
<1>7. PICK S : S = listed
  OBVIOUS
<1>8. PICK order \in SetToSeqs(S) :
         q' = [i \in DOMAIN order |-> Task("deploy", order[i], Newest(order[i]), Content(order[i]), Boot)]
  BY <1>6, <1>7 DEF Restart
<1>9. /\ \A i \in DOMAIN order : order[i] \in S
      /\ \A i, j \in DOMAIN order : order[i] = order[j] => i = j
      /\ \A s \in S : \E i \in DOMAIN order : order[i] = s
  BY <1>7, AllOfThem
<1>10. /\ DOMAIN q' = DOMAIN order
       /\ \A i \in DOMAIN q' : /\ q'[i].what = "deploy" /\ q'[i].path = order[i] /\ q'[i].op = Boot
                               /\ q'[i].version = Newest(order[i]) /\ q'[i].config = Content(order[i])
  BY <1>8 DEF Task
<1>11. ASSUME NEW t \in Range(q') PROVE TaskAt(t)'
  <2> PICK i \in DOMAIN q' : t = q'[i]
    BY DEF Range
  <2> PICK p, v, c : p = order[i] /\ v = Newest(p) /\ c = Content(p)
    OBVIOUS
  <2>1. p \in S /\ t.what = "deploy" /\ t.path = p /\ t.op = Boot /\ t.version = v /\ t.config = c
    BY <1>9, <1>10
  <2>2. p \in Paths /\ IsNewest(p, v, c)
    BY <1>5, <1>7, <2>1
  <2>3. IsNewest(p, v, c)'
    BY <1>4, <2>2 DEF IsNewest
  <2> QED
    BY <1>4, <2>1, <2>2, <2>3 DEF TaskAt
<1>12. \A t \in Range(executor') : ~Asks(t)
  BY <1>4, SmallRanges
<1>13. Apart'
  <2>1. Distinct(q')
    BY <1>9, <1>10 DEF Distinct
  <2> QED
    BY <1>4, <1>12, <2>1 DEF Apart
<1>14. ASSUME NEW r \in Paths, Free(r)' PROVE Rests(r)'
  <2>1. r \notin S
    <3> SUFFICES ASSUME NEW i \in DOMAIN order, order[i] = r PROVE FALSE
      BY <1>9
    <3>1. q'[i] \in Range(q') /\ Asks(q'[i]) /\ q'[i].path = r
      BY <1>10 DEF Range, Asks
    <3> QED
      BY <1>14, <3>1 DEF Free
  <2>2. \A x \in Versions : disk[r][x] = Missing
    BY <1>7, <2>1 DEF Listed
  <2> QED
    BY <1>4, <2>2 DEF Rests, RestsBut, NoApp, App
<1>15. \A t \in Range(executor') : TaskAt(t)'
  BY <1>12 DEF TaskAt, Asks
<1> QED
  BY <1>3, <1>4, <1>11, <1>13, <1>14, <1>15 DEF RestInv

-----------------------------------------------------------------------------
LEMMA CarefulStays ==
    ASSUME [Next]_vars
    PROVE  Careful' <=> Careful
BY SettingStays DEF Careful

LEMMA InitCarefulInv == Init => CarefulInv
<1> SUFFICES ASSUME Init PROVE CarefulInv
  OBVIOUS
<1>1. /\ \A o \in Ops : ops[o].pc \notin AtWork
      /\ q = <<>> /\ executor = <<WaitForNextTask>> /\ deploying = {}
      /\ \A p \in Paths : /\ applications[p] = NoApp /\ versions[p] = 0
                          /\ \A x \in Versions : disk[p][x] = Missing
  BY DEF Init, AtWork
<1>2. Range(q) = {} /\ Distinct(q) /\ \A t \in Range(executor) : ~Asks(t)
  BY <1>1, SmallRanges
<1>3. \A p \in Paths : Rests(p)
  BY <1>1 DEF Rests, RestsBut, NoApp, App
<1>4. Apart
  BY <1>1, <1>2 DEF Apart
<1>5. \A t \in Range(executor) : TaskAt(t)
  BY <1>2 DEF TaskAt, Asks
<1>6. RestInv
  BY <1>1, <1>2, <1>3, <1>4, <1>5 DEF RestInv
<1> QED
  BY <1>6, InitManagerInv DEF CarefulInv

LEMMA StepCarefulInv ==
    ASSUME CarefulInv, [Next]_vars
    PROVE  CarefulInv'
<1>1. ManagerInv /\ ManagerInv'
  BY StepManagerInv DEF CarefulInv
<1>2. ManagerType /\ ManagerType' /\ TurnInv /\ NumInv
  BY <1>1 DEF ManagerInv, DeploymentInv
<1> SUFFICES ASSUME Careful PROVE RestInv'
  BY <1>1, CarefulStays DEF CarefulInv
<1>3. RestInv
  BY DEF CarefulInv
<1>4. CASE UNCHANGED vars
  <2>1. UNCHANGED <<ops, q, executor, deploying, applications, versions, disk>>
    BY <1>4 DEF vars, requested, tables
  <2>2. \A r \in Paths : SameAt(r)
    BY <2>1 DEF SameAt
  <2>3. /\ Distinct(q')
        /\ \A s \in Range(q'), t \in Range(executor') : Asks(s) /\ Asks(t) => s.path # t.path
    BY <1>3, <2>1 DEF RestInv, Apart
  <2> QED
    BY <1>2, <1>3, <2>1, <2>2, <2>3, MoveStep
<1>5. CASE Operation
  BY <1>2, <1>3, <1>5, OperationRests
<1>6. CASE Manager
  BY <1>2, <1>3, <1>6, TakeRests, StatusRests, UndeployRests, BeginRests DEF Manager
<1>7. CASE Deploys
  BY <1>2, <1>3, <1>7, DeploysRest DEF Deploys
<1> QED
  BY <1>2, <1>3, <1>4, <1>5, <1>6, <1>7, TickRests, RestartRests DEF Next

(* For operations that wait for one another, on any paths, whichever of them   *)
(* are refused or fail to build, and for any number of restarts: once nothing  *)
(* is left to do what is deployed is what a restart would deploy, with the     *)
(* same files, and nothing on disk is not deployed.                            *)
THEOREM RestartDeploysTheSame == Spec /\ Careful => []RestartsAlike
<1>1. CarefulInv /\ [Next]_vars => CarefulInv'
  BY StepCarefulInv
<1>2. Careful /\ [Next]_vars => Careful'
  BY CarefulStays
<1>3. CarefulInv /\ Careful => RestartsAlike
  <2> SUFFICES ASSUME CarefulInv, Careful, Idle, \A o \in Ops : AtRest(o), NEW p \in Paths
               PROVE  IF applications[p] = NoApp THEN Listed(p) = {}
                      ELSE /\ Newest(p) = applications[p].version
                           /\ Content(p) = applications[p].config
    BY DEF RestartsAlike
  <2>1. ManagerType /\ Rests(p)
    BY NobodyWorks DEF CarefulInv, ManagerInv, DeploymentInv, RestInv
  <2> QED
    BY <2>1, RestingNewest
<1> QED
  BY <1>1, <1>2, <1>3, InitCarefulInv, PTL DEF Spec

-----------------------------------------------------------------------------
(* The versions of what is deployed.  What an operation deploys is numbered    *)
(* when it begins, and the versions agree then; what a restart deploys is      *)
(* numbered by the disk, and replaces nothing when operations wait for it.     *)

\* the paths of a step that changes what is deployed
LEMMA OnlyPublishes ==
    ASSUME ManagerType, [Next]_vars, NEW p \in Paths,
           applications[p] # NoApp, applications'[p] \notin {NoApp, applications[p]}
    PROVE  \E d \in deploying : Publish(d)
<1> USE DEF tables, instances, requested, counted
<1>1. ASSUME RunUndeploy PROVE FALSE
  <2>1. UNCHANGED applications \/ \E r : applications' = [applications EXCEPT ![r] = NoApp]
    BY <1>1 DEF RunUndeploy, Forget
  <2>2. DOMAIN applications = Paths
    BY DEF ManagerType
  <2> QED
    BY <2>1, <2>2
<1>2. ~Restart
  BY DEF Restart
<1>3. ~UNCHANGED applications
  OBVIOUS
<1> QED
  BY <1>1, <1>2, <1>3
     DEF Next, Operation, Choose, Clear, Unpack, Submit, Delete, AskUndeploy, Tick, Manager,
         TakeNext, RunUpdateStatus, RunDeploy, Deploys, Build, Report, TellOk,
         EndOk, TellError, EndError, Finally, vars

(* A redeploy replaces an application by one with a higher version, however    *)
(* many redeploys overlap: the version is that of the table, which every       *)
(* deployment before it has written.  With restarts this needs operations that *)
(* wait: one that comes before a restart has deployed its path begins at 1.    *)
THEOREM RedeployIsNewer == Spec /\ Calm /\ (setting.restarts = 0 \/ Careful) => VersionsIncrease
<1> DEFINE Newer ==
        \A p \in Paths :
          applications[p] # NoApp /\ applications'[p] \notin {NoApp, applications[p]} =>
              applications'[p].version > applications[p].version
           Ordered == setting.restarts = 0 \/ Careful
<1>1. ASSUME CalmInv, Calm, CarefulInv, Ordered, [Next]_vars PROVE [Newer]_vars
  <2> SUFFICES ASSUME NEW p \in Paths, applications[p] # NoApp,
                      applications'[p] \notin {NoApp, applications[p]}
               PROVE  applications'[p].version > applications[p].version
    OBVIOUS
  <2>1. DeploymentInv /\ ManagerType /\ TablesInv
    BY <1>1 DEF CalmInv, DeploymentInv
  <2>2. PICK d \in deploying : Publish(d)
    BY <1>1, <2>1, OnlyPublishes
  <2>3. /\ \A r \in Paths \ {d.task.path} : applications'[r] = applications[r]
        /\ applications[d.task.path].version \in Nat
        /\ applications'[d.task.path].version = d.version
        /\ d.task.version = 0 => d.version = applications[d.task.path].version + 1
    BY <2>1, <2>2, PublishTables
  <2>4. p = d.task.path
    BY <2>3
  <2>5. d.version = applications[p].version + 1
    <3>1. CASE setting.restarts = 0
      <4>1. d.task.version = 0
        BY <2>1, <3>1 DEF TablesInv, AskedInv, Asked, ManagerType, Deployments, DeployTasks
      <4> QED
        BY <2>3, <2>4, <4>1
    <3>2. CASE Careful
      <4>1. DepAt(d) /\ d.stage = "built"
        BY <1>1, <2>2, <3>2 DEF CarefulInv, RestInv, Publish
      <4>2. Comes(p, d.version, d.task.config)
        BY <2>4, <4>1 DEF DepAt
      <4> QED
        BY <4>2 DEF Comes, RestsBut
    <3> QED
      BY <1>1, <3>1, <3>2
  <2> QED
    BY <2>3, <2>4, <2>5
<1>2. CalmInv /\ Calm /\ CarefulInv /\ Ordered /\ [Next]_vars => [Newer]_vars
  BY <1>1
<1>3. CarefulInv /\ [Next]_vars => CarefulInv'
  BY StepCarefulInv
<1>4. Ordered /\ [Next]_vars => Ordered'
  BY CarefulStays, SettingStays
<1> QED
  BY <1>2, <1>3, <1>4, CalmInvHolds, StaysCalm, InitCarefulInv, PTL DEF Spec, VersionsIncrease
=============================================================================
