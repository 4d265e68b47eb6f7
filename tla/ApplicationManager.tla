--------------------------- MODULE ApplicationManager ---------------------------
(***************************************************************************)
(* Deploying, redeploying and undeploying applications:                     *)
(*   - reka/deploy and reka/undeploy operations, on the operation pool      *)
(*     (RekaDeployOperation, RekaUndeployOperation), unpack or delete the   *)
(*     versions of an application on disk and push a task;                  *)
(*   - the manager thread (ApplicationManager) takes the newest task of a   *)
(*     deque, and the next one when the task gives the turn back;           *)
(*   - a build (ApplicationConfigurer.build) finishes on another thread,    *)
(*     and what follows a build runs there, a statement at a time;          *)
(*   - a restart (Reka.run) forgets all but the disk and deploys the newest *)
(*     version of every application it finds there.                         *)
(* An identity stands for its path: the code creates one per path and never *)
(* removes it.  A configuration is named by the operation that unpacked it. *)
(***************************************************************************)
EXTENDS Integers, Sequences, FiniteSets, SequencesExt

CONSTANTS Ops,          \* the operations that may be run, 1 .. n
          Paths,        \* application paths
          Kept,         \* versions before the deployed one that are kept; 2 in the code
          Settings      \* what may happen

\* operations are at most opsRun and on opsPaths, without overlap one starts when all
\* earlier work is done; faults are what may go wrong, see the uses of May; ticks is
\* how often the status task is pushed
Setting(opsRun, opsPaths, overlap, faults, maxTicks, maxRestarts) ==
    [ops |-> opsRun, paths |-> opsPaths, overlap |-> overlap, faults |-> faults,
     ticks |-> maxTicks, restarts |-> maxRestarts]

Faults == {"syntax", "refuse", "build", "partial", "report", "delete", "crash", "boot"}

ASSUME OpsAssumption ==
    /\ Ops = 1 .. Cardinality(Ops) /\ IsFiniteSet(Ops) /\ IsFiniteSet(Paths)
    /\ Kept \in Nat
    /\ Settings \subseteq [ops : Nat, paths : SUBSET Paths, overlap : BOOLEAN,
                            faults : SUBSET Faults, ticks : Nat, restarts : Nat]

VARIABLE setting        \* one of Settings

May(fault) == fault \in setting.faults
Boot == 0           \* the deploys of Reka.run, with DeploySubscriber.LOG
MayFail(fault, op) == May(fault) /\ (op # Boot \/ May("boot"))

\* a deployment has at most as many versions as there are operations
Versions == 1 .. Cardinality(Ops)

\* contents of a version's directory that are not a configuration
Missing  == -1      \* there is no directory
Empty    == 0       \* there is no main.reka in it
Unparsed == -2      \* ConfigParser throws

App(version, config, op) == [version |-> version, config |-> config, op |-> op]
NoApp == App(0, 0, 0)

VARIABLES ops,          \* the operations: pc, path, version
          answers,      \* what each operation answered
          disk,         \* disk[p][v]: the directory of version v of p
          q,            \* the deque of tasks
          executor,     \* what is submitted to the manager thread
          deploying,    \* deployments that have begun and not ended
          applications, versions, status,
          running,      \* instances that have components: path and operation
          paused,       \* instances that are paused
          ticks, restarts

requested == <<ops, answers>>
tables    == <<applications, versions, status>>
instances == <<running, paused>>
counted   == <<setting, ticks, restarts>>
vars == <<requested, disk, q, executor, deploying, tables, instances, counted>>

Task(what, p, version, config, op) ==
    [what |-> what, path |-> p, version |-> version, config |-> config, op |-> op]

WaitForNextTask == Task("wait", 0, 0, 0, 0)
UpdateStatus    == Task("status", 0, 0, 0, 0)
Undeploy(p)     == Task("undeploy", p, 0, 0, 0)

Instance(p, app) == IF app = NoApp THEN {} ELSE { <<p, app.op>> }

AtRest(o) == ops[o].pc \in {"idle", "ended"}
Idle == q = <<>> /\ executor = <<WaitForNextTask>> /\ deploying = {}

Init ==
    /\ setting \in Settings
    /\ ops = [o \in Ops |-> [pc |-> "idle", path |-> 0, version |-> 0]]
    /\ answers = [o \in Ops |-> <<>>]
    /\ disk = [p \in Paths |-> [v \in Versions |-> Missing]]
    /\ q = <<>>
    /\ executor = <<WaitForNextTask>>
    /\ deploying = {}
    /\ applications = [p \in Paths |-> NoApp]
    /\ versions = [p \in Paths |-> 0]
    /\ status = [p \in Paths |-> NoApp]
    /\ running = {} /\ paused = {}
    /\ ticks = 0 /\ restarts = 0

-----------------------------------------------------------------------------
(* The operations.                                                          *)

MayStart(o) == /\ ops[o].pc = "idle" /\ o <= setting.ops
               /\ setting.overlap \/ (Idle /\ \A other \in Ops : AtRest(other))

Push(task) == q' = <<task>> \o q

\* ApplicationManager.nextVersion
NextVersion(p) == versions[p] + 1

\* RekaDeployOperation.call: choose the version, clear its directory, unpack, deploy
Choose(o) ==
    /\ MayStart(o)
    /\ \E p \in setting.paths :
          ops' = [ops EXCEPT ![o] = [pc |-> "chosen", path |-> p, version |-> NextVersion(p)]]
    /\ UNCHANGED <<answers, disk, q, executor, deploying, tables, instances, counted>>

\* gone, or unzip has made it again
Clear(o) ==
    /\ ops[o].pc = "chosen"
    /\ ops' = [ops EXCEPT ![o].pc = "cleared"]
    /\ \E content \in {Missing, Empty} :
          disk' = [disk EXCEPT ![ops[o].path][ops[o].version] = content]
    /\ UNCHANGED <<answers, q, executor, deploying, tables, instances, counted>>

Unpack(o) ==
    /\ ops[o].pc = "cleared"
    /\ ops' = [ops EXCEPT ![o].pc = "unpacked"]
    /\ \E content \in {o} \cup IF May("syntax") THEN {Unparsed} ELSE {} :
          disk' = [disk EXCEPT ![ops[o].path][ops[o].version] = content]
    /\ UNCHANGED <<answers, q, executor, deploying, tables, instances, counted>>

\* deploySource parses what is there now.  When that throws nothing is cleaned up, and
\* AsyncOperationAction catches nothing: nobody is answered.
Submit(o) ==
    /\ ops[o].pc = "unpacked"
    /\ LET config == disk[ops[o].path][ops[o].version]
       IN  IF config \in Ops
           THEN /\ Push(Task("deploy", ops[o].path, 0, config, o))
                /\ ops' = [ops EXCEPT ![o].pc = "waiting"]
           ELSE /\ ops' = [ops EXCEPT ![o].pc = "ended"]
                /\ UNCHANGED q
    /\ UNCHANGED <<answers, disk, executor, deploying, tables, instances, counted>>

\* RekaUndeployOperation.call: delete every version, then undeploy
Delete(o) ==
    /\ MayStart(o)
    /\ \E p \in setting.paths :
          /\ ops' = [ops EXCEPT ![o] = [pc |-> "deleted", path |-> p, version |-> 0]]
          /\ disk' = [disk EXCEPT ![p] = [v \in Versions |-> Missing]]
    /\ UNCHANGED <<answers, q, executor, deploying, tables, instances, counted>>

AskUndeploy(o) ==
    /\ ops[o].pc = "deleted"
    /\ Push(Undeploy(ops[o].path))
    /\ ops' = [ops EXCEPT ![o].pc = "ended"]
    /\ answers' = [answers EXCEPT ![o] = Append(@, "ok")]
    /\ UNCHANGED <<disk, executor, deploying, tables, instances, counted>>

Operation == \E o \in Ops : \/ Choose(o) \/ Clear(o) \/ Unpack(o) \/ Submit(o)
                            \/ Delete(o) \/ AskUndeploy(o)

\* scheduleAtFixedRate(() -> q.push(UPDATE_STATUS))
Tick ==
    /\ ticks < setting.ticks
    /\ ticks' = ticks + 1
    /\ Push(UpdateStatus)
    /\ UNCHANGED <<requested, disk, executor, deploying, tables, instances, setting, restarts>>

-----------------------------------------------------------------------------
(* The manager thread runs what is submitted to it, in order.               *)

Runs(what) == executor # <<>> /\ Head(executor).what = what

\* WaitForNextTask.run: q.take, then submit
TakeNext ==
    /\ Runs("wait")
    /\ q # <<>>
    /\ q' = Tail(q)
    /\ executor' = Append(Tail(executor), Head(q))
    /\ UNCHANGED <<requested, disk, deploying, tables, instances, counted>>

\* the TaskResult of a task that ends on the manager thread
EndTask == executor' = Append(Tail(executor), WaitForNextTask)

RunUpdateStatus ==
    /\ Runs("status")
    /\ \/ status' = [p \in Paths |-> IF applications[p] # NoApp THEN applications[p]
                                      ELSE status[p]]
       \/ May("report") /\ UNCHANGED status
    /\ EndTask
    /\ UNCHANGED <<requested, disk, q, deploying, applications, versions, instances, counted>>

\* mutant of Forget: statusFor still answers for an application that is gone
ForgetButStatus(p) ==
    /\ applications' = [applications EXCEPT ![p] = NoApp]
    /\ versions' = [versions EXCEPT ![p] = 0]
    /\ UNCHANGED status

Forget(p) ==
    /\ applications' = [applications EXCEPT ![p] = NoApp]
    /\ versions' = [versions EXCEPT ![p] = 0]
    /\ status' = [status EXCEPT ![p] = NoApp]

\* UndeployApplication.run
RunUndeploy ==
    /\ Runs("undeploy")
    /\ LET p == Head(executor).path
       IN  IF applications[p] = NoApp THEN UNCHANGED <<tables, running>>
           ELSE /\ Forget(p)
                /\ running' = running \ Instance(p, applications[p])
    /\ EndTask
    /\ UNCHANGED <<requested, disk, q, deploying, paused, counted>>

Deployment(task, version, previous, stage, unpause) ==
    [task |-> task, version |-> version, previous |-> previous, stage |-> stage,
     unpause |-> unpause, done |-> FALSE]

\* DeployApplication.run: pause what is deployed and begin to build, unless the
\* configuration is refused first.  mkdirs makes the version's directory.
RunDeploy ==
    /\ Runs("deploy")
    /\ LET task     == Head(executor)
           p        == task.path
           version  == IF task.version > 0 THEN task.version ELSE NextVersion(p)
           previous == applications[p]
           made     == [disk EXCEPT ![p][version] = IF @ = Missing THEN Empty ELSE @]
       IN  \/ /\ deploying' = deploying \cup
                     {Deployment(task, version, previous, "building", previous # NoApp)}
              /\ paused' = paused \cup Instance(p, previous)
              /\ disk' = made
           \/ /\ MayFail("refuse", task.op)
              /\ deploying' = deploying \cup
                     {Deployment(task, version, previous, "failing", FALSE)}
              /\ UNCHANGED paused
              /\ disk' \in {disk, made}
    /\ executor' = Tail(executor)
    /\ UNCHANGED <<requested, q, tables, running, counted>>

Manager == TakeNext \/ RunUpdateStatus \/ RunUndeploy \/ RunDeploy

-----------------------------------------------------------------------------
(* A deployment that has begun, on the threads the build finishes on.       *)

Goes(d, stage) == deploying' = (deploying \ {d}) \cup {[d EXCEPT !.stage = stage]}

NewApp(d) == App(d.version, d.task.config, d.task.op)
New(d)    == Instance(d.task.path, NewApp(d))

\* the future of ApplicationConfigurer.build; a trigger's consumer may throw when
\* others have been given their flows, and nobody takes these back
Build(d) ==
    /\ d.stage = "building"
    /\ \/ Goes(d, "built") /\ running' = running \cup New(d)
       \/ MayFail("build", d.task.op) /\ Goes(d, "failing") /\ UNCHANGED running
       \/ May("partial") /\ Goes(d, "failing") /\ running' = running \cup New(d)
    /\ UNCHANGED <<requested, disk, q, executor, tables, paused, counted>>

\* mutant of Replaced: the previous application is not undeployed
KeepPrevious(d) == {}

\* previous.ifPresent(Application::undeploy)
Replaced(d) == Instance(d.task.path, d.previous)

Publish(d) ==
    /\ d.stage = "built"
    /\ Goes(d, "published")
    /\ applications' = [applications EXCEPT ![d.task.path] = NewApp(d)]
    /\ running' = running \ Replaced(d)
    /\ UNCHANGED <<requested, disk, q, executor, versions, status, paused, counted>>

\* mutant of Thrown: what throws is told to onError
ThrownToOnError == "failing"

\* whenComplete swallows what its callback throws: the finally block is all that is left
Thrown == "final"

\* reportsFor throws before the put, the listeners' flows behind it
Report(d) ==
    /\ d.stage = "published"
    /\ LET reported == [status EXCEPT ![d.task.path] = NewApp(d)]
       IN  \/ Goes(d, "reported") /\ status' = reported
           \/ May("report") /\ Goes(d, Thrown) /\ status' \in {status, reported}
    /\ UNCHANGED <<requested, disk, q, executor, applications, versions, instances, counted>>

Tell(d, answer) ==
    IF d.task.op = Boot THEN UNCHANGED requested
    ELSE /\ answers' = [answers EXCEPT ![d.task.op] = Append(@, answer)]
         /\ ops' = [ops EXCEPT ![d.task.op].pc = "ended"]

TellOk(d) ==
    /\ d.stage = "reported"
    /\ Goes(d, "told")
    /\ Tell(d, "ok")
    /\ UNCHANGED <<disk, q, executor, tables, instances, counted>>

\* mutants of Old and Record: too many old versions; none is recorded, or the next
OldAndDeployed(d) == { v \in Versions : v <= d.version }
ForgetVersion(d)  == UNCHANGED versions
RecordNext(d)     == versions' = [versions EXCEPT ![d.task.path] = d.version + 1]

\* "delete a few old versions..."
Old(d) == { v \in Versions : v < d.version - Kept }

Record(d) == versions' = [versions EXCEPT ![d.task.path] = d.version]

\* the rest of subscriber.ok, and the version
EndOk(d) ==
    /\ d.stage = "told"
    /\ \/ /\ Goes(d, "final")
          /\ disk' = IF d.task.op = Boot THEN disk
                     ELSE [disk EXCEPT ![d.task.path] =
                              [v \in Versions |-> IF v \in Old(d) THEN Missing ELSE @[v]]]
          /\ Record(d)
       \/ May("delete") /\ Goes(d, Thrown) /\ UNCHANGED <<disk, versions>>
    /\ UNCHANGED <<requested, q, executor, applications, status, instances, counted>>

\* when the deletion that follows throws the finally block gives the turn back, or if
\* there was no build the task that was thrown out of
TellError(d) ==
    /\ d.stage = "failing"
    /\ \/ Goes(d, "refused")
       \/ May("delete") /\ d.task.op # Boot /\ Goes(d, Thrown)
    /\ Tell(d, "error")
    /\ UNCHANGED <<disk, q, executor, tables, instances, counted>>

\* mutant of CleanUp: what failed stays on disk
LeaveIt(d) == d.task.op # Boot /\ UNCHANGED disk

CleanUp(d) ==
    /\ d.task.op # Boot
    /\ disk' = [disk EXCEPT ![d.task.path][ops[d.task.op].version] = Missing]

\* the rest of subscriber.error, and completeExceptionally: from here on the
\* manager thread may go on with the next task
EndError(d) ==
    /\ d.stage = "refused"
    /\ CleanUp(d) \/ (d.task.op = Boot /\ UNCHANGED disk)
    /\ executor' = Append(executor, WaitForNextTask)
    /\ deploying' = (deploying \ {d}) \cup
                    IF d.unpause THEN {[d EXCEPT !.stage = "final", !.done = TRUE]} ELSE {}
    /\ UNCHANGED <<requested, q, tables, instances, counted>>

\* mutants of GiveBack and Unpaused: not compared with done; only after an error
GiveBackAgain(d) == executor' = Append(executor, WaitForNextTask)
KeepTheTurn(d)   == UNCHANGED executor
StayPaused(d)    == {}

\* TaskResult.complete: done.compareAndSet
GiveBack(d) == executor' = IF d.done THEN executor ELSE Append(executor, WaitForNextTask)

Unpaused(d) == IF d.unpause THEN Instance(d.task.path, d.previous) ELSE {}

\* the finally block
Finally(d) ==
    /\ d.stage = "final"
    /\ deploying' = deploying \ {d}
    /\ paused' = paused \ Unpaused(d)
    /\ GiveBack(d)
    /\ UNCHANGED <<requested, disk, q, tables, running, counted>>

Deploys == \E d \in deploying :
              \/ Build(d) \/ Publish(d) \/ Report(d) \/ TellOk(d) \/ EndOk(d)
              \/ TellError(d) \/ EndError(d) \/ Finally(d)

-----------------------------------------------------------------------------
(* Reka.run after a crash, or after a stop with nothing left to do.         *)

\* AppDirs.listApps: the highest version that has a directory
Listed(p) == { v \in Versions : disk[p][v] # Missing }
Newest(p) == Max(Listed(p))

Content(p) == disk[p][Newest(p)]

\* the applications that are deployed.  One that has no main.reka is passed over; one
\* that cannot be parsed ends the start, and may be anywhere in the order of a hash map.
Started ==
    LET listed == { p \in Paths : Listed(p) # {} }
        found  == { p \in listed : Content(p) \in Ops }
    IN  IF \E p \in listed : Content(p) = Unparsed THEN SUBSET found ELSE {found}

Restart ==
    /\ restarts < setting.restarts
    /\ May("crash") \/ (Idle /\ \A o \in Ops : AtRest(o))
    /\ restarts' = restarts + 1
    /\ \E started \in Started : \E order \in SetToSeqs(started) :
          q' = [i \in DOMAIN order |->
                   Task("deploy", order[i], Newest(order[i]), Content(order[i]), Boot)]
    /\ ops' = [o \in Ops |-> IF AtRest(o) THEN ops[o] ELSE [ops[o] EXCEPT !.pc = "ended"]]
    /\ executor' = <<WaitForNextTask>>
    /\ deploying' = {}
    /\ applications' = [p \in Paths |-> NoApp]
    /\ versions' = [p \in Paths |-> 0]
    /\ status' = [p \in Paths |-> NoApp]
    /\ running' = {} /\ paused' = {}
    /\ UNCHANGED <<answers, disk, setting, ticks>>

-----------------------------------------------------------------------------
Next == Operation \/ Tick \/ Manager \/ Deploys \/ Restart

\* the manager thread runs, a build is answered, and what follows it runs
Fairness == WF_vars(Manager) /\ WF_vars(Deploys)

Spec == Init /\ [][Next]_vars /\ Fairness

-----------------------------------------------------------------------------
Apps == [version : Nat, config : Ops \cup {0}, op : Ops \cup {Boot}]
Tasks == [what : {"wait", "status", "undeploy", "deploy"}, path : Paths \cup {0},
          version : Nat, config : Ops \cup {0}, op : Ops \cup {Boot}]
Stages == {"building", "built", "published", "reported", "told", "failing", "refused", "final"}

TypeOK ==
    /\ ops \in [Ops -> [pc : {"idle", "chosen", "cleared", "unpacked", "waiting", "deleted", "ended"},
                        path : Paths \cup {0}, version : Versions \cup {0}]]
    /\ answers \in [Ops -> Seq({"ok", "error"})]
    /\ disk \in [Paths -> [Versions -> Ops \cup {Missing, Empty, Unparsed}]]
    /\ q \in Seq(Tasks) /\ executor \in Seq(Tasks)
    /\ deploying \subseteq [task : Tasks, version : Versions, previous : Apps,
                            stage : Stages, unpause : BOOLEAN, done : BOOLEAN]
    /\ applications \in [Paths -> Apps] /\ status \in [Paths -> Apps]
    /\ versions \in [Paths -> Versions \cup {0}]
    /\ running \subseteq Paths \X (Ops \cup {Boot})
    /\ paused \subseteq Paths \X (Ops \cup {Boot})
    /\ setting \in Settings
    /\ ticks \in 0 .. setting.ticks /\ restarts \in 0 .. setting.restarts

Unfinished == { d \in deploying : ~d.done }

(* There is one turn, and it is never lost or doubled: the manager thread is  *)
(* about to do one thing, or one deployment has still to give the turn back   *)
(* (submit and its done.compareAndSet), whichever way the deployment fails.   *)
OneTurn ==
    \/ Len(executor) = 1 /\ Unfinished = {}
    \/ executor = <<>> /\ \E d \in deploying : Unfinished = {d}

(* A deploy operation is never answered twice, whatever fails after its       *)
(* answer: not ok and then an error from the same deployment.                 *)
AnsweredOnce == \A o \in Ops : Len(answers[o]) <= 1

Deployed == UNION { Instance(p, applications[p]) : p \in Paths }

(* When the manager has nothing to do exactly the applications it knows run:  *)
(* a redeploy has stopped the version it replaced and a failed one has left   *)
(* the old version where it was.                                              *)
OnlyDeployedRun == Idle => running = Deployed

(* No redeploy, however it ends and whatever it overlaps with, leaves the     *)
(* application it paused paused.                                              *)
NothingLeftPaused == Idle => paused \cap running = {}

(* statusFor answers for the deployed applications, and no others.            *)
StatusOfDeployed == Idle => status = applications

(* The version of a deployed application only goes up: a deployment numbers   *)
(* itself after every earlier one has recorded its version (nextVersion).     *)
VersionsIncrease ==
    [][\A p \in Paths :
          applications[p] # NoApp /\ applications'[p] \notin {NoApp, applications[p]} =>
              applications'[p].version > applications[p].version]_vars

(* What is deployed is what a restart would deploy: its files are those of    *)
(* the newest version on disk.  And nothing on disk is not deployed.  This is *)
(* so for operations that wait for one another.                               *)
RestartsAlike ==
    ~setting.overlap /\ Idle /\ (\A o \in Ops : AtRest(o)) =>
        \A p \in Paths :
            IF applications[p] = NoApp THEN Listed(p) = {}
            ELSE /\ Newest(p) = applications[p].version
                 /\ Content(p) = applications[p].config

(* Every deployment that was asked for is answered, also when an earlier one  *)
(* fails: DeploySubscriber is told ok or error, and the manager goes on.      *)
EveryDeployAnswered ==
    \A o \in Ops : (ops[o].pc = "waiting") ~> (answers[o] # <<>>)
=============================================================================
