# reka: models, checks and proofs

reka runs *applications*. An application is written in a small configuration
language; each of its handlers becomes a *flow*, a directed acyclic graph of
operations over one tree of data, and each flow is attached to a trigger: an
http route, a socket message, a timer. Applications are deployed, redeployed and
undeployed while the server runs, without closing the ports they share.

This directory holds TLA+ models of the parts where that is hard to get right,
the TLC configurations that check them, and TLAPS proofs of what matters most.
Paths below are relative to `src/reka-core/src/main/java/reka/` unless they name
another module.

Contents: [inventory](#inventory) · [modules](#modules-and-how-they-correspond-to-the-code) ·
[runs](#runs) · [findings](#findings) · [fairness](#fairness) ·
[proofs](#proofs) · [not modelled](#what-is-not-modelled) · [plan](#plan)

## Inventory

For each component: the state it keeps, its operations, whom it talks to, what
is hard, and what makes it correct.

| component | state and operations | interacts with | hard behaviour | correct when |
|---|---|---|---|---|
| flow construction (`flow/builder`) | a tree of segments; `FlowConnector` lists connections and removes no-ops, `FlowBuilderGroup.configure` walks the graph and counts inputs and halt listeners, `NodeBuilder.build` wires handlers | produces what the runtime runs | several passes over a graph, each trusting the previous one; iteration order of a hash map | the graph has the connections of the tree; a join waits for each input; a halt is heard once per path |
| flow runtime (`runtime`) | per run: a context (`done`, statistics, subscriber), per join a counter, the data that arrived and a lifecycle | the coordinator thread, the pool of operation threads, subscribers | two executors; halts and errors that spread by nested calls while data travels by queued tasks; copies decided by counting children; async operations that throw | one answer per run; each operation at most once; branches do not see each other's changes; nothing runs after the answer |
| application manager (`app/manager`) | tables of applications, versions and status; a deque of tasks and one thread; deploy, undeploy, status update | builds, application components, admin operations, the disk | a deployment finishes on other threads and gives the turn back, whichever of its steps throws; overlap with other requests; restart | there is one turn; everybody is answered once; what runs is what the tables say; a restart deploys the same |
| application build (`app/ApplicationConfigurer`, `SequentialTestCasesRunner`) | a flow of initialization steps, triggers, port checkers, tests (each an iterator over cases, a list of errors) with a timeout | modules, flow builder, manager | partial failure: some triggers have been given their flows when a later one throws; a timeout racing with the last test; a case that fails in two branches, so that two threads share the iterator | it is answered exactly once; no trigger is given its flow before everything is tested; a failed build leaves nothing behind |
| module setup (`module/setup`) | `ModuleConfigurer` orders modules by nesting and by name into one initialization flow | build | a module that two others use is in the flow once behind each; names are resolved after the top level was found | each module is initialized once, after what it uses |
| admin module (`modules/admin`, `util/dirs`) | deploy and undeploy operations; numbered directories per application | manager, disk | version numbers are chosen before the task runs; directories are cleared, deleted and kept by arithmetic on them | the deployed version is never deleted; the newest directory is what is deployed |
| net manager (`reka-module-net`, `NetManager`) | port handlers, flows by host, versions of deployed settings; deploy and undeploy a component, pause and resume it | manager, channel setups, the operating system's ports | two versions of an application have the same address during a redeploy; a port that cannot be bound; nothing is rolled back | no address changes hands between applications; no port is open without use; an application serves its addresses |
| channel setups (`reka-module-net`, `HttpChannelSetup`, `WebsocketChannelSetup`) | flows and lists of held requests by host; `channelRead` on event loops, `pause`/`resume` on manager threads | net manager, flows | check-then-act on concurrent maps; lists that are not thread-safe | nobody is turned away during a redeploy, and nobody waits for ever |
| http routing (`HttpRouter`) | immutable routes of a flow | flows | overlapping routes | a request takes the first route that matches |
| process managers (`reka-module-process`) | child processes, a queue of requests they share, a queue of reply consumers, a writer and a reader thread per start, `isShutdown` | operations, the operating system's processes | the process dies, goes deaf or writes to stderr between a request and its reply; writer, reader and shutdown read the field `process` while a respawn replaces it | a request goes to one process, once, and is answered by its own reply; a process that is replaced is terminated; nothing is started after shutdown |
| timers (`modules/builtins/TimerConfigurer`) | a scheduled task | flows, application lifecycle | a tick after undeployment | ticks only while deployed |
| data (`data`) | mutable and immutable trees, merge, diff, copy | everything | copy on write; merging branches | merging is the union of changes; a copy is independent |
| identity stores (`identity`) | a concurrent map per identity | builds | a redeploy that carries values over | a value survives a redeploy |
| event log (`EventLogger`) | an append-only file | manager | — | — |
| configuration language (`reka-config`) | parser, include and conversion passes, reflective configurer | admin operations, builds | sequential | a configuration is accepted or refused |
| filesystem, email, exec, irc, jdbc, templating, language modules | each operation is a call of a library | flows | inside the libraries | — |

How they interact: an admin operation (on an operation thread) unpacks a version
and pushes a task; the manager thread takes it, pauses the components of the
version before, and starts a build; the build runs a flow of initialization
steps, asks the port checkers and registers net components; what follows the
build runs on the build's thread: the tables change, the old version's
components are undeployed, the subscriber is told, the version is recorded, the
components are resumed and the turn is given back. Meanwhile event loops accept
requests and start flows.

## Modules and how they correspond to the code

    WellFormedFlows ─┬─ ConfigureSteps ─┬─ FlowConfigure ─┬─ FlowBuilder ── MCFlowBuilder
                     │                  │                 └─ FlowConfigureProofs
                     │                  └─ FlowSegments ─┬─ ModuleSetup ─┬─ FlowBuilder
                     │                                   │               └─ MCFlowRuntime
                     │                                   └─ SmallSegments ── MCFlowBuilder, MCFlowRuntime
                     └─ FlowPathsProofs ─┬─ FlowConfigureProofs
                                         └─ FlowRuntimeProofs ── FlowInputsProofs
    FlowContract ── FlowRuntime ─┬─ MCFlowRuntime
                                 └─ FlowRuntimeProofs
    ApplicationManager ─┬─ MCApplicationManager
                        └─ ApplicationManagerProofs
    ApplicationBuild ─┬─ BuildContract
                      ├─ MCApplicationBuild
                      └─ ApplicationBuildProofs
    NetManager ─┬── MCNetManager
                └── Redeploy ─┬─ MCRedeploy
                              └─ NetManagerProofs
    ProcessManager ─┬─ RequestReply
                    ├─ MCProcessManager
                    └─ ProcessManagerProofs

Where a run asks about several configurations or fault models, they are a set of records,
`Settings` (in FlowRuntime the flows themselves, with their `faults`), one of which
`Init` chooses and no step changes: what may happen is then part of the state, one run covers
all of them, and the proofs are for every such set.

**FlowSegments** is the construction of a flow as pure operators: `Segment` and its
constructors are the segment classes, `Connect` and `Expand` are
`FlowConnector`'s passes (with the intermediate no-op node it makes between several ends
and several starts), `FixUp` and `FindNoOpReal` its removal of no-ops, `Graph` the builders that
`createFlow` connects, `CreateFlow` what it makes of them by all of configure's calls (`CallAll`). Its
operators are recursive, so they are evaluated by TLC and no proof uses them. The iteration order of the connections
is a parameter.

**ConfigureSteps** and **FlowConfigure** are `FlowBuilderGroup.configure`, which recurses over a graph
whose joins are reached several times. The stack of the recursion is `walk.calls`; `NextCall` is the body for the
first of them: it counts (`Counts`, `incrementInitialCounter`), decides whether the node passes halts on
(`NotifiesBehind`, `isTrigger`), adds it to the listeners of its trigger, and puts the calls for the children on the
stack (`ProcessesChildren`, `CallsBehind`), for a join only when its last input is counted. ConfigureSteps has these as operators on
a graph and a walk, so that FlowSegments can make all calls at once and FlowConfigure one at a
time, as a machine over any graph (`IsGraph`: finite, without cycles, its head without inputs), which is what
the proofs are about.

**FlowBuilder** is `createFlow` for each of the given segments and applications: `Init` connects
(`Graph`), each step is one call of configure. What was connected is compared with definitions on the tree that do not
follow the code's passes (`TreeEdges`, `Behind`), and what was configured with paths in
the graph. It extends FlowConfigure, and its steps are FlowConfigure's: `GraphsAssumption`, which TLC evaluates,
says that what it connects is a graph as the proofs assume. **SmallSegments** enumerates all segments of at most `Size` nodes:
binary sequences and parallels, routers of one or two routes, embedded flows,
`halt!`, routes without a body.

**ModuleSetup** is `ModuleConfigurer.setup`: an application is given by who is configured inside
whom (`parent`), which modules of the root each one names (`named`) and which have something to do at
initialization (`onDeploy`); `TopLevel`, `UsedBy` and `BuildSegment` are
`findTopLevel`, `resolveNamedDependencies` and `buildSegment`. `Uses`, the transitive use, is the reference that
`InitializedAfterUsed` compares the finished graph with. The segment goes through
FlowSegments like any other, and the flow that results is run by FlowRuntime.

**FlowRuntime** is one run. The coordinator is `queue`, a FIFO of tasks; a
cascade of halts or errors is `calls`, so that pool threads run between two of its calls;
the pool is the set `jobs`. One action per handler: `Enter`
(`RuntimeNode.call`), `Main` (`DefaultFlowContext.handleAction`), `Run`,
`Arrive` and `After` (`StatefulControl`, `DefaultNodeState`), `HaltPlain`,
`HaltJoin`, `ErrorNode`, `ContextCall` (the halted and error handlers and the context's end),
`Complete`, `ReferenceHalts`, `Route`, `RoutePosts`, `PoolFault` (the actions on pool
threads). Data is a reference into a heap; what is in a datum is the set of operations whose
changes it has, so `Copy` and sharing are visible and everything else about data is
not. `meant` and `started` are history.

**FlowContract** is the abstract specification: operations are executed at most
once, then there is one answer, then nothing. `FlowRuntime!FulfilsContract` is the
refinement (`INSTANCE FlowContract WITH executions <- started, answers <- outcomes`). A
flow embedded in another is one job of the outer run that behaves like
`FlowContract`, which is how the two levels compose. What may go wrong inside
operations (`flow.faults`) comes with the flow: `PoolFault` throws, answers with an
error or loses the answer only in flows that may.

**WellFormedFlows** says which flows a run can be relied on, in terms of paths and without
following `configure`: there is one end, and every branch goes on to it; the counter of a join is the number
of its inputs (`Entries`: the paths to it that pass no other join); nothing else has more than
one input; and what is told when a node is halted (`Heard`) is, at every join and at the end, what
would have come from it (`Onward`). It is the hypothesis of the proofs about runs; FlowConfigureProofs shows that configure establishes it, and
MCFlowRuntime has TLC check it of every flow it creates (`CreatedFlowsAreWellFormed`).

**ApplicationManager** has the operations (`ops`, a program counter each through
`RekaDeployOperation` and `RekaUndeployOperation`), the directories (`disk`), the deque and
the executor of the manager thread (`q`, `executor`), the deployments that are under way
(`deploying`, each with the stage its callbacks have reached), the tables, the instances that
run and are paused, and `Restart` (`Reka.run`). `deploying` can hold more than one: a
deployment gives its turn back before its `finally` block has run. A configuration is named by
the operation that unpacked it. `Kept` is 2 in the code and 1 in the runs; it
only moves the boundary that `Old` computes.

**ApplicationBuild** is `ApplicationConfigurer.build` and what it waits for: `Checks`, `Initialized`,
`Builds`, the tests, `GivesFlows` and `Completes`. A case of a test is a run of a flow, so
FlowContract says what it may answer, and every answer is a thread that calls
`runNext`: `threads[t]` counts those of test `t` at each of the four places between the
statements of `SequentialTestCasesRunner` (`HasNext`, `RunsNext`, `AddsErrors`, `Decrements`). A
case that fails in two branches makes two of them, on one iterator. The timeout is
`TimerFires` and `TimesOut`, since a timer that has begun to run cannot be cancelled;
`Decide` is `CompletableFuture.complete`. `testsFinished` is `Finishes`, which finds all well or begins to
stream the errors, and `Reports`, which fails the build or, when a thread added errors meanwhile (`report`), throws
with nobody to catch it. **BuildContract** is what ApplicationManager takes a build for: its
action `Build` has just these three outcomes.

**ProcessManager** is `SingleProcessManager` and `MultiProcessManager`. A process is named by its
manager and the number of its start, and `Now(m)` is the field `process`. Writer and reader are
program counters per start (`writer`, `reader`), a statement that others can see in between
each: `WriterChecks`, `Takes`, `Writes`, `Offers`, `Exits`, `Respawns`, `Terminates`; `Enters`,
`ReadsLine`, `Syncs`, `Polls`, `Drains`. What was written to a process is kept, and the queue of
consumers is the part of it between `polled` and `offered`. `Child` is the process itself: it
prints a line for each it read, dies, closes its stdin or writes to stderr. The pipes to and from it
hold `room` lines each. `Writes` waits, in the lock, while its pipe is full (`StdinHasRoom`), a process prints when
there is room (`StdoutHasRoom`) and reads its next line when it has printed the reply to the one before; a process
whose lines nobody waits for (noreply) is assumed to read at once.
**RequestReply** is the contract, with a state per request and the replies its consumer was called with.

**NetManager** has the port handlers, the flows at each address, the counted
versions of settings and the components of each application. A turn is one deployment
(`Begin`, `Check`, `Register` per component or `RegisterFails`, `Publish`, `Leave` per old component,
`Done`) or one undeployment; the manager's single turn is taken from
ApplicationManager, where it is proved. The hash of the settings is the settings.

**Redeploy** EXTENDS NetManager with what requests see: `channelRead` a statement at a time
(`Receive`, `SeePaused`, `GetList`, `AddToList`, `SetUpNow`), and the deployment's
`pause` and `resume` (`BeginAndPause`, `Resume`, `ResumeNext`, `Resumed`,
`EndTurn`). A setup belongs to a port handler, so a handler that is closed and made
again has new setups (`since`). `PausedBy` is the list of what an application's components give for
`resume`, a `Runnable` that does nothing (`NoSetup`) for sockets and closed ports. `lists` are kept by the deployment that made
them, because a thread can add to a list after it was taken out of the map. `Throws` says when the
iteration over a list throws; then nobody gives the turn back and the model, like the
manager, stops there.

## Runs

| run | what it asks | size |
|---|---|---|
| flow_builder | all segments of at most 4 nodes, and the initialization flows of all applications of up to 3 modules and of 4 that all do something, in two iteration orders, a call of configure at a time: connections, joins, halt listeners, order of initialization | 42 387 states |
| flow_run | every interleaving of every run of every flow of at most 4 nodes, of flows of at most 3 whose operations fail or are lost, and of the initialization flows of 3 modules: `FlowContract` and the parts it needs | 261 493 states |
| manager_redeploy | 3 overlapping operations on one application with a status update; 4 operations on 2 applications one at a time with 2 clean restarts; configurations that are refused, builds that fail | 728 423 states |
| manager_faults | 3 overlapping operations with every fault, a crash and a restart | 2 845 027 states |
| application_build | no tests, two tests of which one has two cases, three cases in a row, three tests; every fault | 42 673 states |
| net_manager | 4 deployments of 2 applications from 11 configurations that share two ports, two hosts and a certificate, bind failures, undeployments | 323 554 states |
| redeploy | 2 connections meet 3 deployments of 2 applications on one port | 831 131 states |
| process_manager | 2 requests to one process or two that die, go deaf, write to stderr, cannot be started again, are shut down; 3 to one over pipes that hold less than a line each | 144 871 states |
| flow_builder_crossing, flow_run_halt, flow_run_forked_routes, redeploy_websocket | the four findings | — |

Why the bounds are enough. *Flows*: joins, nested joins, a join behind a router, an embedded
flow in one branch of two, a route that is a single end, and a no-op between two of these all exist
with four nodes; `Crossing` and `ForkedRoutes` exclude the two shapes that are
findings from the other runs, so that these say something about everything else.
Faults multiply the runs and use three nodes, enough for a join with one failing input and for two
branches that both fail. *Modules*: with three, one module is used by two others, or by one through
another and directly; with four, by two that a fourth uses.
*Manager*: two operations can
overlap in every stage, the third meets what they left; one restart is enough to read a
directory in any stage, two to deploy again what a restart deployed. *Build*: two threads of one test
need a case that fails twice and a case after it; a third case lets one be passed over.
`MaxAgain = 2` lets both cases of a test, or one in each of two tests, fail twice.
*Net*: of four deployments two may be redeploys of each
application, or three of one; between them the configurations differ in
type, host, port and certificate alone, and one registers the same address
twice. *Redeploy*: two connections can both
be in the list, or one in the list while the other adds; three deployments are two
redeploys, so a list that is taken twice would show. *Processes*: two starts, so that everything
about a respawn happens once while the old threads are still there; the last start is well, or
nothing would ever be served. Two requests are what it takes for a reply to reach the
wrong consumer, or for one to be offered again behind the other. Two
managers share the queue; only the first one's processes go, which leaves the second to be the one that
serves what the first put back. Six of the settings combine the ways to go that
interact (a death with stderr, deafness with a failing start, a death with a shutdown). Two more are
about the pipes, whose lengths in lines are what matters: the shortest, `room = 0`, where even one line does not fit without
somebody who reads it, needs three requests to jam, one that is being written, one that the process is
answering and one whose reply is waiting for the reader's lock.

What each shows beyond that:

* **flow_builder**: `EveryConnectionMade` compares the connector's four passes with the
  tree; `JoinsWaitForEveryInput` and `HaltsHeardOncePerPath` compare what configure's calls left with paths
  in the graph; `InitializedAfterUsed` that a module is one node, behind all it uses.
* **flow_run**: `NoExtraInput`, `NoActionAfterDone` are assertions of the code;
  `BranchesKeepApart` is about the copies; `JoinDecidesOnce` says a late halt does not undo
  a run; `AccountedWhenIdle`, `FulfilsContract` and `ErrorsAreTold` that everybody is answered. With faults
  the contract is weaker, and says how: one *kind* of answer, at most one unless
  branches fail, perhaps none when an async operation or a router throws.
* **manager_redeploy**: `OnlyDeployedRun`, `StatusOfDeployed`, `VersionsIncrease`,
  `EveryDeployAnswered` (liveness) and `RestartsAlike`. The last is only true one operation at a time and with
  clean restarts: with overlap an undeploy that was asked for first runs last (the
  deque is a stack); a deployment that fails at the start lets versions begin at 1
  again below higher directories; a main.reka that cannot be parsed ends the start; a
  crash during an upload leaves a directory with nothing to deploy.
* **manager_faults**: `OneTurn`, `AnsweredOnce`, `NothingLeftPaused`.
* **application_build**: `TestedBeforeServed`, `FulfilsBuildContract` and, with the timeout, `BuildAnswered`.
  The first two hold although two threads on one iterator can pass cases over, run them twice and
  complete the test twice or never: a test in which that happened has errors already. `BuildAnswered` has one
  exception, and the run reaches it: the second thread adds its errors (405) while the first streams them (396), and
  the exception leaves the build without an answer, because the timer is cancelled (392).
* **net_manager**: `ServesItsComponents` leaves out applications with a deployment that
  failed after it had registered something (`spoiled`): its version counts are
  one too high for the components that are still deployed, so these can never be
  undeployed, and its flows have replaced theirs. `AddressesAreKept`,
  `ConflictsAreOwn` and `HandlersAreUsed` hold all the same.
* **redeploy**: `NobodyTurnedAway` and `ServedByDeployed`, through every race of
  `channelRead` with `pause` and `resume`. `NothingWaits` is not among them: it fails for
  websockets (a finding) and, by the race between `containsKey`, `get`, `add` and `resume`, for http.
* **process_manager**: `FulfilsRequestReply` (the refinement), `GivenOnce`, `NoStrayProcess`,
  `ShutdownEnds`, and as liveness `DeadAreReplaced` and `EveryoneServed`. `EveryoneServed`
  names what is lost: what a process was given that then dies, or that has written to stderr. It also
  excepts a process that is jammed (`Jammed`): the writer in the lock waits for room to write, the process for room
  to print, and the reader for the lock, or in `drain`. The run reaches both forms, and shows that no other
  writer stays blocked.

Deadlock checking is off everywhere: a run of a flow ends, a flow is created once, and
operations, deployments, requests and connections are bounded.

Each property of a passing run has a mutant, a definition beside the one it mutates
(`OneTooEarly` beside `Decrement`, `NeverSuperseded` beside `Superseded`); the run
under the mutant violates the property.

## Findings

* **Lost connections.** `FlowConnector.findNoOpReal` returns one node, so of the intermediate node
  between several ends and several starts only one successor is found
  (`flow_builder_crossing`).
* **halt! in one of two branches.** It is connected to nothing, so the end waits for the other branch only and
  ends the context when that has arrived, while an operation before the halt! may still run; when it has, its
  action meets the assertion `stop calling me, we're done!` (`flow_run_halt`, `NotCalledWhenDone`).
* **A route that starts with parallel operations** gives all of them the same data object, which they change at
  the same time, and the end answers without the change of one (`flow_run_forked_routes`, `ChangesAreKept`).
* **Websockets stay paused**: `WebsocketChannelSetup.resume` does not remove the list
  (`redeploy_websocket`).

What the code does and no document, comment or test denies, so that no run is a counterexample to a
stated promise, but which the models have in them:

* ProcessManager (`SingleProcessManager.java`): lines nobody waits for are given to the listeners only
  when there are none (`lineTriggers.isEmpty()`, 271); once a process has written to stderr its reader reads
  that to the end, that is until the process has ended, and hears no more replies (193); a
  shutdown between the look at `isShutdown` and the respawn leaves the new process running (245);
  what was taken and not written at shutdown is dropped; the reader of a process that ended goes round
  its loop while a later process lives (264); requests a dead process was given are never answered;
  the `ArrayDeque` of consumers has no common lock, which matters beyond its 16 places (237, 268; not modelled);
  a writer that blocks on a full pipe (234) does so in the lock its reader waits for (267), so that a burst of requests
  with long replies stops the manager for ever.
* RekaDeployOperation: an archive that cannot be deployed throws (59-78, ConfigParser) out of an async operation, where
  nobody catches it (AsyncOperationAction 25), so that the operation is not answered.
* ApplicationConfigurer: the errors of the tests are streamed without the lock of their list (396), see
  `BuildAnswered`; modules that were initialized are not undeployed when a later
  step of the build fails; the initialization flow has no timeout; `checkValid` sets every module up
  a second time.
* ModuleConfigurer: modules that use each other in a circle send `buildSegment` round for ever; names
  resolve only to modules of the root.

## Fairness

* FlowRuntime: weak fairness of the coordinator and of the pool. Both are executors that run
  whatever is submitted; a lost answer is a fault (`lost`), not unfairness. It is used by
  `FulfilsContract` (the contract's answer) and `ErrorsAreTold`.
* ApplicationManager: weak fairness of the manager thread and of what follows a build,
  that is, a build is answered one way or the other. The code does not promise that: an initialization flow
  may never end, and see `BuildAnswered`; `EveryDeployAnswered` says what the manager makes of builds that are. It is used by
  `EveryDeployAnswered`. `ticks` bounds status updates: when status reports
  take longer than a second each, deployments would wait for ever behind them.
* ApplicationBuild: weak fairness of the build's own steps, of the test runners' threads and of the
  timer, which are executors' threads. A case may take for ever to answer and the initialization flow, too: no fairness. It
  is used by `BuildAnswered`, which therefore begins after the initialization.
* ProcessManager: weak fairness of each writer and reader thread, and of a child that prints the
  answers it owes; not of what may happen to it. A writer or a child whose pipe is full, and a reader whose lock is
  taken, has no step to take, and fairness makes none of it go on. Used by `DeadAreReplaced` and `EveryoneServed`.
* Operations, restarts, requests and connections have no fairness.

## Proofs

Checked by tlapm with Z3, Zenon and LS4, for all values of the constants.

For flows there is one line of argument through four modules: configure turns any graph of the right shape into a
well-formed flow (FlowConfigureProofs), and every run of every well-formed flow counts its inputs,
answers once, keeps its branches apart and implements FlowContract (FlowInputsProofs).

**FlowPathsProofs** has what both ends of it need, and no theorem: sums (`Total` is the cardinality of a disjoint
union, so that sums are added, split and compared without induction, `TotalCounts`, `WorthSame`), and paths. A graph
without cycles has ranks that every connection increases (`Ranked`: nodes without connections among the rest are taken away one at
a time, and the least number of nodes for which that fails is absurd), so the recursive
*function* `PathsTo` is well-founded and satisfies its equation (`PathsToFacts`).

**FlowConfigureProofs**, for every graph (`IsGraph`) of any size, with its connections in any order:
`JoinsComplete`, `HaltsComplete`, `ConfiguredFits` and `ConfigureTyped`. No fact about a counter is inductive by
itself, because while configure runs a part of the calls is on its stack and another part not yet known. `WalkInv` therefore says
that there is a set of nodes that are `done`, whose children's calls have been made, and of it: a join is done exactly
when it has been counted for all its inputs, any other node waits for one at most (`CountsFit`); and for every node
`t`, the paths that have come to it, those that the calls on the stack will bring and those from nodes
that are not done yet add up to all paths to it (`Balance`). A call that makes its node done moves that node's paths from the third
term to the second, a call that is only counted moves one from the second to the first. `Balance` is kept with two measures of a
path: a single connection (`Single`), so that all of them are the inputs of `t`, and a path up to the next join
(`PathsIn`), so that they are what `WellFormed` counts. When the stack is empty a node of lowest rank that is not done
could have nothing in the second and third term of the first measure: its inputs have all come, or it has none, which
`Rooted` excludes; so all nodes are done (`AllDone`, `InEnd`).
The other half, `HaltInv`, is about the listeners. A trigger on the stack is done and passes halts on
(`TriggersTell`), listeners do, too (`ListenersTell`), and so do embedded flows and the first nodes of routes or those a
call of the stack will make do so (`ReferencesTell`, `RoutesTell`); of a node that is done and passes halts on, the listeners and the calls
on the stack that have it as their trigger stand for its paths onward to joins and the end, each once
(`HaltsReach`). `ConfiguredFits` puts both
together: with one end that every branch goes on to (`OneEnd`; a segment with `halt!` has none), the
flow is `WellFormed`. FlowBuilder's `Spec` implies `ConfigureSpec`, so its two properties are the first two
theorems.

**FlowRuntimeProofs**, from `FlowsAssumption` (every flow has the shape `FlowType`:
children, counters and listeners name nodes of the flow). `IInv` has four parts:
`TypeOK`; `JoinInv`, which ties a join's lifecycle to its counter and to what arrived;
`JobsInv`, that a job belongs to a node that was started; and `ChangesWereMade`. The type
invariant alone is not inductive, because `JoinDecidesOnce` needs that a join
that has decided has nothing left to count, and a step of a job needs that its node's
operation was counted.
Theorems: `TypeCorrect`, `JoinsDecideOnce`, `OnlyExecutedChanges`.

**FlowInputsProofs**, for every flow that is well-formed
(`WellFormed(flow)`, see WellFormedFlows): `InputsCounted`, `DoneIsDone`, `IdleIsAccounted` and
`KeepsContract`, the step simulation of FlowContract. That flows
are well-formed is `ConfiguredFits`, for what configure does with the graph it is given; that the graph has one end and no
cycle is the connector's part, which is recursive: TLC checks it, and `WellFormed` itself, for
every flow that the runs of FlowRuntime start from, the 920 of flow_run among them. Flows with `halt!` are not well-formed, and `DoneIsDone` is
false for them: that is the finding `flow_run_halt`.

The argument is bookkeeping. An input of a node `t` that has not come yet is at one place: a task of the
queue, a call of a cascade, a job or a join that has not decided, and each of these stands for as many
inputs of `t` as there are paths from it to `t` that pass no join (`Coming`, a sum over all of them). `Slack` is what
`t` still has to count (`remaining`, or at a node without a counter 1 minus the times it ran or is about
to) less what is coming. `Sound` says that `Slack` is never negative, and is 0 at joins and at the end as long as no
branch failed; besides, that a join runs or is halted at most once (`Decisions`), that tasks and calls fit their
nodes (`Placed`), and that a node has one job (`OneJobEach`). There is one lemma per
action: it moves inputs from one place to the next and loses or doubles none (`...Keeps`). A halt moves them, too, because
the listeners that are told stand for the same inputs as the children that are not
called, which is where `configure`'s listeners have to be right; a fault in
the pool loses those of its branch (`Loses`), and then an error is under way or told (`Trouble`), or is lost in
a flow that may lose it.

What the books say is then read off. A join never counts below 0. When the end runs or is halted, nothing can be coming to it, so
nothing is left that leads to it, and everything leads to it (`EndRunsLast`, `NothingLeft`); this is why there is
one answer that is no error, why it comes last, and why no operation follows it. When nothing is left to do,
the undecided join of lowest rank would have all of its inputs (`JoinStands`), so there is none, and the
end has run. Faults are included in all of it except where a property excludes them. The second half of
FlowRuntimeProofs has the lemmas on what the handlers do to the sums.

The second half of the module is `BranchesApart`, for every well-formed flow in which a router has one route for a key
(`OneRoutePerKey`; where two routes share one, both get the same object, which is the finding
`flow_run_forked_routes`, and TLC checks that the other flows of the runs meet the condition). `ApartInv` says
who holds references: tasks of the queue, jobs, the tasks a routing job has still to post, and the joins that
wait. No two of them hold the same object (`Separate`), and every object held is as meant (`AsMeant`). An action
takes what one holder has, so that nobody else has it (`...Taken`), changes it or copies it into new objects
(`HandedOut`), and puts the result with one holder (`...Put`, `...Apart`). That operations lose no change
is a consequence: `Complete` may lose one only where the object is `Shared`, and it is not. A join
is the one place that needs more: it merges into the first of its inputs and must not be told of another one
after it decided, which is `InputsCounted`.

**ApplicationManagerProofs**, from `OpsAssumption`. `TurnKept`: the manager's turn is neither
lost nor doubled. `OneTurn` is strengthened by `DoneAreFinal`: a deployment that has given
its turn back has only its `finally` block left, or it could take another
step while the next task runs and give the turn back again.
On the turn rest `AnswersAreSingle` and `EveryPauseEnds`, for all faults,
crashes and restarts. `AnsweredOnce` holds because an operation that waits is in exactly one place, the
deque, the executor or a deployment that has not told its subscriber (`AnswerInv`); a deployment that
throws after its answer goes to the `finally` block and nowhere else, and since only one deployment has the turn, no
second one answers for the same operation. `NothingLeftPaused` holds because every paused instance has a
deployment that will unpause it (`PausedInv`). Both need `ManagerType`, which is `TypeOK` without the bound on version
numbers that TLC needs; a restart's part of it is that a nonempty set of versions has a newest
(`HasGreatest`, from the well-foundedness of the natural numbers). `ManagerTyped` adds the bound, so that
the directories of `Versions` are all that `nextVersion` can ask for. It is counted (`NumInv`): no version on disk or of a
deployment is above the number of operations that have begun, and none that is recorded, or was
started at boot, is above the number of those that have ended; an operation that asks for the next version
has begun and not ended.

The next part of the module is `KnownApplicationsRun` and `StatusIsKnown`, for any operations on any paths
that overlap in any way and any number of restarts and crashes, under `Calm`: nothing throws after the build was
answered (`partial`, `report`, `delete`). `TablesInv` says how far the one deployment that has the turn has come with `running` and
each table (`Reached`), that they agree when nobody has it (`Settled`), and that what is about to be deployed
is not known to the manager before it is published (`KnownInv`), so that replacing the
previous application does not stop the new one. For an operation that is so because it is answered once; for what a
restart deploys, because a restart goes through each application once (`BootsOnce`, `AllOfThem`). Outside
`Calm` the theorems are not claimed: after a trigger that throws
instances run that nobody knows, and after a report or a delete that throws the
status or the recorded version is that of the application before.

The last part is `RestartDeploysTheSame`, for operations that wait for one another (on any paths, any of them refused or
failing to build) and any number of restarts; this assumption is `Careful`, and the run's property excludes
the rest too (see `manager_redeploy` above). `RestInv` says that a path is in the hands of one operation, one task or one deployment
at most (`Alone`, `Apart`; at boot there are many tasks, but each has its own path), and what that one has made of the
directories and the recorded version so far (`OpAt`, `TaskAt`, `DepAt`): a redeploy that may still be refused has its
files *above* the deployed ones, and a refusal deletes exactly these. A path that nobody works on rests (`Rests`): the
newest directory is the recorded version and holds the configuration of what is deployed. A restart empties
the tables and leaves the directories, so the tasks it makes find theirs the newest (`IsNewest`).

`RedeployIsNewer` rests on both invariants. Without restarts a deployment takes its version from the table, which is that
of what it replaces when it begins (`Reached`), and nobody else changes either before it publishes. With restarts it
needs operations that wait: what a restart deploys then replaces nothing (`DepAt`). It is false without either: an operation that
comes while the deployments of a restart still wait begins with version 1, is run first, and one of
them replaces it with a version that may be 1 too.

**NetManagerProofs**, from `NetAssumption`: `AddressesKept`, `HandlersInUse`,
`OwnConflicts`, `TypeCorrect`. The invariant goes round in a circle, which is why none of its parts is
inductive by itself: a counted setting has a handler of its kind and certificate and the
application's flows at its address (`Backed`), so two counted settings with one address are
the same setting of the same application (`OneBacked`); a component that is at its counted
version serves at its address (`AllCounted`), so removing it takes its own flows and
nobody else's; flows belong to a counted setting (`Owned`), so a handler is only
closed when nothing is counted on its port; and what the checkers found stays true
(`Checked`), so registering takes nobody's address. `Ordered` keeps the components of
an application apart that have the same settings: the later one has the higher
version.

The next part of the module is `ComponentsServed`, for every sequence of deployments and undeployments, those of
other applications that fail half way included. `ServingInv` adds to the invariant above where an unspoiled application's
counted settings come from: each is that of a component that is deployed, was just made or has not left yet
(`Accounted`), so none is left over when the last has left; and what is deployed serves (`Serving`), except from the
first component that the next deployment registers until it is published, when what was made does.
A component that leaves at its counted version takes its own address only (`OneBacked`), and its
successors have higher versions (`Ordered`), so it is not at the counted version if it has one.

The last part of the module is about Redeploy, for any number of connections and deployments: `NobodyIsTurnedAway`,
`DeployedServe`, `RedeployTyped` and `KeepsNetManager`. The last says that the composition implements NetManager:
pauses, resumes and requests change none of its state, so what is shown above holds while requests
come. On its invariant rest the other two. What serves the address of a component that is deployed, was just made or has
not left yet belongs to that application and is of the component's build or a newer one (`Newest`): registering brings
the newest flows there are, and a component that leaves takes flows away and brings none. So whenever a request
is set up, now, or long after it was received on the thread of a deployment, it gets flows of
the deployed application (`SetUpEnds`, `ReceiveEnds`), unless the handler of the port is another one than it was (`Seen`).
Types need that deployments number the handlers (`Numbered`): what a request or a list has as its setup is an
address and a deployment that exist (`SetupsKnown`). That no request waits for ever is not true (the finding
`redeploy_websocket`), and `Throws` is in the model that these theorems are about.

**ApplicationBuildProofs**, from `BuildAssumption`:
`BuildImplementsContract`, the refinement of BuildContract, and `TestsComeFirst`. The first needs little: what
`phase` says of `future`, `tested` and `given`, and that before the tests there is nothing that could
decide them (`Quiet`: no thread is in `testsFinished`, and nothing is reported). `BuildTyped` is the type invariant; that an iterator that two threads share stays within its
list is part of the second's invariant. The second is about the two threads
that may share an iterator: `TInv` says that a test *without errors* is done, or is one thread at one
place (`AtPlace`), or waits for the one case it runs (`Waits`), with the cases before it passed and no others. A test with
errors may have threads anywhere, but those that are about to count it as done have added it to `failed`; and
`remaining` is the number of unfinished tests as long as `failed` is empty. So 0 with nothing failed means that all cases passed.
How many tests are done is a cardinality, which FiniteSetTheorems provides for.

**ProcessManagerProofs**, from `SettingsAssumption`: `ManagerFulfilsContract` (the refinement of
RequestReply, for the whole specification), `WrittenOnce`, `ReplacedAreTerminated`,
`NothingStartsAfterShutdown` and `TypeCorrect`. The parts of `IInv`:
`StartInv`, that of the starts of a manager only the last has a writer that can start another, the
earlier ones terminate their process or have; `EntryInv`, that an entry is forgotten only when it was offered or
put back; `OnceInv`, that a request is in one place, the queue, one writer's hands or what
was written; `LineInv`, which ties `offered`, `polled`, `printed` and `heard` together, and holds only because the
reader passes through the lock between `heard` and `polled`; and `ShutInv`, what a respawn that overlaps with a
shutdown can still do. `GivenOnce` needs `EntryInv`, because a writer that is interrupted after its write
must not put the request back; the contract's `Answer` needs `GivenOnce`, because consumers are named by their requests.

Only model-checked:

* `EveryConnectionMade` and `InitializedAfterUsed`. Segments are trees, and what the connector and `buildSegment` make of them is
  recursive, which no installed prover can argue about. For the same reason it is TLC that says that connected
  segments are graphs as configure needs them (`GraphsAssumption`, `CreatedFlowsAreWellFormed`).
* Liveness: `ErrorsAreTold`, `EveryDeployAnswered`, `DeadAreReplaced`, `EveryoneServed`, `BuildAnswered`, and of
  `FulfilsContract` the answer that must come (`KeepsContract` is the rest of it).

## What is not modelled

* In the modelled parts: visualizers, event listeners, logging, statistics other than
  the counters of a flow, new-context segments and labels, background executions, the context's
  store; the shutdown hook and the shutdown of event loops; what a connection sends after it
  has been set up (a keep-alive connection stays with the flows it was given, and a second
  request of a connection that is held is held too, so that resuming throws);
  connections that were accepted before their port was closed and have not sent anything.
* ApplicationManager: `pause()` that throws part way (ApplicationManager 320), after which the components it had
  paused stay paused, as `unpause` was not set.
* When a deployment fails the turn is given back in `onError` (ApplicationManager 299) and the finally block resumes
  (341) behind that, so that the next deployment can begin meanwhile and a manager whose resume throws then goes
  on. ApplicationManager has that order (`EndError`, `Finally`); Redeploy's `EndTurn` always comes after the resume.
* NetManager: a `shutdownAndWait` that throws (163), which leaves the counted version behind. Redeploy: a setup
  reads the flows of its host twice (WebsocketChannelSetup 67 and 81), the model once.
* ProcessManager: a process is taken to end on the SIGTERM of `destroy`; one that does not is killed after
  5 seconds, unless the interrupt of its own reader (280) ends the wait for it.
* The block of `DefaultFlowContext` that finds the coordinator's thread is compiled in for
  assertions only.
* I/O and libraries: event log, filesystem, email, exec, irc, databases, templates,
  language runtimes; one operation each, without state that others read.
* The configuration language: sequential; for the manager only whether a configuration
  is accepted matters.

* ApplicationBuild: what the checks and the construction of flows do, only that they may fail; identity
  stores. ModuleSetup: the search for modules and their versions, reflection. ProcessManager: status
  data and listeners.
* Code in other languages: the JavaScript files among the resources are third-party transformers
  (JSX, less) and a few lines that call them; reka itself is the Java code that is modelled here.

## Plan

Done, in this order: flows (construction, runtime, contract), the application
manager, net manager and channel setups composed with a deployment, module setup, process managers, the
application build.

Next, in order of importance:

1. Data: merge, diff and copy of memory data as recursive functions against reference definitions.
2. Timers, identity stores, connections after set-up, listeners of the manager.
3. HttpRouter: which route a request takes.
4. The configuration parser and processor over bounded token sequences.

Theorems to prove next: the lemmas on memory data, when it is modelled. All safety properties of the runs but the two above are
theorems.
