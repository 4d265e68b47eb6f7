------------------------------ MODULE FlowRuntime ------------------------------
(***************************************************************************)
(* One run of a flow: DefaultFlow.run, DefaultFlowContext and the handlers  *)
(* NodeBuilder.build wires together.  Two executors work on it:             *)
(*   - the coordinator, one thread with a FIFO queue of tasks; it alone     *)
(*     touches the state of the joins (DefaultNodeState);                   *)
(*   - the operation pool, whose jobs run concurrently with the coordinator *)
(*     and with each other and come back by queueing a task.                *)
(* Halts and errors spread over a node's listeners inside one task, by      *)
(* calls that nest; calls holds the ones still to make, innermost first, so *)
(* that the pool can run between two of them, as it does in the code.       *)
(*                                                                         *)
(* Data is a reference into heap, at; what a datum holds is the set of the  *)
(* operations whose changes are in it.  With a reference goes meant, what   *)
(* it would hold if no other branch had the same object (history: no guard  *)
(* reads it).                                                               *)
(***************************************************************************)
EXTENDS Integers, Sequences, FiniteSets, SequencesExt

CONSTANT Flows      \* the flows that may be run (what createFlow returns), each with
                    \* what may go wrong inside its operations, see PoolFault

Kinds == {"start", "operation", "async", "reference", "router", "end"}

FlowType(f) ==
    /\ f.head \in f.nodes
    /\ f.kind \in [f.nodes -> Kinds]
    /\ f.children \in [f.nodes -> Seq([node : f.nodes, key : Nat])]
    /\ f.counter \in [f.nodes -> Nat]
    /\ f.listeners \in [f.nodes -> Seq(f.nodes)]
    /\ f.faults \subseteq {"error", "lost"}

ASSUME FlowsAssumption == \A f \in Flows : FlowType(f)

\* Flow.FlowStats
Counters == {"requests", "completed", "errors", "halts"}

Ref(at, meant) == [at |-> at, meant |-> meant]
NoData == Ref(0, {})

VARIABLES flow,       \* the flow this is a run of
          queue,      \* tasks of the coordinator
          calls,      \* halted and error calls of the current task
          jobs,       \* jobs of the operation pool
          heap,       \* contents of the data objects
          arrived,    \* DefaultNodeState.data
          remaining,  \* DefaultNodeState.remaining
          lifecycle,  \* DefaultNodeState.lifecycle
          done,       \* DefaultFlowContext.done
          stats,      \* FlowStats
          outcomes,   \* calls of the subscriber, in the order they are submitted
          started     \* how often each operation was submitted (history)

joins == <<arrived, remaining, lifecycle>>
ended == <<done, stats, outcomes>>
vars  == <<flow, queue, calls, jobs, heap, joins, ended, started>>

-----------------------------------------------------------------------------
ActionTasks == {"enter", "main", "run", "next"}
OtherTasks  == {"halted", "halt handlers", "error"}

Task(what, n, d) == [what |-> what, node |-> n, data |-> d]
Call(what, n)    == [what |-> what, node |-> n]
Job(work, n, d, todo) == [work |-> work, node |-> n, data |-> d, todo |-> todo]

Refs  == [at : 1 .. Len(heap), meant : SUBSET flow.nodes]
Tasks == [what : ActionTasks, node : flow.nodes, data : Refs] \cup
         [what : OtherTasks, node : flow.nodes, data : {NoData}]
Calls == [what : {"halted", "error", "context halted", "context error"}, node : flow.nodes]
Jobs  == [work : {"operation", "async", "reference", "router", "routing"},
          node : flow.nodes, data : Refs, todo : Seq(Tasks)]

\* mutant of Stateful: NodeBuilder wraps no join in a StatefulControl
NoControl(n) == FALSE

\* NodeBuilder.build: a node that waits for several inputs gets a StatefulControl
Stateful(n) == flow.counter[n] > 1

\* mutant of HaltHandlers: the end does not tell the context
OnlyListeners(n) == [i \in DOMAIN flow.listeners[n] |-> Call("halted", flow.listeners[n][i])]

\* NodeBuilder.build: the listeners first, the context's own handler last
HaltHandlers(n) ==
    [i \in DOMAIN flow.listeners[n] |-> Call("halted", flow.listeners[n][i])] \o
    IF flow.kind[n] = "end" THEN <<Call("context halted", n)>> ELSE <<>>

\* mutant of ErrorHandlers: it stops at the listeners
ErrorStops(n) == [i \in DOMAIN flow.listeners[n] |-> Call("error", flow.listeners[n][i])]

ErrorHandlers(n) ==
    [i \in DOMAIN flow.listeners[n] |-> Call("error", flow.listeners[n][i])] \o
    <<Call("context error", n)>>

Keys(n) == { flow.children[n][i].key : i \in DOMAIN flow.children[n] }

-----------------------------------------------------------------------------
Init ==
    /\ flow \in Flows
    /\ queue = <<Task("enter", flow.head, Ref(1, {}))>>
    /\ calls = <<>>
    /\ jobs = {}
    /\ heap = <<{}>>
    /\ arrived = [n \in flow.nodes |-> <<>>]
    /\ remaining = flow.counter
    /\ lifecycle = [n \in flow.nodes |-> "WAITING"]
    /\ done = FALSE
    /\ stats = [c \in Counters |-> IF c = "requests" THEN 1 ELSE 0]
    /\ outcomes = <<>>
    /\ started = [n \in flow.nodes |-> 0]

-----------------------------------------------------------------------------
(* The coordinator takes a task when it is through with the previous one.   *)

Taking(what) == calls = <<>> /\ queue # <<>> /\ Head(queue).what = what

Here  == Head(queue).node    \* the node and the data of the task
Given == Head(queue).data

\* RuntimeNode.call
Enter ==
    /\ Taking("enter")
    /\ queue' = Append(Tail(queue), Task("main", Here, Given))
    /\ UNCHANGED <<flow, calls, jobs, heap, joins, ended, started>>

\* mutants of Copy: the child gets the data itself; the copy after its own
NoCopy(d, i)   == d
NextCopy(d, i) == Ref(Len(heap) + i + 1, d.meant)

\* the i-th mutableCopy of d, and the heap with one copy per child
Copy(d, i) == Ref(Len(heap) + i, d.meant)
Copied(d, children) == heap \o [i \in DOMAIN children |-> heap[d.at]]

\* ActionHandlers.call over the children: each gets a copy, an only child the data
CallChildren(n, d) ==
    LET children == flow.children[n]
        copy == Len(children) > 1
    IN  /\ queue' = Tail(queue) \o [i \in DOMAIN children |->
                        Task("main", children[i].node, IF copy THEN Copy(d, i) ELSE d)]
        /\ heap' = IF copy THEN Copied(d, children) ELSE heap

\* DefaultFlowContext.end, error and halted
Finish(kind, counter, contents) ==
    /\ done' = TRUE
    /\ outcomes' = Append(outcomes, [kind |-> kind, data |-> contents])
    /\ stats' = [stats EXCEPT ![counter] = @ + 1]

\* The action of node n: what NodeBuilder.build puts in main before any StatefulControl.
Act(n, d) ==
    \/ /\ flow.kind[n] = "start"
       /\ CallChildren(n, d)
       /\ UNCHANGED <<jobs, ended, started>>
    \/ /\ flow.kind[n] \in {"operation", "async", "reference", "router"}
       /\ jobs' = jobs \cup {Job(flow.kind[n], n, d, <<>>)}
       /\ started' = [started EXCEPT ![n] = @ + 1]
       /\ queue' = Tail(queue)
       /\ UNCHANGED <<heap, ended>>
    \/ /\ flow.kind[n] = "end"
       /\ Finish("ok", "completed", heap[d.at])
       /\ queue' = Tail(queue)
       /\ UNCHANGED <<jobs, heap, started>>

\* the handler of a node without a StatefulControl
Main ==
    /\ Taking("main")
    /\ ~Stateful(Here)
    /\ Act(Here, Given)
    /\ UNCHANGED <<flow, calls, joins>>

\* ... and of one behind its StatefulControl
Run ==
    /\ Taking("run")
    /\ Act(Here, Given)
    /\ UNCHANGED <<flow, calls, joins>>

\* mutants of Decrement: it decides with one input still missing
OneTooEarly(n, data) ==
    /\ remaining' = [remaining EXCEPT ![n] = @ - 1]
    /\ lifecycle' = IF remaining[n] = 2
                    THEN [lifecycle EXCEPT ![n] = IF data # <<>> THEN "ACTIVE" ELSE "INACTIVE"]
                    ELSE lifecycle
AnyInput(n, data) ==
    /\ remaining' = [remaining EXCEPT ![n] = @ - 1]
    /\ lifecycle' = IF data # <<>> THEN [lifecycle EXCEPT ![n] = "ACTIVE"]
                    ELSE IF remaining[n] = 1 THEN [lifecycle EXCEPT ![n] = "INACTIVE"]
                    ELSE lifecycle

\* DefaultNodeState.decrement, of a node at which some data may have arrived
Decrement(n, data) ==
    /\ remaining' = [remaining EXCEPT ![n] = @ - 1]
    /\ lifecycle' = IF remaining[n] = 1
                    THEN [lifecycle EXCEPT ![n] = IF data # <<>> THEN "ACTIVE" ELSE "INACTIVE"]
                    ELSE lifecycle

\* StatefulControl.run: everything that arrived is merged into the first of it
Merge(n, data, rest) ==
    /\ heap' = [heap EXCEPT ![data[1].at] = UNION { heap[data[i].at] : i \in DOMAIN data }]
    /\ queue' = Append(rest, Task("run", n,
                    Ref(data[1].at, UNION { data[i].meant : i \in DOMAIN data })))

\* StatefulControl.call
Arrive ==
    /\ Taking("main")
    /\ Stateful(Here)
    /\ LET data == Append(arrived[Here], Given)
       IN  /\ arrived' = [arrived EXCEPT ![Here] = data]
           /\ Decrement(Here, data)
           /\ IF lifecycle'[Here] = "ACTIVE"
              THEN Merge(Here, data, Tail(queue))
              ELSE queue' = Tail(queue) /\ UNCHANGED heap
    /\ UNCHANGED <<flow, calls, jobs, ended, started>>

\* the next handler of an operation that is done
After ==
    /\ Taking("next")
    /\ CallChildren(Here, Given)
    /\ UNCHANGED <<flow, calls, jobs, joins, ended, started>>

\* handleHalted and handleError only start a cascade of calls
StartCascade ==
    /\ calls = <<>> /\ queue # <<>>
    /\ \/ Head(queue).what = "halted"        /\ calls' = <<Call("halted", Here)>>
       \/ Head(queue).what = "halt handlers" /\ calls' = HaltHandlers(Here)
       \/ Head(queue).what = "error"         /\ calls' = ErrorHandlers(Here)
    /\ queue' = Tail(queue)
    /\ UNCHANGED <<flow, jobs, heap, joins, ended, started>>

-----------------------------------------------------------------------------
(* The calls of a cascade, one at a time.                                   *)

Calling(what) == calls # <<>> /\ Head(calls).what = what

\* RuntimeNode.halted of a node without a StatefulControl
HaltPlain ==
    /\ Calling("halted")
    /\ ~Stateful(Head(calls).node)
    /\ calls' = HaltHandlers(Head(calls).node) \o Tail(calls)
    /\ UNCHANGED <<flow, queue, jobs, heap, joins, ended, started>>

\* StatefulControl.halted: one input less to wait for
HaltJoin ==
    /\ Calling("halted")
    /\ LET n == Head(calls).node
       IN  /\ Stateful(n)
           /\ Decrement(n, arrived[n])
           /\ IF lifecycle'[n] = "ACTIVE"
              THEN Merge(n, arrived[n], queue)
              ELSE UNCHANGED <<queue, heap>>
           /\ calls' = IF lifecycle'[n] = "INACTIVE"
                       THEN HaltHandlers(n) \o Tail(calls) ELSE Tail(calls)
    /\ UNCHANGED <<flow, jobs, arrived, ended, started>>

\* RuntimeNode.error: no join is told
ErrorNode ==
    /\ Calling("error")
    /\ calls' = ErrorHandlers(Head(calls).node) \o Tail(calls)
    /\ UNCHANGED <<flow, queue, jobs, heap, joins, ended, started>>

ContextCall ==
    /\ \/ Calling("context halted") /\ Finish("halted", "halts", {})
       \/ Calling("context error") /\ Finish("error", "errors", {})
    /\ calls' = Tail(calls)
    /\ UNCHANGED <<flow, queue, jobs, heap, joins, started>>

Coordinator == \/ Enter \/ Main \/ Run \/ Arrive \/ After \/ StartCascade
               \/ HaltPlain \/ HaltJoin \/ ErrorNode \/ ContextCall

-----------------------------------------------------------------------------
(* The operation pool.                                                      *)

Changing  == {"operation", "async", "reference"}   \* the work that changes data
Shared(j) == \E k \in jobs : k # j /\ k.data.at = j.data.at /\ k.work \in Changing

\* OperationAction, AsyncOperationAction and EmbeddedFlowAction coming back.  The
\* operation has changed the data; when another operation is changing the same
\* object meanwhile, nothing protects the change and it may be lost.
Complete(j) ==
    /\ j.work \in Changing
    /\ \/ heap' = [heap EXCEPT ![j.data.at] = @ \cup {j.node}]
       \/ Shared(j) /\ UNCHANGED heap
    /\ jobs' = jobs \ {j}
    /\ queue' = Append(queue, Task("next", j.node, Ref(j.data.at, j.data.meant \cup {j.node})))
    /\ UNCHANGED <<flow, calls, joins, ended, started>>

\* mutant of ReferenceHalts: the embedded flow goes on after it halted
HaltsAndGoesOn(j) ==
    /\ j.work = "reference"
    /\ queue' = Append(queue, Task("halt handlers", j.node, NoData))
    /\ UNCHANGED <<flow, calls, jobs, heap, joins, ended, started>>

\* the subscriber of the embedded flow is told that it halted
ReferenceHalts(j) ==
    /\ j.work = "reference"
    /\ jobs' = jobs \ {j}
    /\ queue' = Append(queue, Task("halt handlers", j.node, NoData))
    /\ UNCHANGED <<flow, calls, heap, joins, ended, started>>

\* a routing job with these children left to tell
Routing(j, todo) == IF todo = <<>> THEN {} ELSE {Job("routing", j.node, j.data, todo)}

\* RouterAction: the operation picks keys, then every child is called or halted
Route(j) ==
    /\ j.work = "router"
    /\ \E routed \in SUBSET Keys(j.node) :
         LET children == flow.children[j.node]
             copy == Cardinality(routed) > 1
             Tell(i) ==
                 IF children[i].key \in routed
                 THEN Task("enter", children[i].node, IF copy THEN Copy(j.data, i) ELSE j.data)
                 ELSE Task("halted", children[i].node, NoData)
         IN  /\ jobs' = (jobs \ {j}) \cup
                        Routing(j, [i \in DOMAIN children |-> Tell(i)])
             /\ heap' = IF copy THEN Copied(j.data, children) ELSE heap
    /\ UNCHANGED <<flow, queue, calls, joins, ended, started>>

RoutePosts(j) ==
    /\ j.work = "routing" /\ j.todo # <<>>
    /\ jobs' = (jobs \ {j}) \cup Routing(j, Tail(j.todo))
    /\ queue' = Append(queue, Head(j.todo))
    /\ UNCHANGED <<flow, calls, heap, joins, ended, started>>

\* "error": the operation throws, or answers with an error, and handleError runs.
\* "lost": a router or an async operation throws and nobody catches it.
PoolFault(j) ==
    /\ \/ /\ "error" \in flow.faults
          /\ j.work \in Changing
          /\ queue' = Append(queue, Task("error", j.node, NoData))
       \/ /\ "lost" \in flow.faults
          /\ j.work \in {"async", "router"}
          /\ UNCHANGED queue
    /\ jobs' = jobs \ {j}
    /\ UNCHANGED <<flow, calls, heap, joins, ended, started>>

Pool == \E j \in jobs : \/ Complete(j) \/ ReferenceHalts(j) \/ Route(j)
                        \/ RoutePosts(j) \/ PoolFault(j)

-----------------------------------------------------------------------------
Next == Coordinator \/ Pool

\* both executors keep running what they are given
Fairness == WF_vars(Coordinator) /\ WF_vars(Pool)

Spec == Init /\ [][Next]_vars /\ Fairness

-----------------------------------------------------------------------------
TypeOK ==
    /\ FlowType(flow)
    /\ queue \in Seq(Tasks)
    /\ calls \in Seq(Calls)
    /\ jobs \subseteq Jobs
    /\ heap \in Seq(SUBSET flow.nodes)
    /\ arrived \in [flow.nodes -> Seq(Refs)]
    /\ remaining \in [flow.nodes -> Int]
    /\ lifecycle \in [flow.nodes -> {"WAITING", "ACTIVE", "INACTIVE"}]
    /\ done \in BOOLEAN
    /\ stats \in [Counters -> Nat]
    /\ outcomes \in Seq([kind : {"ok", "halted", "error"}, data : SUBSET flow.nodes])
    /\ started \in [flow.nodes -> Nat]

Idle == queue = <<>> /\ calls = <<>> /\ jobs = {}

(* No join is told of more inputs than it waits for: the assertion           *)
(* "remaining must not go below zero" of DefaultNodeState.decrement, over     *)
(* arrivals by the queue and halts by listeners together.                     *)
NoExtraInput == \A n \in flow.nodes : remaining[n] >= 0

Told == { outcomes[i].kind : i \in DOMAIN outcomes }

(* When the context is done no action is left to run: the assertion "stop     *)
(* calling me, we're done!" of DefaultFlowContext.handleAction.  A run in      *)
(* which one branch fails is excepted: the others do go on.                   *)
NoActionAfterDone ==
    done /\ "error" \notin Told =>
        jobs = {} /\ \A i \in DOMAIN queue : queue[i].what \notin ActionTasks

(* The same assertion as the code has it: what handleAction runs finds the      *)
(* context not done.                                                         *)
NotCalledWhenDone == done => ~\E what \in ActionTasks : Taking(what)

(* A join decides once, when its last input is in, and for good: to run if    *)
(* any input brought data, to pass the halt on if none did (Lifecycle), so a  *)
(* late halt does not undo a run that was started.                            *)
JoinDecidesOnce ==
    [][\A n \in flow.nodes :
          /\ lifecycle[n] # "WAITING" => lifecycle'[n] = lifecycle[n]
          /\ lifecycle[n] = "WAITING" /\ lifecycle'[n] = "ACTIVE" =>
                remaining'[n] = 0 /\ arrived'[n] # <<>>
          /\ lifecycle[n] = "WAITING" /\ lifecycle'[n] = "INACTIVE" =>
                remaining'[n] = 0 /\ arrived'[n] = <<>>]_vars

Executed == { n \in flow.nodes : started[n] > 0 }

(* Whatever branches fail, halt or share their data, no data and no answer    *)
(* holds a change of an operation that was not executed in this run (what     *)
(* FlowContract needs of Complete).                                           *)
ChangesWereMade ==
    /\ \A i \in DOMAIN heap : heap[i] \subseteq Executed
    /\ \A i \in DOMAIN outcomes : outcomes[i].data \subseteq Executed

\* the references that will be used: of tasks, of jobs, and at joins that wait
InUse == { queue[i].data : i \in { i \in DOMAIN queue : queue[i].what \in ActionTasks } } \cup
         { j.data : j \in { j \in jobs : j.work # "routing" } } \cup
         UNION { Range(arrived[n]) : n \in { n \in flow.nodes : lifecycle[n] = "WAITING" } }

(* Branches of a run do not see or lose one another's changes: what is about  *)
(* to be used holds exactly the changes made on the way to it (the copies of  *)
(* ActionHandlers and RouterAction; FlowTest counts the differences).         *)
BranchesKeepApart == \A d \in InUse : heap[d.at] = d.meant

(* What the end answers with holds every change that was made on the way to it, *)
(* those of operations that ran in parallel, too: FlowTest compares it with the  *)
(* same changes made one after the other.                                      *)
ChangesAreKept ==
    \A n \in flow.nodes : \A i \in DOMAIN queue :
        /\ flow.kind[n] = "end" /\ queue[i].node = n
        /\ queue[i].what = IF Stateful(n) THEN "run" ELSE "main"
        => queue[i].data.meant \subseteq heap[queue[i].data.at]

(* A run in which nothing can go wrong and that is idle has told its           *)
(* subscriber, and the counters of the flow add up.                           *)
AccountedWhenIdle ==
    Idle /\ flow.faults = {} =>
        /\ outcomes # <<>>
        /\ stats["requests"] = stats["completed"] + stats["errors"] + stats["halts"]

(* A run is a run of FlowContract: every operation at most once, one kind of   *)
(* answer, exactly one and nothing executed after it when nothing fails, and   *)
(* always one unless what an operation throws is lost.                        *)
Contract == INSTANCE FlowContract
                WITH executions <- started, answers <- outcomes, faults <- flow.faults
FulfilsContract == Contract!Spec

(* An error that reached the coordinator is told to the subscriber, whatever  *)
(* else goes wrong.                                                           *)
ErrorsAreTold ==
    (\E i \in DOMAIN queue : queue[i].what = "error") ~> "error" \in Told
=============================================================================
