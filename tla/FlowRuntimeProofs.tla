-------------------------- MODULE FlowRuntimeProofs --------------------------
(***************************************************************************)
(* What holds of every run of every flow FlowType describes, whatever the   *)
(* faults: the types, that a join decides once, and that no change comes    *)
(* from an operation that was not executed.  The second half has the lemmas *)
(* about tasks and paths that FlowInputsProofs counts inputs with.          *)
(***************************************************************************)
EXTENDS FlowRuntime, FlowPathsProofs, TLAPS

\* a join waits exactly while inputs are missing, and one that runs has data
JoinInv ==
    \A n \in flow.nodes : Stateful(n) =>
        /\ lifecycle[n] = "WAITING" <=> remaining[n] > 0
        /\ lifecycle[n] = "ACTIVE" => arrived[n] # <<>>

\* what is being worked on was started
JobsInv == \A j \in jobs : started[j.node] > 0

IInv == /\ flow \in Flows
        /\ TypeOK
        /\ JoinInv
        /\ JobsInv
        /\ ChangesWereMade

-----------------------------------------------------------------------------
(* The types of tasks and jobs only widen: the flow stays, the heap grows.   *)

LEMMA TypesWiden ==
    ASSUME flow' = flow, heap \in Seq(SUBSET flow.nodes), heap' \in Seq(SUBSET flow.nodes),
           Len(heap) <= Len(heap')
    PROVE  /\ Refs \subseteq Refs'
           /\ Tasks \subseteq Tasks'
           /\ Jobs \subseteq Jobs'
           /\ Calls = Calls'
           /\ Seq(Tasks) \subseteq Seq(Tasks)'
           /\ Seq(Refs) \subseteq Seq(Refs)'
<1>1. Refs \subseteq Refs'
  <2>1. Len(heap) \in Nat /\ Len(heap') \in Nat
    OBVIOUS
  <2>2. 1 .. Len(heap) \subseteq 1 .. Len(heap')
    BY <2>1
  <2> QED
    BY <2>2 DEF Refs
<1>2. Tasks \subseteq Tasks'
  BY <1>1 DEF Tasks
<1>3. Seq(Tasks) \subseteq Seq(Tasks)' /\ Seq(Refs) \subseteq Seq(Refs)'
  BY <1>1, <1>2, SeqMonotone
<1>4. Jobs \subseteq Jobs'
  BY <1>1, <1>3 DEF Jobs
<1>5. Calls = Calls'
  BY DEF Calls
<1> QED
  BY <1>1, <1>2, <1>3, <1>4, <1>5

LEMMA HandlersType ==
    ASSUME FlowType(flow), NEW n \in flow.nodes
    PROVE  HaltHandlers(n) \in Seq(Calls) /\ ErrorHandlers(n) \in Seq(Calls)
<1> DEFINE ls == flow.listeners[n]
           halted == [i \in DOMAIN ls |-> Call("halted", ls[i])]
           error  == [i \in DOMAIN ls |-> Call("error", ls[i])]
<1>1. ls \in Seq(flow.nodes)
  BY DEF FlowType
<1>2. Len(ls) \in Nat /\ DOMAIN ls = 1 .. Len(ls) /\ \A i \in 1 .. Len(ls) : ls[i] \in flow.nodes
  BY <1>1
<1>3. \A m \in flow.nodes : /\ Call("halted", m) \in Calls
                           /\ Call("error", m) \in Calls
                           /\ <<Call("context halted", m)>> \in Seq(Calls)
                           /\ <<Call("context error", m)>> \in Seq(Calls)
  BY DEF Call, Calls
<1> HIDE DEF ls
<1>4. halted \in Seq(Calls) /\ error \in Seq(Calls)
  <2>1. /\ halted = [i \in DOMAIN ls |-> halted[i]]
        /\ error = [i \in DOMAIN ls |-> error[i]]
        /\ \A i \in DOMAIN ls : halted[i] \in Calls /\ error[i] \in Calls
    BY <1>2, <1>3
  <2> HIDE DEF halted, error
  <2> QED
    BY <1>1, <2>1, SeqOfFunction
<1>5. << >> \in Seq(Calls)
  OBVIOUS
<1> HIDE DEF halted, error
<1>6. error \o <<Call("context error", n)>> \in Seq(Calls)
  BY <1>3, <1>4, SeqConcat
<1>7. halted \o (IF flow.kind[n] = "end" THEN <<Call("context halted", n)>> ELSE <<>>) \in Seq(Calls)
  BY <1>3, <1>4, <1>5, SeqConcat
<1> QED
  BY <1>6, <1>7 DEF HaltHandlers, ErrorHandlers, halted, error, ls

\* a task, once taken, has a node and, when it is for an action, data
LEMMA TakenType ==
    ASSUME TypeOK, queue # <<>>
    PROVE  /\ Here \in flow.nodes
           /\ Tail(queue) \in Seq(Tasks)
           /\ Head(queue).what \in ActionTasks => Given \in Refs
<1>1. queue \in Seq(Tasks)
  BY DEF TypeOK
<1>2. Head(queue) \in Tasks /\ Tail(queue) \in Seq(Tasks)
  BY <1>1, SeqTail
<1> QED
  BY <1>2 DEF Tasks, Here, Given, ActionTasks, OtherTasks

\* one copy per child: the heap grows by them and each copy is in it
LEMMA CopiesType ==
    ASSUME TypeOK, NEW n \in flow.nodes, NEW d \in Refs
    PROVE  LET children == flow.children[n]
           IN  /\ Copied(d, children) \in Seq(SUBSET flow.nodes)
               /\ Len(Copied(d, children)) = Len(heap) + Len(children)
               /\ \A i \in DOMAIN children :
                     Copy(d, i).at \in 1 .. Len(heap) + Len(children)
<1> DEFINE children == flow.children[n]
           copies == [i \in DOMAIN children |-> heap[d.at]]
<1>1. children \in Seq([node : flow.nodes, key : Nat])
  BY DEF TypeOK, FlowType
<1>2. heap \in Seq(SUBSET flow.nodes) /\ heap[d.at] \in SUBSET flow.nodes
  BY DEF TypeOK, Refs
<1>3. copies \in Seq(SUBSET flow.nodes) /\ Len(copies) = Len(children)
  <2>1. copies = [i \in DOMAIN children |-> copies[i]]
    OBVIOUS
  <2>2. \A i \in DOMAIN children : copies[i] \in SUBSET flow.nodes
    BY <1>2
  <2> HIDE DEF copies, children
  <2> QED
    BY <1>1, <2>1, <2>2, SeqOfFunction
<1>4. heap \o copies \in Seq(SUBSET flow.nodes) /\ Len(heap \o copies) = Len(heap) + Len(copies)
  <2> HIDE DEF copies, children
  <2> QED
    BY <1>2, <1>3, SeqConcat
<1>5. \A i \in DOMAIN children : Copy(d, i).at \in 1 .. Len(heap) + Len(children)
  <2> HIDE DEF children
  <2>1. Len(heap) \in Nat /\ Len(children) \in Nat /\ DOMAIN children = 1 .. Len(children)
    BY <1>1, <1>2
  <2> QED
    BY <2>1 DEF Copy, Ref
<1> QED
  BY <1>3, <1>4, <1>5 DEF Copied

LEMMA CallChildrenType ==
    ASSUME TypeOK, flow' = flow, queue # <<>>, NEW n \in flow.nodes, NEW d \in Refs,
           CallChildren(n, d)
    PROVE  /\ heap' \in Seq(SUBSET flow.nodes)
           /\ Len(heap) <= Len(heap')
           /\ queue' \in Seq(Tasks)'
<1> DEFINE children == flow.children[n]
           copy == Len(children) > 1
           posted == [i \in DOMAIN children |->
                        Task("main", children[i].node, IF copy THEN Copy(d, i) ELSE d)]
<1>1. children \in Seq([node : flow.nodes, key : Nat])
  BY DEF TypeOK, FlowType
<1>2. Len(children) \in Nat /\ Len(heap) \in Nat /\ heap \in Seq(SUBSET flow.nodes)
  BY <1>1 DEF TypeOK
<1>3. heap' = IF copy THEN Copied(d, children) ELSE heap
  BY DEF CallChildren
<1>4. heap' \in Seq(SUBSET flow.nodes) /\ Len(heap) <= Len(heap')
  BY <1>2, <1>3, CopiesType
<1>5. Refs \subseteq Refs' /\ Seq(Tasks) \subseteq Seq(Tasks)'
  BY <1>2, <1>4, TypesWiden
<1>6. \A i \in DOMAIN children : (IF copy THEN Copy(d, i) ELSE d) \in Refs'
  <2>1. CASE copy
    BY <2>1, <1>3, CopiesType DEF Copy, Ref, Refs
  <2>2. CASE ~copy
    BY <2>2, <1>5
  <2> QED
    BY <2>1, <2>2
<1>7. posted \in Seq(Tasks)'
  <2>1. \A i \in DOMAIN children : children[i].node \in flow.nodes
    <3> HIDE DEF children
    <3>1. \A i \in DOMAIN children : children[i] \in [node : flow.nodes, key : Nat]
      BY <1>1, SeqElement
    <3> QED
      BY <3>1
  <2>2. \A i \in DOMAIN children : posted[i] \in Tasks'
    BY <1>6, <2>1 DEF Task, Tasks, ActionTasks
  <2>3. posted = [i \in DOMAIN children |-> posted[i]]
    OBVIOUS
  <2> HIDE DEF posted, children, copy
  <2> QED
    BY <1>1, <2>2, <2>3, SeqOfFunction
<1>8. Tail(queue) \in Seq(Tasks)'
  BY <1>5, TakenType
<1>9. queue' = Tail(queue) \o posted
  BY DEF CallChildren
<1> HIDE DEF posted
<1> QED
  BY <1>4, <1>7, <1>8, <1>9, SeqConcat

-----------------------------------------------------------------------------
(* Type correctness, one lemma for each part of a step that several actions  *)
(* share and one step per action in StepType.                                *)

HeapWidens == /\ heap' \in Seq(SUBSET flow.nodes)
              /\ Len(heap) <= Len(heap')

JoinTypes  == /\ remaining \in [flow.nodes -> Int]
              /\ lifecycle \in [flow.nodes -> {"WAITING", "ACTIVE", "INACTIVE"}]
EndedTypes == /\ done \in BOOLEAN
              /\ stats \in [Counters -> Nat]
              /\ outcomes \in Seq([kind : {"ok", "halted", "error"}, data : SUBSET flow.nodes])
ArrivedType == arrived \in [flow.nodes -> Seq(Refs)]
StartedType == started \in [flow.nodes -> Nat]

\* TypeOK of the next state, in the parts the steps speak of
LEMMA TypeParts ==
    ASSUME FlowType(flow)', queue' \in Seq(Tasks)', calls' \in Seq(Calls)', jobs' \subseteq Jobs',
           flow' = flow, HeapWidens, ArrivedType', JoinTypes', EndedTypes', StartedType'
    PROVE  TypeOK'
BY DEF TypeOK, HeapWidens, ArrivedType, JoinTypes, EndedTypes, StartedType

\* what a step leaves alone keeps its type
LEMMA Frame ==
    ASSUME TypeOK, flow' = flow, HeapWidens
    PROVE  /\ FlowType(flow)'
           /\ Seq(Tasks) \subseteq Seq(Tasks)'
           /\ Refs \subseteq Refs'
           /\ Jobs \subseteq Jobs'
           /\ Calls' = Calls
           /\ calls' \in Seq(Calls) => calls' \in Seq(Calls)'
           /\ UNCHANGED queue => queue' \in Seq(Tasks)'
           /\ UNCHANGED calls => calls' \in Seq(Calls)'
           /\ jobs' \subseteq jobs => jobs' \subseteq Jobs'
           /\ UNCHANGED arrived => ArrivedType'
           /\ UNCHANGED <<remaining, lifecycle>> => JoinTypes'
           /\ UNCHANGED ended => EndedTypes'
           /\ UNCHANGED started => StartedType'
<1>1. heap \in Seq(SUBSET flow.nodes)
  BY DEF TypeOK
<1>2. /\ Refs \subseteq Refs' /\ Jobs \subseteq Jobs' /\ Calls' = Calls
      /\ Seq(Tasks) \subseteq Seq(Tasks)' /\ Seq(Refs) \subseteq Seq(Refs)'
  BY <1>1, TypesWiden DEF HeapWidens
<1>3. FlowType(flow)' /\ Seq(Calls)' = Seq(Calls)
  BY <1>2 DEF TypeOK, FlowType
<1>4. UNCHANGED arrived => ArrivedType'
  BY <1>2 DEF TypeOK, ArrivedType
<1>5. /\ UNCHANGED <<remaining, lifecycle>> => JoinTypes'
      /\ UNCHANGED started => StartedType'
  BY DEF TypeOK, JoinTypes, StartedType
<1>6. UNCHANGED ended => EndedTypes'
  BY DEF TypeOK, EndedTypes, ended
<1>7. /\ UNCHANGED queue => queue' \in Seq(Tasks)'
      /\ UNCHANGED calls => calls' \in Seq(Calls)'
      /\ jobs' \subseteq jobs => jobs' \subseteq Jobs'
  BY <1>2, <1>3 DEF TypeOK
<1> QED
  BY <1>2, <1>3, <1>4, <1>5, <1>6, <1>7

LEMMA HeapStays ==
    ASSUME TypeOK, UNCHANGED heap
    PROVE  HeapWidens
BY DEF TypeOK, HeapWidens

LEMMA FinishType ==
    ASSUME TypeOK, flow' = flow, NEW kind \in {"ok", "halted", "error"},
           NEW counter \in Counters, NEW contents \in SUBSET flow.nodes,
           Finish(kind, counter, contents)
    PROVE  EndedTypes'
<1> DEFINE Outcome == [kind : {"ok", "halted", "error"}, data : SUBSET flow.nodes]
<1>1. [kind |-> kind, data |-> contents] \in Outcome
  OBVIOUS
<1>2. outcomes \in Seq(Outcome)
  BY DEF TypeOK
<1>3. outcomes' \in Seq(Outcome)
  BY <1>1, <1>2, SeqAppend DEF Finish
<1>4. stats' \in [Counters -> Nat]
  BY DEF TypeOK, Finish
<1> QED
  BY <1>3, <1>4 DEF EndedTypes, Finish

LEMMA ActType ==
    ASSUME TypeOK, flow' = flow, queue # <<>>, NEW n \in flow.nodes, NEW d \in Refs,
           Act(n, d), UNCHANGED <<calls, joins>>
    PROVE  TypeOK'
<1>1. CASE flow.kind[n] = "start" /\ CallChildren(n, d) /\ UNCHANGED <<jobs, ended, started>>
  <2>1. HeapWidens /\ queue' \in Seq(Tasks)'
    BY <1>1, CallChildrenType DEF HeapWidens
  <2> QED
    BY <1>1, <2>1, Frame, TypeParts DEF joins
<1>2. CASE /\ flow.kind[n] \in {"operation", "async", "reference", "router"}
           /\ jobs' = jobs \cup {Job(flow.kind[n], n, d, <<>>)}
           /\ started' = [started EXCEPT ![n] = @ + 1]
           /\ queue' = Tail(queue)
           /\ UNCHANGED <<heap, ended>>
  <2>1. HeapWidens
    BY <1>2, HeapStays
  <2>2. queue' \in Seq(Tasks)'
    BY <1>2, <2>1, Frame, TakenType
  <2>3. <<>> \in Seq(Tasks)
    OBVIOUS
  <2>4. Job(flow.kind[n], n, d, <<>>) \in Jobs
    BY <1>2, <2>3 DEF Job, Jobs
  <2>5. jobs' \subseteq Jobs'
    BY <1>2, <2>1, <2>4, Frame DEF TypeOK
  <2>6. StartedType'
    BY <1>2 DEF TypeOK, StartedType
  <2> QED
    BY <1>2, <2>1, <2>2, <2>5, <2>6, Frame, TypeParts DEF joins
<1>3. CASE /\ flow.kind[n] = "end"
           /\ Finish("ok", "completed", heap[d.at])
           /\ queue' = Tail(queue)
           /\ UNCHANGED <<jobs, heap, started>>
  <2>1. HeapWidens
    BY <1>3, HeapStays
  <2>2. queue' \in Seq(Tasks)'
    BY <1>3, <2>1, Frame, TakenType
  <2>3. heap[d.at] \in SUBSET flow.nodes
    BY DEF TypeOK, Refs
  <2>4. "ok" \in {"ok", "halted", "error"} /\ "completed" \in Counters
    BY DEF Counters
  <2>5. EndedTypes'
    BY <1>3, <2>3, <2>4, FinishType
  <2> QED
    BY <1>3, <2>1, <2>2, <2>5, Frame, TypeParts DEF joins
<1> QED
  BY <1>1, <1>2, <1>3 DEF Act

\* what a join that runs leaves, arrivals is not empty
LEMMA MergeType ==
    ASSUME TypeOK, flow' = flow, NEW n \in flow.nodes, NEW data \in Seq(Refs), data # << >>,
           NEW rest \in Seq(Tasks), Merge(n, data, rest)
    PROVE  HeapWidens /\ queue' \in Seq(Tasks)'
<1>1. heap \in Seq(SUBSET flow.nodes)
  BY DEF TypeOK
<1>2. \A i \in DOMAIN data : data[i] \in Refs
  BY SeqElement
<1>3. data[1] \in Refs
  OBVIOUS
<1>4. \A i \in DOMAIN data : heap[data[i].at] \in SUBSET flow.nodes
  BY <1>1, <1>2 DEF Refs
<1>5. HeapWidens
  <2> DEFINE all == UNION { heap[data[i].at] : i \in DOMAIN data }
  <2>1. all \in SUBSET flow.nodes
    BY <1>4
  <2>2. heap' = [heap EXCEPT ![data[1].at] = all]
    BY DEF Merge
  <2> HIDE DEF all
  <2> QED
    <3>1. data[1].at \in 1 .. Len(heap)
      BY <1>3 DEF Refs
    <3>2. heap' \in Seq(SUBSET flow.nodes) /\ Len(heap') = Len(heap)
      <4> HIDE DEF HeapWidens
      <4>1. \A i \in 1 .. Len(heap), e \in SUBSET flow.nodes :
               [heap EXCEPT ![i] = e] \in Seq(SUBSET flow.nodes) /\
               Len([heap EXCEPT ![i] = e]) = Len(heap)
        BY <1>1, SeqExcept
      <4> QED
        BY <2>1, <2>2, <3>1, <4>1
    <3> QED
      BY <1>1, <3>2 DEF HeapWidens
<1>6. Task("run", n, Ref(data[1].at, UNION { data[i].meant : i \in DOMAIN data })) \in Tasks
  <2>1. UNION { data[i].meant : i \in DOMAIN data } \in SUBSET flow.nodes
    BY <1>2 DEF Refs
  <2> QED
    BY <1>3, <2>1 DEF Task, Tasks, ActionTasks, Ref, Refs
<1>7. queue' \in Seq(Tasks)
  BY <1>6, SeqAppend DEF Merge
<1> QED
  BY <1>5, <1>7, Frame

LEMMA DecrementType ==
    ASSUME TypeOK, flow' = flow, NEW n \in flow.nodes, NEW data, Decrement(n, data)
    PROVE  JoinTypes'
<1>1. remaining' \in [flow.nodes -> Int]
  BY DEF TypeOK, Decrement
<1>2. lifecycle' \in [flow.nodes -> {"WAITING", "ACTIVE", "INACTIVE"}]
  BY DEF TypeOK, Decrement
<1> QED
  BY <1>1, <1>2 DEF JoinTypes

LEMMA ArriveType ==
    ASSUME TypeOK, Arrive
    PROVE  TypeOK'
<1>0. queue # <<>> /\ Head(queue).what \in ActionTasks /\ flow' = flow
  BY DEF Arrive, Taking, ActionTasks
<1>1. Here \in flow.nodes /\ Given \in Refs /\ Tail(queue) \in Seq(Tasks)
  BY <1>0, TakenType
<1> DEFINE data == Append(arrived[Here], Given)
<1>2. /\ arrived' = [arrived EXCEPT ![Here] = data]
      /\ Decrement(Here, data)
      /\ IF lifecycle'[Here] = "ACTIVE"
         THEN Merge(Here, data, Tail(queue))
         ELSE queue' = Tail(queue) /\ UNCHANGED heap
      /\ UNCHANGED <<flow, calls, jobs, ended, started>>
  BY DEF Arrive
<1>3. data \in Seq(Refs) /\ data # <<>>
  <2>1. arrived[Here] \in Seq(Refs)
    BY <1>1 DEF TypeOK
  <2> QED
    BY <1>1, <2>1
<1> HIDE DEF data
<1>4. HeapWidens /\ queue' \in Seq(Tasks)'
  <2>1. CASE lifecycle'[Here] = "ACTIVE"
    BY <1>0, <1>1, <1>2, <1>3, <2>1, MergeType
  <2>2. CASE lifecycle'[Here] # "ACTIVE"
    BY <1>0, <1>1, <1>2, <2>2, HeapStays, Frame
  <2> QED
    BY <2>1, <2>2
<1>5. ArrivedType'
  <2>1. arrived \in [flow.nodes -> Seq(Refs)]
    BY DEF TypeOK
  <2>2. arrived' \in [flow.nodes -> Seq(Refs)]
    BY <1>1, <1>2, <1>3, <2>1
  <2>3. Seq(Refs) \subseteq Seq(Refs)'
    BY <1>0, <1>4, Frame, SeqMonotone
  <2> QED
    BY <1>0, <2>2, <2>3 DEF ArrivedType
<1>6. JoinTypes'
  BY <1>0, <1>1, <1>2, DecrementType
<1> QED
  BY <1>0, <1>2, <1>4, <1>5, <1>6, Frame, TypeParts

LEMMA HaltJoinType ==
    ASSUME TypeOK, JoinInv, HaltJoin
    PROVE  TypeOK'
<1> DEFINE n == Head(calls).node
<1>1. calls \in Seq(Calls) /\ calls # <<>> /\ flow' = flow /\ queue \in Seq(Tasks)
  BY DEF TypeOK, HaltJoin, Calling
<1>2. n \in flow.nodes /\ Tail(calls) \in Seq(Calls)
  <2>1. Head(calls) \in Calls /\ Tail(calls) \in Seq(Calls)
    BY <1>1, SeqTail
  <2> QED
    BY <2>1 DEF Calls
<1>3. /\ Stateful(n)
      /\ Decrement(n, arrived[n])
      /\ IF lifecycle'[n] = "ACTIVE"
         THEN Merge(n, arrived[n], queue)
         ELSE UNCHANGED <<queue, heap>>
      /\ calls' = IF lifecycle'[n] = "INACTIVE"
                  THEN HaltHandlers(n) \o Tail(calls) ELSE Tail(calls)
      /\ UNCHANGED <<flow, jobs, arrived, ended, started>>
  BY DEF HaltJoin
<1> HIDE DEF n
<1>4. arrived[n] \in Seq(Refs)
  BY <1>2 DEF TypeOK
<1>5. lifecycle'[n] = "ACTIVE" => arrived[n] # <<>>
  BY <1>2, <1>3 DEF Decrement, JoinInv, TypeOK
<1>6. HeapWidens /\ queue' \in Seq(Tasks)'
  <2>1. CASE lifecycle'[n] = "ACTIVE"
    BY <1>1, <1>2, <1>3, <1>4, <1>5, <2>1, MergeType
  <2>2. CASE lifecycle'[n] # "ACTIVE"
    BY <1>1, <1>3, <2>2, HeapStays, Frame
  <2> QED
    BY <2>1, <2>2
<1>7. calls' \in Seq(Calls)
  <2>1. HaltHandlers(n) \in Seq(Calls)
    BY <1>2, HandlersType DEF TypeOK
  <2> QED
    BY <1>2, <1>3, <2>1, SeqConcat
<1>8. JoinTypes'
  BY <1>1, <1>2, <1>3, DecrementType
<1> QED
  BY <1>1, <1>3, <1>6, <1>7, <1>8, Frame, TypeParts

LEMMA PoolJobType ==
    ASSUME TypeOK, NEW j \in jobs
    PROVE  /\ j.node \in flow.nodes /\ j.data \in Refs /\ j.todo \in Seq(Tasks)
           /\ heap[j.data.at] \in SUBSET flow.nodes
           /\ j.data.at \in 1 .. Len(heap) /\ j.data.meant \in SUBSET flow.nodes
BY DEF TypeOK, Jobs, Refs

LEMMA CompleteType ==
    ASSUME TypeOK, NEW j \in jobs, Complete(j)
    PROVE  TypeOK'
<1>1. HeapWidens
  <2>1. CASE heap' = [heap EXCEPT ![j.data.at] = @ \cup {j.node}]
    <3>1. heap \in Seq(SUBSET flow.nodes)
      BY DEF TypeOK
    <3>2. \A i \in 1 .. Len(heap), e \in SUBSET flow.nodes :
             [heap EXCEPT ![i] = e] \in Seq(SUBSET flow.nodes) /\
             Len([heap EXCEPT ![i] = e]) = Len(heap)
      BY <3>1, SeqExcept
    <3> DEFINE changed == heap[j.data.at] \cup {j.node}
    <3>3. changed \in SUBSET flow.nodes /\ j.data.at \in 1 .. Len(heap)
      BY PoolJobType
    <3>4. heap' = [heap EXCEPT ![j.data.at] = changed]
      BY <2>1
    <3> HIDE DEF changed
    <3>5. heap' \in Seq(SUBSET flow.nodes) /\ Len(heap') = Len(heap)
      BY <3>2, <3>3, <3>4
    <3> QED
      BY <3>1, <3>5 DEF HeapWidens
  <2>2. CASE UNCHANGED heap
    BY <2>2, HeapStays
  <2> QED
    BY <2>1, <2>2 DEF Complete
<1>2. flow' = flow
  BY DEF Complete
<1>3. Task("next", j.node, Ref(j.data.at, j.data.meant \cup {j.node})) \in Tasks
  BY PoolJobType DEF Task, Tasks, ActionTasks, Ref, Refs
<1>4. queue' \in Seq(Tasks)
  BY <1>3, SeqAppend DEF Complete, TypeOK
<1> QED
  BY <1>1, <1>2, <1>4, Frame, TypeParts DEF Complete, joins

\* what is left of a routing job's work is its tail
LEMMA RoutingType ==
    ASSUME TypeOK, NEW j \in jobs, flow' = flow, HeapWidens,
           NEW todo \in Seq(Tasks)', jobs' = (jobs \ {j}) \cup Routing(j, todo)
    PROVE  jobs' \subseteq Jobs'
<1>1. Routing(j, todo) \subseteq Jobs'
  <2>1. j.data \in Refs' /\ j.node \in flow.nodes
    BY PoolJobType, Frame
  <2> QED
    BY <2>1 DEF Routing, Job, Jobs
<1>2. jobs \subseteq Jobs'
  BY Frame DEF TypeOK
<1> QED
  BY <1>1, <1>2

LEMMA RouteType ==
    ASSUME TypeOK, NEW j \in jobs, Route(j)
    PROVE  TypeOK'
<1> DEFINE children == flow.children[j.node]
<1>1. PICK routed \in SUBSET Keys(j.node) :
         LET copy == Cardinality(routed) > 1
             Tell(i) ==
                 IF children[i].key \in routed
                 THEN Task("enter", children[i].node, IF copy THEN Copy(j.data, i) ELSE j.data)
                 ELSE Task("halted", children[i].node, NoData)
         IN  /\ jobs' = (jobs \ {j}) \cup
                        Routing(j, [i \in DOMAIN children |-> Tell(i)])
             /\ heap' = IF copy THEN Copied(j.data, children) ELSE heap
  BY DEF Route
<1> DEFINE copy == Cardinality(routed) > 1
           Tell(i) == IF children[i].key \in routed
                      THEN Task("enter", children[i].node, IF copy THEN Copy(j.data, i) ELSE j.data)
                      ELSE Task("halted", children[i].node, NoData)
           todo == [i \in DOMAIN children |-> Tell(i)]
<1>2. flow' = flow /\ UNCHANGED <<queue, calls, joins, ended, started>>
  BY DEF Route
<1>3. j.node \in flow.nodes /\ j.data \in Refs /\ heap \in Seq(SUBSET flow.nodes)
  BY PoolJobType DEF TypeOK
<1>4. children \in Seq([node : flow.nodes, key : Nat])
  BY <1>3 DEF TypeOK, FlowType
<1>5. HeapWidens
  <2>1. CASE copy
    BY <1>1, <1>3, <1>4, <2>1, CopiesType DEF HeapWidens
  <2>2. CASE ~copy
    BY <1>1, <2>2, HeapStays
  <2> QED
    BY <2>1, <2>2
<1>6. Refs \subseteq Refs'
  BY <1>2, <1>5, Frame
<1>7. \A i \in DOMAIN children : (IF copy THEN Copy(j.data, i) ELSE j.data) \in Refs'
  <2>1. CASE copy
    BY <1>1, <1>2, <1>3, <2>1, CopiesType DEF Copy, Ref, Refs
  <2>2. CASE ~copy
    BY <1>3, <1>6, <2>2
  <2> QED
    BY <2>1, <2>2
<1>8. todo \in Seq(Tasks)'
  <2>1. \A i \in DOMAIN children : children[i].node \in flow.nodes
    <3> HIDE DEF children
    <3>1. \A i \in DOMAIN children : children[i] \in [node : flow.nodes, key : Nat]
      BY <1>4, SeqElement
    <3> QED
      BY <3>1
  <2>2. \A i \in DOMAIN children : Tell(i) \in Tasks'
    BY <1>2, <1>7, <2>1 DEF Task, Tasks, ActionTasks, OtherTasks, NoData
  <2>3. todo = [i \in DOMAIN children |-> todo[i]] /\ \A i \in DOMAIN children : todo[i] = Tell(i)
    OBVIOUS
  <2> HIDE DEF todo, children, Tell
  <2> QED
    BY <1>4, <2>2, <2>3, SeqOfFunction
<1>9. jobs' = (jobs \ {j}) \cup Routing(j, todo)
  BY <1>1
<1>10. jobs' \subseteq Jobs'
  <2> HIDE DEF todo
  <2> QED
    BY <1>2, <1>5, <1>8, <1>9, RoutingType
<1> QED
  BY <1>2, <1>5, <1>10, Frame, TypeParts DEF joins

\* a task that is appended by an action that leaves the heap alone
LEMMA AppendType ==
    ASSUME TypeOK, flow' = flow, HeapWidens, NEW t \in Tasks,
           queue' = Append(queue, t)
    PROVE  queue' \in Seq(Tasks)'
<1>1. queue' \in Seq(Tasks)
  BY SeqAppend DEF TypeOK
<1> QED
  BY <1>1, Frame

LEMMA HaltedTasks ==
    ASSUME NEW n \in flow.nodes, NEW what \in OtherTasks
    PROVE  Task(what, n, NoData) \in Tasks
BY DEF Task, Tasks, OtherTasks

LEMMA StepType ==
    ASSUME TypeOK, JoinInv, [Next]_vars
    PROVE  TypeOK'
<1>1. CASE Enter
  <2>1. queue # <<>> /\ Head(queue).what \in ActionTasks /\ flow' = flow /\ HeapWidens
    BY <1>1, HeapStays DEF Enter, Taking, ActionTasks
  <2>2. Here \in flow.nodes /\ Given \in Refs /\ Tail(queue) \in Seq(Tasks)
    BY <2>1, TakenType
  <2>3. Task("main", Here, Given) \in Tasks
    BY <2>2 DEF Task, Tasks, ActionTasks
  <2>4. queue' \in Seq(Tasks)'
    BY <1>1, <2>1, <2>2, <2>3, SeqAppend, Frame DEF Enter
  <2> QED
    BY <1>1, <2>1, <2>4, Frame, TypeParts DEF Enter, joins
<1>2. CASE Main \/ Run
  <2>1. queue # <<>> /\ Head(queue).what \in ActionTasks /\ flow' = flow
    BY <1>2 DEF Main, Run, Taking, ActionTasks
  <2>2. Act(Here, Given) /\ UNCHANGED <<calls, joins>>
    BY <1>2 DEF Main, Run
  <2> QED
    BY <2>1, <2>2, TakenType, ActType
<1>3. CASE Arrive
  BY <1>3, ArriveType
<1>4. CASE After
  <2>1. queue # <<>> /\ Head(queue).what \in ActionTasks /\ flow' = flow
    BY <1>4 DEF After, Taking, ActionTasks
  <2>2. HeapWidens /\ queue' \in Seq(Tasks)'
    BY <1>4, <2>1, TakenType, CallChildrenType DEF After, HeapWidens
  <2> QED
    BY <1>4, <2>1, <2>2, Frame, TypeParts DEF After, joins
<1>5. CASE StartCascade
  <2>1. queue # <<>> /\ flow' = flow /\ HeapWidens /\ queue' = Tail(queue)
    BY <1>5, HeapStays DEF StartCascade
  <2>2. Here \in flow.nodes /\ queue' \in Seq(Tasks)'
    BY <2>1, TakenType, Frame
  <2>3. <<Call("halted", Here)>> \in Seq(Calls)
    BY <2>2 DEF Call, Calls
  <2>4. calls' \in Seq(Calls)
    BY <1>5, <2>2, <2>3, HandlersType DEF StartCascade, TypeOK
  <2> QED
    BY <1>5, <2>1, <2>2, <2>4, Frame, TypeParts DEF StartCascade, joins
<1>6. CASE HaltPlain \/ ErrorNode
  <2>1. calls \in Seq(Calls) /\ calls # <<>> /\ flow' = flow /\ HeapWidens
    BY <1>6, HeapStays DEF HaltPlain, ErrorNode, Calling, TypeOK
  <2>2. Head(calls) \in Calls /\ Tail(calls) \in Seq(Calls)
    BY <2>1, SeqTail
  <2>3. Head(calls).node \in flow.nodes
    BY <2>2 DEF Calls
  <2>4. /\ HaltHandlers(Head(calls).node) \o Tail(calls) \in Seq(Calls)
        /\ ErrorHandlers(Head(calls).node) \o Tail(calls) \in Seq(Calls)
    BY <2>2, <2>3, HandlersType, SeqConcat DEF TypeOK
  <2>5. calls' \in Seq(Calls)
    BY <1>6, <2>4 DEF HaltPlain, ErrorNode
  <2> QED
    BY <1>6, <2>1, <2>5, Frame, TypeParts DEF HaltPlain, ErrorNode, joins
<1>7. CASE HaltJoin
  BY <1>7, HaltJoinType
<1>8. CASE ContextCall
  <2>1. calls \in Seq(Calls) /\ calls # <<>> /\ flow' = flow /\ HeapWidens
    BY <1>8, HeapStays DEF ContextCall, Calling, TypeOK
  <2>2. calls' \in Seq(Calls)
    BY <1>8, <2>1, SeqTail DEF ContextCall
  <2>3. EndedTypes'
    <3>1. "halts" \in Counters /\ "errors" \in Counters /\ {} \in SUBSET flow.nodes
      BY DEF Counters
    <3>2. "halted" \in {"ok", "halted", "error"} /\ "error" \in {"ok", "halted", "error"}
      OBVIOUS
    <3>3. Finish("halted", "halts", {}) \/ Finish("error", "errors", {})
      BY <1>8 DEF ContextCall
    <3> QED
      BY <2>1, <3>1, <3>2, <3>3, FinishType
  <2> QED
    BY <1>8, <2>1, <2>2, <2>3, Frame, TypeParts DEF ContextCall, joins
<1>9. ASSUME NEW j \in jobs, Complete(j)
      PROVE  TypeOK'
  BY <1>9, CompleteType
<1>10. ASSUME NEW j \in jobs, ReferenceHalts(j) \/ PoolFault(j)
       PROVE  TypeOK'
  <2>1. flow' = flow /\ HeapWidens /\ jobs' \subseteq jobs
    BY <1>10, HeapStays DEF ReferenceHalts, PoolFault
  <2>2. /\ Task("halt handlers", j.node, NoData) \in Tasks
        /\ Task("error", j.node, NoData) \in Tasks
    BY PoolJobType, HaltedTasks DEF OtherTasks
  <2>3. \/ queue' = Append(queue, Task("halt handlers", j.node, NoData))
        \/ queue' = Append(queue, Task("error", j.node, NoData))
        \/ UNCHANGED queue
    BY <1>10 DEF ReferenceHalts, PoolFault
  <2>4. queue' \in Seq(Tasks)'
    BY <2>1, <2>2, <2>3, AppendType, Frame
  <2> QED
    BY <1>10, <2>1, <2>4, Frame, TypeParts DEF ReferenceHalts, PoolFault, joins
<1>11. ASSUME NEW j \in jobs, Route(j)
       PROVE  TypeOK'
  BY <1>11, RouteType
<1>12. ASSUME NEW j \in jobs, RoutePosts(j)
       PROVE  TypeOK'
  <2>1. flow' = flow /\ HeapWidens
    BY <1>12, HeapStays DEF RoutePosts
  <2>2. Head(j.todo) \in Tasks /\ Tail(j.todo) \in Seq(Tasks)
    BY <1>12, PoolJobType, SeqTail DEF RoutePosts
  <2>3. queue' \in Seq(Tasks)' /\ Tail(j.todo) \in Seq(Tasks)'
    BY <1>12, <2>1, <2>2, AppendType, Frame DEF RoutePosts
  <2>4. jobs' \subseteq Jobs'
    BY <1>12, <2>1, <2>3, RoutingType DEF RoutePosts
  <2> QED
    BY <1>12, <2>1, <2>3, <2>4, Frame, TypeParts DEF RoutePosts, joins
<1>13. CASE UNCHANGED vars
  <2>1. HeapWidens /\ flow' = flow
    BY <1>13, HeapStays DEF vars
  <2> QED
    BY <1>13, <2>1, Frame, TypeParts DEF vars, joins
<1> QED
  BY <1>1, <1>2, <1>3, <1>4, <1>5, <1>6, <1>7, <1>8, <1>9, <1>10, <1>11, <1>12, <1>13
  DEF Next, Coordinator, Pool

-----------------------------------------------------------------------------
(* The other parts of the invariant.                                         *)

LEMMA InitInv == ASSUME Init PROVE IInv
<1>1. FlowType(flow)
  BY FlowsAssumption DEF Init
<1>2. heap \in Seq(SUBSET flow.nodes) /\ Len(heap) = 1 /\ heap[1] = {} /\ DOMAIN heap = 1 .. 1
  <2>1. heap = << {} >>
    BY DEF Init
  <2>2. {} \in SUBSET flow.nodes
    OBVIOUS
  <2> QED
    BY <2>1, <2>2, SeqOfOne
<1>3. Ref(1, {}) \in Refs
  BY <1>2 DEF Ref, Refs
<1>4. Task("enter", flow.head, Ref(1, {})) \in Tasks
  BY <1>1, <1>3 DEF Task, Tasks, ActionTasks, FlowType
<1>5. queue \in Seq(Tasks)
  BY <1>4 DEF Init
<1>6. stats \in [Counters -> Nat]
  BY DEF Init
<1>7. remaining \in [flow.nodes -> Int] /\ started \in [flow.nodes -> Nat]
  BY <1>1 DEF Init, FlowType
<1>8. TypeOK
  <2>1. calls \in Seq(Calls) /\ jobs \subseteq Jobs
    BY DEF Init
  <2>2. arrived \in [flow.nodes -> Seq(Refs)]
    BY DEF Init
  <2>3. lifecycle \in [flow.nodes -> {"WAITING", "ACTIVE", "INACTIVE"}] /\ done \in BOOLEAN
    BY DEF Init
  <2>4. outcomes \in Seq([kind : {"ok", "halted", "error"}, data : SUBSET flow.nodes])
    BY DEF Init
  <2> QED
    BY <1>1, <1>2, <1>5, <1>6, <1>7, <2>1, <2>2, <2>3, <2>4 DEF TypeOK
<1>9. JoinInv
  BY <1>1 DEF Init, JoinInv, Stateful, FlowType
<1>10. JobsInv /\ ChangesWereMade
  BY <1>2 DEF Init, JobsInv, ChangesWereMade
<1> QED
  BY <1>8, <1>9, <1>10 DEF Init, IInv

\* Only Decrement changes a join, and it decides when the last input is in.
LEMMA DecrementJoins ==
    ASSUME TypeOK, JoinInv, flow' = flow, NEW n \in flow.nodes, Stateful(n), NEW data,
           Decrement(n, data),
           arrived' = [arrived EXCEPT ![n] = data], data # <<>> \/ data = arrived[n]
    PROVE  /\ JoinInv'
           /\ \A m \in flow.nodes :
                 /\ lifecycle[m] # "WAITING" => lifecycle'[m] = lifecycle[m]
                 /\ lifecycle[m] = "WAITING" /\ lifecycle'[m] = "ACTIVE" =>
                       remaining'[m] = 0 /\ arrived'[m] # <<>>
                 /\ lifecycle[m] = "WAITING" /\ lifecycle'[m] = "INACTIVE" =>
                       remaining'[m] = 0 /\ arrived'[m] = <<>>
<1>1. /\ remaining \in [flow.nodes -> Int]
      /\ lifecycle \in [flow.nodes -> {"WAITING", "ACTIVE", "INACTIVE"}]
      /\ DOMAIN arrived = flow.nodes
  BY DEF TypeOK
<1>2. /\ remaining' = [remaining EXCEPT ![n] = @ - 1]
      /\ lifecycle' = IF remaining[n] = 1
                      THEN [lifecycle EXCEPT ![n] = IF data # <<>> THEN "ACTIVE" ELSE "INACTIVE"]
                      ELSE lifecycle
  BY DEF Decrement
<1>3. /\ remaining'[n] = remaining[n] - 1
      /\ lifecycle'[n] = IF remaining[n] = 1
                         THEN IF data # <<>> THEN "ACTIVE" ELSE "INACTIVE" ELSE lifecycle[n]
      /\ arrived'[n] = data
  BY <1>1, <1>2
<1>4. \A m \in flow.nodes \ {n} :
         remaining'[m] = remaining[m] /\ lifecycle'[m] = lifecycle[m] /\ arrived'[m] = arrived[m]
  BY <1>1, <1>2
<1>5. /\ lifecycle[n] = "WAITING" <=> remaining[n] > 0
      /\ lifecycle[n] = "ACTIVE" => arrived[n] # <<>>
      /\ remaining[n] \in Int /\ lifecycle[n] \in {"WAITING", "ACTIVE", "INACTIVE"}
  BY <1>1 DEF JoinInv
<1>6. /\ lifecycle'[n] = "WAITING" <=> remaining'[n] > 0
      /\ lifecycle'[n] = "ACTIVE" => arrived'[n] # <<>>
  BY <1>3, <1>5
<1>7. JoinInv'
  BY <1>4, <1>6 DEF JoinInv, Stateful
<1>8. /\ lifecycle[n] # "WAITING" => lifecycle'[n] = lifecycle[n]
      /\ lifecycle[n] = "WAITING" /\ lifecycle'[n] = "ACTIVE" =>
            remaining'[n] = 0 /\ arrived'[n] # <<>>
      /\ lifecycle[n] = "WAITING" /\ lifecycle'[n] = "INACTIVE" =>
            remaining'[n] = 0 /\ arrived'[n] = <<>>
  BY <1>3, <1>5
<1> QED
  BY <1>4, <1>7, <1>8

DecidesOnce ==
    \A m \in flow.nodes :
        /\ lifecycle[m] # "WAITING" => lifecycle'[m] = lifecycle[m]
        /\ lifecycle[m] = "WAITING" /\ lifecycle'[m] = "ACTIVE" =>
              remaining'[m] = 0 /\ arrived'[m] # <<>>
        /\ lifecycle[m] = "WAITING" /\ lifecycle'[m] = "INACTIVE" =>
              remaining'[m] = 0 /\ arrived'[m] = <<>>

LEMMA StepJoins ==
    ASSUME TypeOK, JoinInv, [Next]_vars
    PROVE  JoinInv' /\ DecidesOnce
<1>1. CASE Arrive
  <2>1. queue # <<>> /\ Head(queue).what \in ActionTasks /\ flow' = flow
    BY <1>1 DEF Arrive, Taking, ActionTasks
  <2>2. Here \in flow.nodes /\ Given \in Refs
    BY <2>1, TakenType
  <2>3. arrived[Here] \in Seq(Refs)
    BY <2>2 DEF TypeOK
  <2> DEFINE data == Append(arrived[Here], Given)
  <2>4. data # <<>>
    BY <2>2, <2>3
  <2>5. Stateful(Here) /\ arrived' = [arrived EXCEPT ![Here] = data] /\ Decrement(Here, data)
    BY <1>1 DEF Arrive
  <2> HIDE DEF data
  <2> QED
    BY <2>1, <2>2, <2>4, <2>5, DecrementJoins DEF DecidesOnce
<1>2. CASE HaltJoin
  <2> DEFINE n == Head(calls).node
  <2>1. /\ flow' = flow /\ Stateful(n) /\ Decrement(n, arrived[n]) /\ UNCHANGED arrived
        /\ calls # <<>> /\ calls \in Seq(Calls)
    BY <1>2 DEF HaltJoin, Calling, TypeOK
  <2>2. Head(calls) \in Calls
    BY <2>1, SeqTail
  <2>3. n \in flow.nodes
    BY <2>2 DEF Calls
  <2> HIDE DEF n
  <2>4. arrived' = [arrived EXCEPT ![n] = arrived[n]]
    BY <2>1, <2>3 DEF TypeOK
  <2> QED
    BY <2>1, <2>3, <2>4, DecrementJoins DEF DecidesOnce
<1>3. ASSUME UNCHANGED <<flow, joins>>
      PROVE  JoinInv' /\ DecidesOnce
  <2>1. /\ flow' = flow /\ arrived' = arrived /\ remaining' = remaining
        /\ lifecycle' = lifecycle
    BY <1>3 DEF joins
  <2> QED
    BY <2>1 DEF JoinInv, Stateful, DecidesOnce
<1>4. Arrive \/ HaltJoin \/ UNCHANGED <<flow, joins>>
  BY DEF Next, Coordinator, Pool, vars, Enter, Main, Run, After, StartCascade, HaltPlain,
         ErrorNode, ContextCall, Complete, ReferenceHalts, Route, RoutePosts, PoolFault
<1> QED
  BY <1>1, <1>2, <1>3, <1>4

-----------------------------------------------------------------------------
(* Changes.  What was executed stays so, and data only pass on or are        *)
(* changed by a job, whose operation was started.                            *)

HeapWithin(E) == \A i \in DOMAIN heap : heap[i] \subseteq E

LEMMA CopiedWithin ==
    ASSUME TypeOK, NEW n \in flow.nodes, NEW d \in Refs, NEW E, HeapWithin(E)
    PROVE  LET copied == Copied(d, flow.children[n])
           IN  \A i \in DOMAIN copied : copied[i] \subseteq E
<1> DEFINE children == flow.children[n]
           copies == [i \in DOMAIN children |-> heap[d.at]]
<1>1. children \in Seq([node : flow.nodes, key : Nat])
  BY DEF TypeOK, FlowType
<1>2. heap \in Seq(SUBSET flow.nodes) /\ d.at \in DOMAIN heap
  BY DEF TypeOK, Refs
<1>3. heap[d.at] \in SUBSET E
  BY <1>2 DEF HeapWithin
<1>4. copies \in Seq(SUBSET E)
  <2>1. copies = [i \in DOMAIN children |-> copies[i]]
    OBVIOUS
  <2>2. \A i \in DOMAIN children : copies[i] \in SUBSET E
    BY <1>3
  <2> HIDE DEF copies, children
  <2> QED
    BY <1>1, <2>1, <2>2, SeqOfFunction
<1>5. heap \in Seq(SUBSET E)
  BY <1>2 DEF HeapWithin
<1>6. heap \o copies \in Seq(SUBSET E)
  <2> HIDE DEF copies
  <2> QED
    BY <1>4, <1>5, SeqConcat
<1>7. Copied(d, children) \in Seq(SUBSET E)
  BY <1>6 DEF Copied
<1> HIDE DEF children
<1>8. \A i \in DOMAIN Copied(d, children) : Copied(d, children)[i] \in SUBSET E
  BY <1>7, SeqElement
<1> QED
  BY <1>8 DEF children

LEMMA MergeWithin ==
    ASSUME TypeOK, NEW n \in flow.nodes, NEW data \in Seq(Refs), data # << >>,
           NEW rest, Merge(n, data, rest), NEW E, HeapWithin(E)
    PROVE  \A i \in DOMAIN heap' : heap'[i] \subseteq E
<1>1. \A i \in DOMAIN data : data[i] \in Refs
  BY SeqElement
<1>2. \A i \in DOMAIN data : heap[data[i].at] \subseteq E
  BY <1>1 DEF Refs, HeapWithin, TypeOK
<1> DEFINE all == UNION { heap[data[i].at] : i \in DOMAIN data }
<1>3. all \subseteq E
  BY <1>2
<1>4. heap' = [heap EXCEPT ![data[1].at] = all]
  BY DEF Merge
<1> HIDE DEF all
<1> QED
  BY <1>3, <1>4 DEF HeapWithin

\* the next heap holds changes of operations in E if this one does
LEMMA StepWithin ==
    ASSUME TypeOK, JoinInv, JobsInv, [Next]_vars, NEW E, HeapWithin(E), Executed \subseteq E
    PROVE  \A i \in DOMAIN heap' : heap'[i] \subseteq E
<1>1. CASE UNCHANGED heap
  BY <1>1 DEF HeapWithin
<1>2. ASSUME NEW n \in flow.nodes, NEW d \in Refs, CallChildren(n, d)
      PROVE  \A i \in DOMAIN heap' : heap'[i] \subseteq E
  BY <1>2, CopiedWithin DEF CallChildren, HeapWithin
<1>3. CASE Main \/ Run \/ After
  <2>1. Here \in flow.nodes /\ Given \in Refs
    BY <1>3, TakenType DEF Main, Run, After, Taking, ActionTasks
  <2>2. CallChildren(Here, Given) \/ UNCHANGED heap
    BY <1>3 DEF Main, Run, After, Act
  <2> QED
    BY <1>1, <1>2, <2>1, <2>2
<1>4. CASE Arrive
  <2>1. Here \in flow.nodes /\ Given \in Refs
    BY <1>4, TakenType DEF Arrive, Taking, ActionTasks
  <2>2. arrived[Here] \in Seq(Refs)
    BY <2>1 DEF TypeOK
  <2> DEFINE data == Append(arrived[Here], Given)
  <2>3. data \in Seq(Refs) /\ data # <<>>
    BY <2>1, <2>2
  <2>4. Merge(Here, data, Tail(queue)) \/ UNCHANGED heap
    BY <1>4 DEF Arrive
  <2> HIDE DEF data
  <2> QED
    BY <1>1, <2>1, <2>3, <2>4, MergeWithin
<1>5. CASE HaltJoin
  <2> DEFINE n == Head(calls).node
  <2>1. /\ Stateful(n) /\ Decrement(n, arrived[n]) /\ calls # <<>> /\ calls \in Seq(Calls)
        /\ IF lifecycle'[n] = "ACTIVE" THEN Merge(n, arrived[n], queue)
                                        ELSE UNCHANGED <<queue, heap>>
    BY <1>5 DEF HaltJoin, Calling, TypeOK
  <2>2. Head(calls) \in Calls
    BY <2>1, SeqTail
  <2>3. n \in flow.nodes
    BY <2>2 DEF Calls
  <2> HIDE DEF n
  <2>4. arrived[n] \in Seq(Refs)
    BY <2>3 DEF TypeOK
  <2>5. lifecycle'[n] = "ACTIVE" => arrived[n] # <<>>
    BY <2>1, <2>3 DEF Decrement, JoinInv, TypeOK
  <2> QED
    BY <1>1, <2>1, <2>3, <2>4, <2>5, MergeWithin
<1>6. ASSUME NEW j \in jobs, Complete(j)
      PROVE  \A i \in DOMAIN heap' : heap'[i] \subseteq E
  <2>1. j.node \in Executed
    BY PoolJobType DEF JobsInv, Executed
  <2>2. heap' = [heap EXCEPT ![j.data.at] = @ \cup {j.node}] \/ UNCHANGED heap
    BY <1>6 DEF Complete
  <2> QED
    BY <2>1, <2>2 DEF HeapWithin
<1>7. ASSUME NEW j \in jobs, Route(j)
      PROVE  \A i \in DOMAIN heap' : heap'[i] \subseteq E
  <2>1. heap' = Copied(j.data, flow.children[j.node]) \/ UNCHANGED heap
    BY <1>7 DEF Route
  <2> QED
    BY <1>1, <2>1, PoolJobType, CopiedWithin
<1>8. \/ UNCHANGED heap \/ Main \/ Run \/ After \/ Arrive \/ HaltJoin
      \/ \E j \in jobs : Complete(j) \/ Route(j)
  BY DEF Next, Coordinator, Pool, vars, Enter, StartCascade, HaltPlain,
         ErrorNode, ContextCall, ReferenceHalts, RoutePosts, PoolFault
<1> QED
  BY <1>1, <1>3, <1>4, <1>5, <1>6, <1>7, <1>8

\* what was started stays started, what a step hands to the pool it starts
LEMMA StepJobs ==
    ASSUME TypeOK, JobsInv, [Next]_vars
    PROVE  /\ JobsInv' /\ flow' = flow
           /\ Executed \subseteq Executed'
<1>1. /\ flow' = flow
      /\ \/ UNCHANGED started /\ \A k \in jobs' : \E j \in jobs : k.node = j.node
         \/ \E n \in flow.nodes, d \in Refs :
               /\ jobs' = jobs \cup {Job(flow.kind[n], n, d, <<>>)}
               /\ started' = [started EXCEPT ![n] = @ + 1]
  <2>1. CASE Main \/ Run
    <3>1. Here \in flow.nodes /\ Given \in Refs /\ flow' = flow
      BY <2>1, TakenType DEF Main, Run, Taking, ActionTasks
    <3>2. Act(Here, Given)
      BY <2>1 DEF Main, Run
    <3> QED
      BY <3>1, <3>2 DEF Act
  <2>2. ASSUME NEW j \in jobs, Route(j) \/ RoutePosts(j)
        PROVE  /\ flow' = flow /\ UNCHANGED started
               /\ \A k \in jobs' : \E i \in jobs : k.node = i.node
    <3>1. flow' = flow /\ UNCHANGED started
      BY <2>2 DEF Route, RoutePosts
    <3>2. PICK todo : jobs' = (jobs \ {j}) \cup Routing(j, todo)
      BY <2>2, Zenon DEF Route, RoutePosts
    <3>3. \A k \in Routing(j, todo) : k.node = j.node
      BY DEF Routing, Job
    <3> QED
      BY <3>1, <3>2, <3>3
  <2>3. ASSUME NEW j \in jobs, Complete(j) \/ ReferenceHalts(j) \/ PoolFault(j)
        PROVE  /\ flow' = flow /\ UNCHANGED started /\ jobs' \subseteq jobs
    BY <2>3 DEF Complete, ReferenceHalts, PoolFault
  <2>4. \/ UNCHANGED <<flow, jobs, started>> \/ Main \/ Run
        \/ \E j \in jobs : \/ Complete(j) \/ ReferenceHalts(j) \/ PoolFault(j)
                            \/ Route(j) \/ RoutePosts(j)
    BY DEF Next, Coordinator, Pool, vars, Enter, Arrive, After, StartCascade, HaltPlain,
           HaltJoin, ErrorNode, ContextCall
  <2> QED
    BY <2>1, <2>2, <2>3, <2>4
<1>2. started \in [flow.nodes -> Nat] /\ \A j \in jobs : j.node \in flow.nodes
  BY PoolJobType DEF TypeOK
<1>3. CASE UNCHANGED started /\ \A k \in jobs' : \E j \in jobs : k.node = j.node
  BY <1>1, <1>3 DEF JobsInv, Executed
<1>4. ASSUME NEW n \in flow.nodes, NEW d \in Refs,
             jobs' = jobs \cup {Job(flow.kind[n], n, d, <<>>)},
             started' = [started EXCEPT ![n] = @ + 1]
      PROVE  JobsInv' /\ Executed \subseteq Executed'
  <2>1. \A m \in flow.nodes : started[m] \in Nat /\ started'[m] = IF m = n THEN started[m] + 1 ELSE started[m]
    BY <1>2, <1>4
  <2>2. Executed \subseteq Executed'
    BY <1>1, <2>1 DEF Executed
  <2>3. \A k \in jobs' : k.node = n \/ k \in jobs
    BY <1>4 DEF Job
  <2>4. \A k \in jobs' : started'[k.node] > 0
    BY <1>2, <2>1, <2>3 DEF JobsInv
  <2> QED
    BY <2>2, <2>4 DEF JobsInv
<1> QED
  BY <1>1, <1>3, <1>4

LEMMA StepChanges ==
    ASSUME TypeOK, JoinInv, JobsInv, ChangesWereMade, [Next]_vars
    PROVE  ChangesWereMade'
<1>1. Executed \subseteq Executed'
  BY StepJobs
<1>2. HeapWithin(Executed')
  BY <1>1 DEF ChangesWereMade, HeapWithin
<1>3. \A i \in DOMAIN heap' : heap'[i] \subseteq Executed'
  BY <1>1, <1>2, StepWithin
<1>4. \A i \in DOMAIN outcomes : outcomes[i].data \subseteq Executed'
  BY <1>1 DEF ChangesWereMade
<1>5. ASSUME NEW kind, NEW counter, NEW contents, contents \subseteq Executed',
             Finish(kind, counter, contents)
      PROVE  \A i \in DOMAIN outcomes' : outcomes'[i].data \subseteq Executed'
  <2> DEFINE outcome == [kind |-> kind, data |-> contents]
  <2>1. outcomes \in Seq([kind : {"ok", "halted", "error"}, data : SUBSET flow.nodes])
    BY DEF TypeOK
  <2>2. outcomes' = Append(outcomes, outcome)
    BY <1>5 DEF Finish
  <2>3. outcome.data \subseteq Executed'
    BY <1>5
  <2> HIDE DEF outcome
  <2>4. \A i \in DOMAIN outcomes' : \/ i \in DOMAIN outcomes /\ outcomes'[i] = outcomes[i]
                                    \/ outcomes'[i] = outcome
    BY <2>1, <2>2
  <2> QED
    BY <1>4, <2>3, <2>4
<1>6. ASSUME NEW n \in flow.nodes, NEW d \in Refs, Act(n, d)
      PROVE  \A i \in DOMAIN outcomes' : outcomes'[i].data \subseteq Executed'
  <2>1. heap[d.at] \subseteq Executed'
    BY <1>2 DEF HeapWithin, Refs, TypeOK
  <2>2. UNCHANGED outcomes \/ Finish("ok", "completed", heap[d.at])
    BY <1>6 DEF Act, ended
  <2> QED
    BY <1>4, <1>5, <2>1, <2>2
<1>7. ASSUME Main \/ Run
      PROVE  \A i \in DOMAIN outcomes' : outcomes'[i].data \subseteq Executed'
  <2>1. Here \in flow.nodes /\ Given \in Refs /\ Act(Here, Given)
    BY <1>7, TakenType DEF Main, Run, Taking, ActionTasks
  <2> QED
    BY <1>6, <2>1
<1>8. ASSUME ContextCall
      PROVE  \A i \in DOMAIN outcomes' : outcomes'[i].data \subseteq Executed'
  <2>1. Finish("halted", "halts", {}) \/ Finish("error", "errors", {})
    BY <1>8 DEF ContextCall
  <2> QED
    BY <1>5, <2>1
<1>9. Main \/ Run \/ ContextCall \/ UNCHANGED outcomes
  BY DEF Next, Coordinator, Pool, vars, ended, Enter, Arrive, After, StartCascade, HaltPlain,
         HaltJoin, ErrorNode, Complete, ReferenceHalts, Route, RoutePosts, PoolFault
<1>10. \A i \in DOMAIN outcomes' : outcomes'[i].data \subseteq Executed'
  BY <1>4, <1>7, <1>8, <1>9
<1> QED
  BY <1>3, <1>10 DEF ChangesWereMade

LEMMA StepInv == IInv /\ [Next]_vars => IInv'
<1> SUFFICES ASSUME IInv, [Next]_vars PROVE IInv'
  OBVIOUS
<1>1. TypeOK' /\ JoinInv' /\ JobsInv' /\ ChangesWereMade'
  BY StepType, StepJoins, StepJobs, StepChanges DEF IInv
<1>2. (flow \in Flows)'
  BY StepJobs DEF IInv
<1> QED
  BY <1>1, <1>2 DEF IInv

-----------------------------------------------------------------------------
(* The invariant holds of every run.                                         *)
THEOREM Invariance == Spec => []IInv
<1>1. Init => IInv
  BY InitInv
<1>2. IInv /\ [Next]_vars => IInv'
  BY StepInv
<1> QED
  BY <1>1, <1>2, PTL DEF Spec

(* The queue, the calls, the jobs, the joins and the data of a run have      *)
(* their types: no call goes to a node the flow does not have, no reference  *)
(* to data that is not there, and a join never merges an empty list          *)
(* (StatefulControl.run calls it.next() without asking).                     *)
THEOREM TypeCorrect == Spec => []TypeOK
<1>1. IInv => TypeOK
  BY DEF IInv
<1> QED
  BY <1>1, Invariance, PTL

(* A join decides once, on its last input, and for good.                     *)
THEOREM JoinsDecideOnce == Spec => JoinDecidesOnce
<1>1. IInv /\ [Next]_vars => [DecidesOnce]_vars
  BY StepJoins DEF IInv
<1>2. IInv /\ [Next]_vars =>
        [\A n \in flow.nodes :
          /\ lifecycle[n] # "WAITING" => lifecycle'[n] = lifecycle[n]
          /\ lifecycle[n] = "WAITING" /\ lifecycle'[n] = "ACTIVE" =>
                remaining'[n] = 0 /\ arrived'[n] # <<>>
          /\ lifecycle[n] = "WAITING" /\ lifecycle'[n] = "INACTIVE" =>
                remaining'[n] = 0 /\ arrived'[n] = <<>>]_vars
  BY <1>1 DEF DecidesOnce
<1> QED
  BY <1>2, Invariance, PTL DEF Spec, JoinDecidesOnce

(* No data and no answer holds a change of an operation that was not         *)
(* executed in this run.                                                     *)
THEOREM OnlyExecutedChanges == Spec => []ChangesWereMade
<1>1. IInv => ChangesWereMade
  BY DEF IInv
<1> QED
  BY <1>1, Invariance, PTL

-----------------------------------------------------------------------------
(* How the inputs of a node are counted.  An input that has not come yet is   *)
(* at a task, a call, a job or a join that has not decided, and each of these *)
(* stands for as many inputs of t as there are paths from it to t (Coming);   *)
(* those that came have run t or are about to (Runs).  From here on: the      *)
(* lemmas about tasks and paths, and what the handlers do to Coming and Runs. *)

-----------------------------------------------------------------------------
(* Sums over the tasks of a queue, or over the calls of a cascade, of what    *)
(* each is worth: g[what][node].                                              *)

InSeq(g, s) == Total(DOMAIN s, [i \in DOMAIN s |-> g[s[i].what][s[i].node]])

Weighs(g, S) == \A x \in S : g[x.what][x.node] \in Nat

LEMMA InSeqType ==
    ASSUME NEW S, NEW s \in Seq(S), NEW g, Weighs(g, S)
    PROVE  InSeq(g, s) \in Nat
<1> DEFINE v == [i \in DOMAIN s |-> g[s[i].what][s[i].node]]
<1>1. DOMAIN s = 1 .. Len(s) /\ Len(s) \in Nat /\ \A i \in DOMAIN s : s[i] \in S
  OBVIOUS
<1>2. \A i \in DOMAIN s : v[i] \in Nat
  BY <1>1 DEF Weighs
<1>3. IsFiniteSet(DOMAIN s)
  BY <1>1, IntervalFinite
<1> HIDE DEF v
<1>4. Total(DOMAIN s, v) \in Nat
  BY <1>2, <1>3, UnitsFinite
<1> QED
  BY <1>4 DEF InSeq, v

LEMMA InSeqWorth ==
    ASSUME NEW S, NEW s \in Seq(S), NEW g, Weighs(g, S)
    PROVE  InSeq(g, s) = Worth([e \in S |-> g[e.what][e.node]], s)
<1> DEFINE h == [e \in S |-> g[e.what][e.node]]
           v == [i \in DOMAIN s |-> g[s[i].what][s[i].node]]
           w == [i \in DOMAIN s |-> h[s[i]]]
<1>1. \A i \in DOMAIN s : v[i] = w[i]
  <2>1. \A i \in DOMAIN s : s[i] \in S
    BY SeqElement
  <2> QED
    BY <2>1
<1> HIDE DEF v, w
<1>2. Total(DOMAIN s, v) = Total(DOMAIN s, w)
  BY <1>1, TotalSame
<1> QED
  BY <1>2 DEF InSeq, Worth, v, w

LEMMA InSeqConcat ==
    ASSUME NEW S, NEW s \in Seq(S), NEW t \in Seq(S), NEW g, Weighs(g, S)
    PROVE  InSeq(g, s \o t) = InSeq(g, s) + InSeq(g, t)
<1> DEFINE h == [e \in S |-> g[e.what][e.node]]
<1>1. HasWeights(h, S)
  BY DEF Weighs, HasWeights
<1>2. s \o t \in Seq(S)
  OBVIOUS
<1>3. InSeq(g, s) = Worth(h, s) /\ InSeq(g, t) = Worth(h, t) /\ InSeq(g, s \o t) = Worth(h, s \o t)
  BY <1>2, InSeqWorth
<1> HIDE DEF h
<1>4. Worth(h, s \o t) = Worth(h, s) + Worth(h, t)
  BY <1>1, WorthConcat
<1> QED
  BY <1>3, <1>4

LEMMA InSeqOne ==
    ASSUME NEW e, NEW g, g[e.what][e.node] \in Nat
    PROVE  InSeq(g, <<e>>) = g[e.what][e.node] /\ InSeq(g, <<>>) = 0
<1> DEFINE v == [i \in {1} |-> g[e.what][e.node]]
<1>1. /\ DOMAIN <<e>> = {1} /\ DOMAIN << >> = {}
      /\ [i \in DOMAIN <<e>> |-> g[<<e>>[i].what][<<e>>[i].node]] = v
  OBVIOUS
<1>2. v[1] = g[e.what][e.node]
  OBVIOUS
<1> HIDE DEF v
<1>3. Total({1}, v) = v[1]
  BY <1>2, TotalOne
<1>4. InSeq(g, <<e>>) = Total({1}, v)
  BY <1>1 DEF InSeq
<1>5. InSeq(g, <<>>) = 0
  BY <1>1, TotalEmpty DEF InSeq
<1> QED
  BY <1>2, <1>3, <1>4, <1>5

LEMMA InSeqAppend ==
    ASSUME NEW S, NEW s \in Seq(S), NEW e, NEW g, Weighs(g, S), g[e.what][e.node] \in Nat
    PROVE  InSeq(g, Append(s, e)) = InSeq(g, s) + g[e.what][e.node]
<1> DEFINE E == S \cup {e}
<1>1. s \in Seq(E) /\ <<e>> \in Seq(E) /\ Append(s, e) = s \o <<e>>
  OBVIOUS
<1>2. Weighs(g, E)
  BY DEF Weighs
<1> HIDE DEF E
<1>3. InSeq(g, s \o <<e>>) = InSeq(g, s) + InSeq(g, <<e>>)
  BY <1>1, <1>2, InSeqConcat
<1> QED
  BY <1>1, <1>3, InSeqOne

LEMMA InSeqTail ==
    ASSUME NEW S, NEW s \in Seq(S), s # <<>>, NEW g, Weighs(g, S)
    PROVE  InSeq(g, s) = g[Head(s).what][Head(s).node] + InSeq(g, Tail(s))
<1> DEFINE e == Head(s)
<1>1. <<e>> \in Seq(S) /\ Tail(s) \in Seq(S) /\ s = <<e>> \o Tail(s) /\ e \in S
  OBVIOUS
<1> HIDE DEF e
<1>2. InSeq(g, <<e>> \o Tail(s)) = InSeq(g, <<e>>) + InSeq(g, Tail(s))
  BY <1>1, InSeqConcat
<1>3. g[e.what][e.node] \in Nat
  BY <1>1 DEF Weighs
<1>4. InSeq(g, s) = g[e.what][e.node] + InSeq(g, Tail(s))
  BY <1>1, <1>2, <1>3, InSeqOne
<1> QED
  BY <1>4 DEF e

LEMMA InSeqTerm ==
    ASSUME NEW S, NEW s \in Seq(S), NEW i \in DOMAIN s, NEW g, Weighs(g, S)
    PROVE  InSeq(g, s) >= g[s[i].what][s[i].node]
<1> DEFINE v == [k \in DOMAIN s |-> g[s[k].what][s[k].node]]
<1>1. DOMAIN s = 1 .. Len(s) /\ Len(s) \in Nat /\ \A k \in DOMAIN s : s[k] \in S
  OBVIOUS
<1>2. \A k \in DOMAIN s : v[k] \in Nat
  BY <1>1 DEF Weighs
<1>3. IsFiniteSet(DOMAIN s)
  BY <1>1, IntervalFinite
<1>4. v[i] = g[s[i].what][s[i].node]
  OBVIOUS
<1> HIDE DEF v
<1>5. Total(DOMAIN s, v) >= v[i]
  BY <1>2, <1>3, TotalTerm
<1> QED
  BY <1>4, <1>5 DEF InSeq, v

LEMMA InSeqIs ==
    ASSUME NEW s, NEW g, NEW v, \A i \in DOMAIN s : g[s[i].what][s[i].node] = v[i]
    PROVE  InSeq(g, s) = Total(DOMAIN s, v)
<1> DEFINE u == [i \in DOMAIN s |-> g[s[i].what][s[i].node]]
<1>1. \A i \in DOMAIN s : u[i] = v[i]
  OBVIOUS
<1> HIDE DEF u
<1>2. Total(DOMAIN s, u) = Total(DOMAIN s, v)
  BY <1>1, TotalSame
<1> QED
  BY <1>2 DEF InSeq, u

-----------------------------------------------------------------------------
(* Paths of a well-formed flow.                                              *)

\* a well-formed flow with its paths and ranks
WellFormedBy(f, paths, rank) ==
    /\ IsFiniteSet(f.nodes) /\ rank \in [f.nodes -> 1 .. Cardinality(f.nodes)]
    /\ \A n \in f.nodes : \A i \in DOMAIN f.children[n] : rank[n] < rank[f.children[n][i].node]
    /\ Balanced(f, paths)

\* the part of WellFormedBy the steps below use most
LEMMA FlowNodes ==
    ASSUME NEW f, FlowType(f), NEW w, NEW rank, WellFormedBy(f, w, rank)
    PROVE  /\ IsFiniteSet(f.nodes) /\ Cardinality(f.nodes) \in Nat
           /\ w \in [f.nodes -> [f.nodes -> Nat]]
           /\ rank \in [f.nodes -> 1 .. Cardinality(f.nodes)]
           /\ Joins(f) \subseteq f.nodes /\ Gathers(f) \subseteq f.nodes
           /\ IsFiniteSet(Joins(f))
<1>1. IsFiniteSet(f.nodes) /\ rank \in [f.nodes -> 1 .. Cardinality(f.nodes)]
  BY DEF WellFormedBy
<1>2. w \in [f.nodes -> [f.nodes -> Nat]]
  BY DEF WellFormedBy, Balanced, ArePaths
<1>3. Joins(f) \subseteq f.nodes /\ Gathers(f) \subseteq f.nodes
  BY DEF Gathers, Joins, Ends
<1> QED
  BY <1>1, <1>2, <1>3, FS_Subset, FS_CardinalityType

LEMMA FlowChildren ==
    ASSUME NEW f, FlowType(f), NEW n \in f.nodes
    PROVE  /\ DOMAIN f.children[n] = 1 .. Len(f.children[n]) /\ Len(f.children[n]) \in Nat
           /\ IsFiniteSet(DOMAIN f.children[n])
           /\ \A i \in DOMAIN f.children[n] : f.children[n][i].node \in f.nodes
           /\ f.children[n] # <<>> => 1 \in DOMAIN f.children[n]
<1> DEFINE c == f.children[n]
<1>1. c \in Seq([node : f.nodes, key : Nat])
  BY DEF FlowType
<1> HIDE DEF c
<1>2. DOMAIN c = 1 .. Len(c) /\ Len(c) \in Nat /\ (c # <<>> => 1 \in DOMAIN c)
  BY <1>1
<1>3. \A i \in DOMAIN c : c[i].node \in f.nodes
  <2>1. \A i \in DOMAIN c : c[i] \in [node : f.nodes, key : Nat]
    BY <1>1, SeqElement
  <2> QED
    BY <2>1
<1>4. IsFiniteSet(DOMAIN c)
  BY <1>2, IntervalFinite
<1> QED
  BY <1>2, <1>3, <1>4 DEF c

LEMMA FlowListeners ==
    ASSUME NEW f, FlowType(f), NEW n \in f.nodes
    PROVE  /\ DOMAIN f.listeners[n] = 1 .. Len(f.listeners[n]) /\ Len(f.listeners[n]) \in Nat
           /\ IsFiniteSet(DOMAIN f.listeners[n])
           /\ \A i \in DOMAIN f.listeners[n] : f.listeners[n][i] \in f.nodes
<1> DEFINE c == f.listeners[n]
<1>1. c \in Seq(f.nodes)
  BY DEF FlowType
<1> HIDE DEF c
<1>2. DOMAIN c = 1 .. Len(c) /\ Len(c) \in Nat /\ \A i \in DOMAIN c : c[i] \in f.nodes
  BY <1>1
<1>3. IsFiniteSet(DOMAIN c)
  BY <1>2, IntervalFinite
<1> QED
  BY <1>2, <1>3 DEF c

Beyond(f, n) == { f.children[n][i].node : i \in DOMAIN f.children[n] }

LEMMA OnwardFacts ==
    ASSUME NEW f, FlowType(f), NEW w \in [f.nodes -> [f.nodes -> Nat]],
           NEW t \in f.nodes, NEW n \in f.nodes
    PROVE  /\ Onward(f, w, t, n) \in Nat
           /\ \A c \in Beyond(f, n) : w[t][c] <= Onward(f, w, t, n)
           /\ Onward(f, w, t, n) # 0 => \E c \in Beyond(f, n) : w[t][c] # 0
           /\ f.children[n] = <<>> => Onward(f, w, t, n) = 0
<1> DEFINE c == f.children[n]
           v == [i \in DOMAIN c |-> w[t][c[i].node]]
<1>1. IsFiniteSet(DOMAIN c) /\ \A i \in DOMAIN c : c[i].node \in f.nodes
  BY FlowChildren
<1>2. \A i \in DOMAIN c : v[i] \in Nat /\ v[i] = w[t][c[i].node]
  BY <1>1
<1>3. Onward(f, w, t, n) = Total(DOMAIN c, v)
  BY DEF Onward
<1>4. c = <<>> => Total(DOMAIN c, v) = 0
  BY TotalEmpty
<1> HIDE DEF v
<1>5. Total(DOMAIN c, v) \in Nat
  BY <1>1, <1>2, UnitsFinite
<1>6. \A i \in DOMAIN c : v[i] <= Total(DOMAIN c, v)
  BY <1>1, <1>2, <1>5, TotalTerm
<1>7. Total(DOMAIN c, v) # 0 => \E i \in DOMAIN c : v[i] > 0
  BY <1>2, TotalPositive
<1>8. Onward(f, w, t, n) \in Nat
  BY <1>3, <1>5
<1>9. \A b \in Beyond(f, n) : w[t][b] <= Onward(f, w, t, n)
  BY <1>2, <1>3, <1>6 DEF Beyond
<1>10. Onward(f, w, t, n) # 0 => \E b \in Beyond(f, n) : w[t][b] # 0
  BY <1>2, <1>3, <1>7 DEF Beyond
<1>11. c = <<>> => Onward(f, w, t, n) = 0
  BY <1>3, <1>4
<1> QED
  BY <1>8, <1>9, <1>10, <1>11

LEMMA BeyondRank ==
    ASSUME NEW f, FlowType(f), NEW w, NEW rank, WellFormedBy(f, w, rank),
           NEW n \in f.nodes, NEW c \in Beyond(f, n)
    PROVE  c \in f.nodes /\ rank[n] < rank[c]
BY FlowChildren DEF Beyond, WellFormedBy

LEMMA PathsRank ==
    ASSUME NEW f, FlowType(f), NEW w, NEW rank, WellFormedBy(f, w, rank),
           NEW t \in f.nodes, NEW n \in f.nodes, w[t][n] # 0
    PROVE  rank[n] <= rank[t]
<1> DEFINE Bad == { m \in f.nodes : w[t][m] # 0 /\ rank[t] < rank[m] }
           size == Cardinality(f.nodes)
<1>1. size \in Nat /\ w \in [f.nodes -> [f.nodes -> Nat]] /\ rank \in [f.nodes -> 1 .. size]
  BY FlowNodes
<1>2. ASSUME Bad # {} PROVE FALSE
  <2> HIDE DEF size
  <2>1. PICK m \in Bad : \A k \in Bad : rank[k] <= rank[m]
    <3>1. Bad \in SUBSET f.nodes
      OBVIOUS
    <3> HIDE DEF Bad
    <3> QED
      BY <1>1, <1>2, <3>1, HighestRank
  <2>2. m \in f.nodes /\ w[t][m] # 0 /\ rank[t] < rank[m] /\ m # t
    BY <1>1
  <2>3. w[t][m] = Onward(f, w, t, m)
    BY <2>2 DEF WellFormedBy, Balanced, ArePaths
  <2>4. PICK c \in Beyond(f, m) : w[t][c] # 0
    <3> HIDE DEF Bad
    <3>1. w \in [f.nodes -> [f.nodes -> Nat]] /\ m \in f.nodes
      BY <1>1, <2>2
    <3>2. Onward(f, w, t, m) # 0 => \E c \in Beyond(f, m) : w[t][c] # 0
      BY <3>1, OnwardFacts, Zenon
    <3> QED
      BY <2>2, <2>3, <3>2
  <2>5. c \in f.nodes /\ rank[m] < rank[c]
    BY <2>2, BeyondRank
  <2>6. rank[t] < rank[c]
    BY <1>1, <2>2, <2>5
  <2>7. c \in Bad
    BY <2>4, <2>5, <2>6
  <2> QED
    BY <1>1, <2>1, <2>2, <2>5, <2>7
<1>3. ~ (rank[t] < rank[n])
  BY <1>2
<1> QED
  BY <1>1, <1>3

\* what a node passes on gets further than the node
LEMMA OnwardRank ==
    ASSUME NEW f, FlowType(f), NEW w, NEW rank, WellFormedBy(f, w, rank),
           NEW t \in f.nodes, NEW n \in f.nodes, Onward(f, w, t, n) # 0
    PROVE  rank[n] < rank[t]
<1>1. w \in [f.nodes -> [f.nodes -> Nat]]
  BY FlowNodes
<1>2. PICK c \in Beyond(f, n) : w[t][c] # 0
  <2>1. Onward(f, w, t, n) # 0 => \E c \in Beyond(f, n) : w[t][c] # 0
    BY <1>1, OnwardFacts
  <2> QED
    BY <2>1
<1>3. c \in f.nodes /\ rank[n] < rank[c]
  BY BeyondRank
<1>4. rank[c] <= rank[t]
  BY <1>2, <1>3, PathsRank
<1>5. rank[n] \in Nat /\ rank[c] \in Nat /\ rank[t] \in Nat
  BY <1>3, FlowNodes
<1> QED
  BY <1>3, <1>4, <1>5

LEMMA PathHere ==
    ASSUME NEW f, FlowType(f), NEW w, NEW rank, WellFormedBy(f, w, rank), NEW t \in f.nodes
    PROVE  w[t][t] = 1 /\ Onward(f, w, t, t) = 0
<1>1. w[t][t] = 1
  BY DEF WellFormedBy, Balanced, ArePaths
<1>2. rank[t] \in Nat
  BY FlowNodes
<1>3. ~ (rank[t] < rank[t])
  BY <1>2
<1> QED
  BY <1>1, <1>3, OnwardRank

\* every branch leads to a join or to the end
LEMMA LeadsOn ==
    ASSUME NEW f, FlowType(f), NEW w, NEW rank, WellFormedBy(f, w, rank),
           NEW n \in f.nodes, n \notin Ends(f)
    PROVE  \E t \in Gathers(f) : Onward(f, w, t, n) >= 1
<1> DEFINE Bad == { m \in f.nodes : /\ m \notin Ends(f)
                                    /\ \A t \in Gathers(f) : ~ (Onward(f, w, t, m) >= 1) }
           size == Cardinality(f.nodes)
<1>1. /\ size \in Nat /\ w \in [f.nodes -> [f.nodes -> Nat]] /\ rank \in [f.nodes -> 1 .. size]
      /\ Gathers(f) \subseteq f.nodes
  BY FlowNodes
<1>2. ASSUME Bad # {} PROVE FALSE
  <2> HIDE DEF size
  <2>1. PICK m \in Bad : \A k \in Bad : rank[k] <= rank[m]
    <3>1. Bad \in SUBSET f.nodes
      OBVIOUS
    <3> HIDE DEF Bad
    <3> QED
      BY <1>1, <1>2, <3>1, HighestRank
  <2>2. m \in f.nodes /\ m \notin Ends(f) /\ \A t \in Gathers(f) : ~ (Onward(f, w, t, m) >= 1)
    BY <2>1
  <2>3. PICK c \in Beyond(f, m) : TRUE
    <3>1. f.children[m] # <<>>
      BY <2>2 DEF WellFormedBy, Balanced, OneEnd
    <3>2. 1 \in DOMAIN f.children[m]
      BY <2>2, <3>1, FlowChildren
    <3> QED
      BY <3>2 DEF Beyond
  <2>4. c \in f.nodes /\ rank[m] < rank[c]
    BY <2>2, BeyondRank
  <2>5. \A t \in f.nodes : Onward(f, w, t, m) \in Nat /\ w[t][c] <= Onward(f, w, t, m)
    BY <1>1, <2>2, <2>3, OnwardFacts
  <2>6. c \notin Gathers(f)
    <3>1. w[c][c] = 1
      BY <2>4, PathHere
    <3> QED
      BY <1>1, <2>2, <2>4, <2>5, <3>1
  <2>7. c \notin Bad
    BY <1>1, <2>1, <2>2, <2>4
  <2>8. PICK t \in Gathers(f) : Onward(f, w, t, c) >= 1
    BY <2>4, <2>6, <2>7 DEF Gathers
  <2>9. w[t][c] = Onward(f, w, t, c)
    BY <1>1, <2>4, <2>6, <2>8 DEF WellFormedBy, Balanced, ArePaths, Gathers
  <2>10. Onward(f, w, t, c) \in Nat
    BY <1>1, <2>4, <2>8, OnwardFacts
  <2> QED
    BY <1>1, <2>2, <2>5, <2>8, <2>9, <2>10
<1>3. n \notin Bad
  BY <1>2
<1> QED
  BY <1>3

-----------------------------------------------------------------------------
(* The inputs that are still to come.                                        *)

Whats == ActionTasks \cup OtherTasks \cup {"context halted", "context error"}

\* the inputs of t that will come of a task or a call
Ahead(f, w, t) ==
    [what \in Whats |-> [n \in f.nodes |->
        IF what \in {"enter", "main", "halted"} THEN w[t][n]
        ELSE IF what \in {"run", "next", "halt handlers"} THEN Onward(f, w, t, n)
        ELSE 0]]

\* ... of a job
JobAhead(f, w, t, j) ==
    IF j.work = "routing" THEN InSeq(Ahead(f, w, t), j.todo) ELSE Onward(f, w, t, j.node)

JobsAhead(f, w, t, J) == Total(J, [j \in J |-> JobAhead(f, w, t, j)])

\* ... and of joins
JoinsAhead(f, w, t, N) == Total(N, [n \in N |-> Onward(f, w, t, n)])

\* the joins that have not decided
Undecided == { n \in Joins(flow) : lifecycle[n] = "WAITING" }

Coming(w, t) ==
    InSeq(Ahead(flow, w, t), queue) + JobsAhead(flow, w, t, jobs)
    + InSeq(Ahead(flow, w, t), calls) + JoinsAhead(flow, w, t, Undecided)

Is(n, t) == IF n = t THEN 1 ELSE 0

\* t is about to run, or its halt about to be told
Running(f, t) ==
    [what \in Whats |-> [n \in f.nodes |->
        IF what \in {"run", "context halted"} THEN Is(n, t) ELSE 0]]

Answers == Total(DOMAIN outcomes,
                 [i \in DOMAIN outcomes |-> IF outcomes[i].kind = "error" THEN 0 ELSE 1])

\* how often t ran, and ran or will run on the inputs that were counted
Ran(t)  == IF flow.kind[t] = "end" THEN Answers ELSE started[t]
Runs(t) == InSeq(Running(flow, t), queue) + InSeq(Running(flow, t), calls) + Ran(t)

\* what the action of n, and the halt of n, add to the runs of t
Acts(n, t)  == IF flow.kind[n] = "start" THEN 0 ELSE Is(n, t)
Halts(n, t) == IF flow.kind[n] = "end" THEN Is(n, t) ELSE 0

\* the inputs of t that were there once and neither came nor will come
Slack(w, t) == (IF t \in Joins(flow) THEN remaining[t] ELSE 1 - Runs(t)) - Coming(w, t)

Trouble == \/ \E i \in DOMAIN queue : queue[i].what = "error"
           \/ \E i \in DOMAIN calls : calls[i].what \in {"error", "context error"}
           \/ \E i \in DOMAIN outcomes : outcomes[i].kind = "error"

Fits(x) ==
    /\ x.what = "next" => flow.kind[x.node] \in Changing
    /\ x.what = "halted" => x.node \in MayHalt(flow)
    /\ x.what = "halt handlers" => flow.kind[x.node] = "reference"
    /\ x.what = "context halted" => flow.kind[x.node] = "end"

FitsJob(j) ==
    IF j.work = "routing"
    THEN /\ flow.kind[j.node] = "router" /\ j.todo # <<>>
         /\ \A i \in DOMAIN j.todo : Fits(j.todo[i]) /\ j.todo[i].what \in {"enter", "halted"}
    ELSE j.work = flow.kind[j.node]

Placed == /\ \A i \in DOMAIN queue : Fits(queue[i])
          /\ \A i \in DOMAIN calls : Fits(calls[i])
          /\ \A j \in jobs : FitsJob(j)

OneJobEach == /\ IsFiniteSet(jobs)
              /\ \A j, k \in jobs : j.node = k.node => j = k

\* a join decides whether to run, once
ToDecide(t)  == IF t \in Undecided THEN 1 ELSE 0
Decisions(t) == Runs(t) + ToDecide(t)

Counted(w) ==
    /\ \A t \in flow.nodes : Slack(w, t) >= 0
    /\ flow.faults = {} => \A t \in Gathers(flow) : Slack(w, t) = 0
    /\ \A t \in Joins(flow) : /\ Decisions(t) <= 1
                              /\ flow.kind[t] = "end" => Decisions(t) = 1
    /\ Trouble => "error" \in flow.faults /\ \E t \in Gathers(flow) : Slack(w, t) > 0

Weights(f) == [Whats -> [f.nodes -> Nat]]

\* the ones the SMT solver would take for fields
HaltHandling  == "halt handlers"
ContextHalted == "context halted"
ContextError  == "context error"

LEMMA WhatsAre ==
    Whats = {"enter", "main", "run", "next", "halted", "halt handlers", "error",
             "context halted", "context error"}
BY DEF Whats, ActionTasks, OtherTasks

LEMMA AheadType ==
    ASSUME NEW f, FlowType(f), NEW w \in [f.nodes -> [f.nodes -> Nat]], NEW t \in f.nodes
    PROVE  Ahead(f, w, t) \in Weights(f)
<1>1. \A n \in f.nodes : Onward(f, w, t, n) \in Nat /\ w[t][n] \in Nat
  BY OnwardFacts
<1>2. \A what \in Whats, n \in f.nodes :
        (IF what \in {"enter", "main", "halted"} THEN w[t][n]
         ELSE IF what \in {"run", "next", "halt handlers"} THEN Onward(f, w, t, n)
         ELSE 0) \in Nat
  BY <1>1
<1> QED
  BY <1>2, Zenon DEF Ahead, Weights

LEMMA AheadValues ==
    ASSUME NEW f, NEW w, NEW t, NEW n \in f.nodes
    PROVE  /\ Ahead(f, w, t)["enter"][n] = w[t][n]
           /\ Ahead(f, w, t)["main"][n] = w[t][n]
           /\ Ahead(f, w, t)["halted"][n] = w[t][n]
           /\ Ahead(f, w, t)["run"][n] = Onward(f, w, t, n)
           /\ Ahead(f, w, t)["next"][n] = Onward(f, w, t, n)
           /\ Ahead(f, w, t)["error"][n] = 0
<1>1. \A what \in Whats :
        Ahead(f, w, t)[what][n] = IF what \in {"enter", "main", "halted"} THEN w[t][n]
                                  ELSE IF what \in {"run", "next", "halt handlers"}
                                       THEN Onward(f, w, t, n) ELSE 0
  BY Zenon DEF Ahead
<1> QED
  BY <1>1, WhatsAre

LEMMA AheadOthers ==
    ASSUME NEW f, NEW w, NEW t, NEW n \in f.nodes
    PROVE  /\ Ahead(f, w, t)[HaltHandling][n] = Onward(f, w, t, n)
           /\ Ahead(f, w, t)[ContextHalted][n] = 0
           /\ Ahead(f, w, t)[ContextError][n] = 0
<1>1. \A what \in Whats :
        Ahead(f, w, t)[what][n] = IF what \in {"enter", "main", "halted"} THEN w[t][n]
                                  ELSE IF what \in {"run", "next", "halt handlers"}
                                       THEN Onward(f, w, t, n) ELSE 0
  BY Zenon DEF Ahead
<1> QED
  BY <1>1, WhatsAre DEF HaltHandling, ContextHalted, ContextError

LEMMA RunningType ==
    ASSUME NEW f, NEW t \in f.nodes
    PROVE  Running(f, t) \in Weights(f)
<1>1. \A what \in Whats, n \in f.nodes :
        (IF what \in {"run", "context halted"} THEN Is(n, t) ELSE 0) \in Nat
  BY DEF Is
<1> QED
  BY <1>1, Zenon DEF Running, Weights

LEMMA RunningValues ==
    ASSUME NEW f, NEW t, NEW n \in f.nodes
    PROVE  /\ Running(f, t)["enter"][n] = 0
           /\ Running(f, t)["main"][n] = 0
           /\ Running(f, t)["halted"][n] = 0
           /\ Running(f, t)["run"][n] = Is(n, t)
           /\ Running(f, t)["next"][n] = 0
           /\ Running(f, t)["error"][n] = 0
<1>1. \A what \in Whats :
        Running(f, t)[what][n] = IF what \in {"run", "context halted"} THEN Is(n, t) ELSE 0
  BY Zenon DEF Running
<1> QED
  BY <1>1, WhatsAre

LEMMA RunningOthers ==
    ASSUME NEW f, NEW t, NEW n \in f.nodes
    PROVE  /\ Running(f, t)[HaltHandling][n] = 0
           /\ Running(f, t)[ContextHalted][n] = Is(n, t)
           /\ Running(f, t)[ContextError][n] = 0
<1>1. \A what \in Whats :
        Running(f, t)[what][n] = IF what \in {"run", "context halted"} THEN Is(n, t) ELSE 0
  BY Zenon DEF Running
<1> QED
  BY <1>1, WhatsAre DEF HaltHandling, ContextHalted, ContextError

\* every task and call has a weight
LEMMA Weighing ==
    ASSUME NEW g \in Weights(flow)
    PROVE  Weighs(g, Tasks) /\ Weighs(g, Calls)
<1>1. \A what \in Whats, n \in flow.nodes : g[what][n] \in Nat
  BY DEF Weights
<1>2. \A x \in Tasks : x.what \in Whats /\ x.node \in flow.nodes
  BY DEF Tasks, Whats
<1>3. \A x \in Calls : x.what \in Whats /\ x.node \in flow.nodes
  BY DEF Calls, Whats, OtherTasks
<1> QED
  BY <1>1, <1>2, <1>3 DEF Weighs

LEMMA JobAheadType ==
    ASSUME TypeOK, NEW w \in [flow.nodes -> [flow.nodes -> Nat]], NEW t \in flow.nodes,
           NEW j, j.node \in flow.nodes, j.todo \in Seq(Tasks)
    PROVE  JobAhead(flow, w, t, j) \in Nat
<1>1. Onward(flow, w, t, j.node) \in Nat
  BY OnwardFacts DEF TypeOK
<1>2. Weighs(Ahead(flow, w, t), Tasks)
  BY AheadType, Weighing DEF TypeOK
<1>3. InSeq(Ahead(flow, w, t), j.todo) \in Nat
  BY <1>2, InSeqType
<1> QED
  BY <1>1, <1>3 DEF JobAhead

LEMMA JobsAheadType ==
    ASSUME TypeOK, IsFiniteSet(jobs),
           NEW w \in [flow.nodes -> [flow.nodes -> Nat]], NEW t \in flow.nodes
    PROVE  JobsAhead(flow, w, t, jobs) \in Nat
<1> DEFINE v == [j \in jobs |-> JobAhead(flow, w, t, j)]
<1>1. \A j \in jobs : v[j] \in Nat
  BY PoolJobType, JobAheadType
<1> HIDE DEF v
<1>2. Total(jobs, v) \in Nat
  BY <1>1, UnitsFinite
<1> QED
  BY <1>2 DEF JobsAhead, v

\* jobs comes in place of another, which is worth what it is worth and more
LEMMA JobLeaves ==
    ASSUME TypeOK, IsFiniteSet(jobs), NEW j \in jobs,
           NEW w \in [flow.nodes -> [flow.nodes -> Nat]], NEW t \in flow.nodes
    PROVE  /\ IsFiniteSet(jobs \ {j})
           /\ JobsAhead(flow, w, t, jobs \ {j}) \in Nat
           /\ JobsAhead(flow, w, t, jobs) =
                JobsAhead(flow, w, t, jobs \ {j}) + JobAhead(flow, w, t, j)
<1> DEFINE v == [k \in jobs |-> JobAhead(flow, w, t, k)]
           u == [k \in jobs \ {j} |-> JobAhead(flow, w, t, k)]
<1>1. \A k \in jobs : v[k] \in Nat
  BY PoolJobType, JobAheadType
<1>2. v[j] = JobAhead(flow, w, t, j) /\ \A k \in jobs \ {j} : u[k] = v[k]
  OBVIOUS
<1> HIDE DEF v, u
<1>3. Total(jobs, v) = Total(jobs \ {j}, v) + v[j]
  BY <1>1, TotalRemove
<1>4. Total(jobs \ {j}, u) = Total(jobs \ {j}, v)
  BY <1>2, TotalSame
<1>5. IsFiniteSet(jobs \ {j})
  BY FS_RemoveElement
<1>6. Total(jobs \ {j}, u) \in Nat
  BY <1>1, <1>2, <1>5, UnitsFinite
<1> QED
  BY <1>2, <1>3, <1>4, <1>5, <1>6 DEF JobsAhead, v, u

LEMMA JobComes ==
    ASSUME NEW f, NEW w, NEW t, NEW J, IsFiniteSet(J), NEW k, k \notin J,
           \A i \in J \cup {k} : JobAhead(f, w, t, i) \in Nat
    PROVE  JobsAhead(f, w, t, J \cup {k}) = JobsAhead(f, w, t, J) + JobAhead(f, w, t, k)
<1> DEFINE v == [i \in J \cup {k} |-> JobAhead(f, w, t, i)]
           u == [i \in J |-> JobAhead(f, w, t, i)]
<1>1. \A i \in J \cup {k} : v[i] \in Nat
  OBVIOUS
<1>2. v[k] = JobAhead(f, w, t, k) /\ \A i \in J : u[i] = v[i]
  OBVIOUS
<1> HIDE DEF v, u
<1>3. Total(J \cup {k}, v) = Total(J, v) + v[k]
  BY <1>1, TotalAdd
<1>4. Total(J, u) = Total(J, v)
  BY <1>2, TotalSame
<1> QED
  BY <1>2, <1>3, <1>4 DEF JobsAhead, v, u

LEMMA JoinDecides ==
    ASSUME NEW f, FlowType(f), NEW w \in [f.nodes -> [f.nodes -> Nat]], NEW t \in f.nodes,
           NEW N, IsFiniteSet(N), N \subseteq f.nodes
    PROVE  /\ JoinsAhead(f, w, t, N) \in Nat
           /\ \A n \in N : JoinsAhead(f, w, t, N) =
                              JoinsAhead(f, w, t, N \ {n}) + Onward(f, w, t, n)
<1> DEFINE v == [n \in N |-> Onward(f, w, t, n)]
<1>1. \A n \in N : v[n] \in Nat /\ v[n] = Onward(f, w, t, n)
  BY OnwardFacts
<1>2. JoinsAhead(f, w, t, N) = Total(N, v)
  BY DEF JoinsAhead
<1> HIDE DEF v
<1>3. Total(N, v) \in Nat
  BY <1>1, UnitsFinite
<1>4. ASSUME NEW n \in N
      PROVE  JoinsAhead(f, w, t, N) = JoinsAhead(f, w, t, N \ {n}) + Onward(f, w, t, n)
  <2> DEFINE u == [m \in N \ {n} |-> Onward(f, w, t, m)]
  <2>1. \A m \in N \ {n} : u[m] = v[m]
    BY <1>1
  <2>2. JoinsAhead(f, w, t, N \ {n}) = Total(N \ {n}, u)
    BY DEF JoinsAhead
  <2> HIDE DEF u
  <2>3. Total(N \ {n}, u) = Total(N \ {n}, v)
    BY <2>1, TotalSame
  <2>4. Total(N, v) = Total(N \ {n}, v) + v[n]
    BY <1>1, TotalRemove
  <2> QED
    BY <1>1, <1>2, <2>2, <2>3, <2>4
<1> QED
  BY <1>2, <1>3, <1>4

-----------------------------------------------------------------------------
(* What an action does to a sum over the queue or over the calls.            *)

LEMMA QueueSums ==
    ASSUME TypeOK, NEW g \in Weights(flow)
    PROVE  /\ InSeq(g, queue) \in Nat /\ InSeq(g, calls) \in Nat
           /\ queue # <<>> => /\ InSeq(g, Tail(queue)) \in Nat
                              /\ InSeq(g, queue) = g[Head(queue).what][Here] + InSeq(g, Tail(queue))
           /\ calls # <<>> => /\ InSeq(g, Tail(calls)) \in Nat
                              /\ InSeq(g, calls) = g[Head(calls).what][Head(calls).node]
                                                   + InSeq(g, Tail(calls))
<1>1. queue \in Seq(Tasks) /\ calls \in Seq(Calls)
  BY DEF TypeOK
<1>2. Weighs(g, Tasks) /\ Weighs(g, Calls)
  BY Weighing
<1>3. InSeq(g, queue) \in Nat /\ InSeq(g, calls) \in Nat
  BY <1>1, <1>2, InSeqType
<1>4. ASSUME queue # <<>>
      PROVE  /\ InSeq(g, Tail(queue)) \in Nat
             /\ InSeq(g, queue) = g[Head(queue).what][Here] + InSeq(g, Tail(queue))
  <2>1. Tail(queue) \in Seq(Tasks)
    BY <1>1, <1>4, SeqTail
  <2> QED
    BY <1>1, <1>2, <1>4, <2>1, InSeqType, InSeqTail DEF Here
<1>5. ASSUME calls # <<>>
      PROVE  /\ InSeq(g, Tail(calls)) \in Nat
             /\ InSeq(g, calls) = g[Head(calls).what][Head(calls).node] + InSeq(g, Tail(calls))
  <2>1. Tail(calls) \in Seq(Calls)
    BY <1>1, <1>5, SeqTail
  <2> QED
    BY <1>1, <1>2, <1>5, <2>1, InSeqType, InSeqTail
<1> QED
  BY <1>3, <1>4, <1>5

\* a task is appended to the queue or to what is left of it
LEMMA PostSum ==
    ASSUME NEW g \in Weights(flow), NEW q \in Seq(Tasks),
           NEW what \in Whats, NEW n \in flow.nodes, NEW d
    PROVE  InSeq(g, Append(q, Task(what, n, d))) = InSeq(g, q) + g[what][n]
<1> DEFINE e == Task(what, n, d)
<1>1. e.what = what /\ e.node = n
  BY DEF Task
<1> HIDE DEF e
<1>2. g[e.what][e.node] \in Nat
  BY <1>1 DEF Weights
<1>3. InSeq(g, Append(q, e)) = InSeq(g, q) + g[e.what][e.node]
  BY <1>2, Weighing, InSeqAppend
<1> QED
  BY <1>1, <1>3 DEF e

\* calls for the listeners of n
LEMMA ListenersSum ==
    ASSUME FlowType(flow), NEW g \in Weights(flow), NEW n \in flow.nodes,
           NEW what \in {"halted", "error"}
    PROVE  LET ls == flow.listeners[n]
               called == [i \in DOMAIN ls |-> Call(what, ls[i])]
           IN  /\ InSeq(g, called) = Total(DOMAIN ls, [i \in DOMAIN ls |-> g[what][ls[i]]])
               /\ called \in Seq(Calls)
<1> DEFINE ls == flow.listeners[n]
           called == [i \in DOMAIN ls |-> Call(what, ls[i])]
           v == [i \in DOMAIN ls |-> g[what][ls[i]]]
<1>1. ls \in Seq(flow.nodes) /\ \A i \in DOMAIN ls : ls[i] \in flow.nodes
  BY FlowListeners DEF FlowType
<1>2. DOMAIN called = DOMAIN ls
  OBVIOUS
<1>3. \A i \in DOMAIN ls : called[i].what = what /\ called[i].node = ls[i] /\ called[i] \in Calls
  BY <1>1 DEF Call, Calls
<1>4. \A i \in DOMAIN ls : v[i] = g[what][ls[i]]
  OBVIOUS
<1>5. called = [i \in DOMAIN ls |-> called[i]]
  OBVIOUS
<1> HIDE DEF called, v, ls
<1>6. \A i \in DOMAIN called : g[called[i].what][called[i].node] = v[i]
  BY <1>2, <1>3, <1>4
<1>7. InSeq(g, called) = Total(DOMAIN called, v)
  BY <1>6, InSeqIs
<1>8. called \in Seq(Calls)
  BY <1>1, <1>3, <1>5, SeqOfFunction
<1> QED
  BY <1>2, <1>7, <1>8 DEF ls, called, v

LEMMA HaltHandlersSum ==
    ASSUME FlowType(flow), NEW g \in Weights(flow), NEW n \in flow.nodes,
           NEW rest \in Seq(Calls)
    PROVE  LET ls == flow.listeners[n]
           IN  InSeq(g, HaltHandlers(n) \o rest) =
                 Total(DOMAIN ls, [i \in DOMAIN ls |-> g["halted"][ls[i]]])
                 + (IF flow.kind[n] = "end" THEN g[ContextHalted][n] ELSE 0)
                 + InSeq(g, rest)
<1> DEFINE ls == flow.listeners[n]
           called == [i \in DOMAIN ls |-> Call("halted", ls[i])]
           sum == Total(DOMAIN ls, [i \in DOMAIN ls |-> g["halted"][ls[i]]])
           own == IF flow.kind[n] = "end" THEN <<Call(ContextHalted, n)>> ELSE <<>>
<1>1. InSeq(g, called) = sum /\ called \in Seq(Calls)
  BY ListenersSum
<1>2. own \in Seq(Calls)
  <2>1. Call(ContextHalted, n) \in Calls
    BY DEF Calls, Call, ContextHalted
  <2> QED
    BY <2>1, SeqOfOne
<1>3. InSeq(g, own) = IF flow.kind[n] = "end" THEN g[ContextHalted][n] ELSE 0
  <2> DEFINE e == Call(ContextHalted, n)
  <2>1. e.what = ContextHalted /\ e.node = n /\ ContextHalted \in Whats
    BY DEF Call, Whats, ContextHalted
  <2>2. g[e.what][e.node] \in Nat
    BY <2>1 DEF Weights
  <2>3. own = IF flow.kind[n] = "end" THEN <<e>> ELSE <<>>
    OBVIOUS
  <2> HIDE DEF e, own
  <2>4. InSeq(g, <<e>>) = g[e.what][e.node] /\ InSeq(g, <<>>) = 0
    BY <2>2, InSeqOne
  <2> QED
    BY <2>1, <2>3, <2>4
<1>4. HaltHandlers(n) = called \o own
  BY DEF HaltHandlers, ContextHalted
<1> HIDE DEF called, own, sum
<1>5. Weighs(g, Calls) /\ called \o own \in Seq(Calls)
  BY <1>1, <1>2, Weighing, SeqConcat
<1>6. InSeq(g, (called \o own) \o rest) = InSeq(g, called \o own) + InSeq(g, rest)
  BY <1>5, InSeqConcat
<1>7. InSeq(g, called \o own) = InSeq(g, called) + InSeq(g, own)
  BY <1>1, <1>2, <1>5, InSeqConcat
<1>8. InSeq(g, HaltHandlers(n) \o rest) =
        sum + (IF flow.kind[n] = "end" THEN g[ContextHalted][n] ELSE 0) + InSeq(g, rest)
  BY <1>1, <1>3, <1>4, <1>6, <1>7
<1> QED
  BY <1>8 DEF sum

LEMMA ErrorHandlersSum ==
    ASSUME FlowType(flow), NEW g \in Weights(flow), NEW n \in flow.nodes,
           NEW rest \in Seq(Calls)
    PROVE  LET ls == flow.listeners[n]
           IN  InSeq(g, ErrorHandlers(n) \o rest) =
                 Total(DOMAIN ls, [i \in DOMAIN ls |-> g["error"][ls[i]]])
                 + g[ContextError][n] + InSeq(g, rest)
<1> DEFINE ls == flow.listeners[n]
           called == [i \in DOMAIN ls |-> Call("error", ls[i])]
           sum == Total(DOMAIN ls, [i \in DOMAIN ls |-> g["error"][ls[i]]])
           e == Call(ContextError, n)
<1>1. InSeq(g, called) = sum /\ called \in Seq(Calls)
  BY ListenersSum
<1>2. ErrorHandlers(n) = called \o <<e>>
  BY DEF ErrorHandlers, ContextError
<1>3. e.what = ContextError /\ e.node = n /\ e \in Calls /\ ContextError \in Whats
  BY DEF Call, Calls, Whats, ContextError
<1> HIDE DEF called, sum, e
<1>4. g[e.what][e.node] \in Nat
  BY <1>3 DEF Weights
<1>5. InSeq(g, <<e>>) = g[ContextError][n]
  BY <1>3, <1>4, InSeqOne
<1>6. <<e>> \in Seq(Calls)
  BY <1>3, SeqOfOne
<1>7. Weighs(g, Calls) /\ called \o <<e>> \in Seq(Calls)
  BY <1>1, <1>6, Weighing, SeqConcat
<1>8. InSeq(g, (called \o <<e>>) \o rest) = InSeq(g, called \o <<e>>) + InSeq(g, rest)
  BY <1>7, InSeqConcat
<1>9. InSeq(g, called \o <<e>>) = InSeq(g, called) + InSeq(g, <<e>>)
  BY <1>1, <1>6, <1>7, InSeqConcat
<1>10. InSeq(g, ErrorHandlers(n) \o rest) = sum + g[ContextError][n] + InSeq(g, rest)
  BY <1>1, <1>2, <1>5, <1>8, <1>9
<1> QED
  BY <1>10 DEF sum

LEMMA CallChildrenSum ==
    ASSUME TypeOK, queue # <<>>, NEW g \in Weights(flow), NEW n \in flow.nodes, NEW d,
           CallChildren(n, d)
    PROVE  LET c == flow.children[n]
           IN  InSeq(g, queue') = InSeq(g, Tail(queue))
                 + Total(DOMAIN c, [i \in DOMAIN c |-> g["main"][c[i].node]])
<1> DEFINE c == flow.children[n]
           copy == Len(c) > 1
           posted == [i \in DOMAIN c |->
                        Task("main", c[i].node, IF copy THEN Copy(d, i) ELSE d)]
           P == { posted[i] : i \in DOMAIN c }
           v == [i \in DOMAIN c |-> g["main"][c[i].node]]
<1>1. queue' = Tail(queue) \o posted
  BY DEF CallChildren
<1>2. /\ c \in Seq([node : flow.nodes, key : Nat])
      /\ \A i \in DOMAIN c : c[i].node \in flow.nodes
  BY FlowChildren DEF TypeOK, FlowType
<1>3. DOMAIN posted = DOMAIN c /\ posted = [i \in DOMAIN c |-> posted[i]]
  OBVIOUS
<1>4. \A i \in DOMAIN c : /\ posted[i].what = "main" /\ posted[i].node = c[i].node
                          /\ posted[i] \in P
  BY DEF Task
<1>5. \A i \in DOMAIN c : v[i] = g["main"][c[i].node]
  OBVIOUS
<1>6. \A x \in P : \E i \in DOMAIN c : x = posted[i]
  OBVIOUS
<1> HIDE DEF posted, v, P, copy, c
<1>7. posted \in Seq(P)
  BY <1>2, <1>3, <1>4, SeqOfFunction
<1>8. Weighs(g, Tasks \cup P)
  <2>1. "main" \in Whats
    BY DEF Whats, ActionTasks
  <2>2. \A x \in P : g[x.what][x.node] \in Nat
    <3>1. \A i \in DOMAIN c : g["main"][c[i].node] \in Nat
      BY <1>2, <2>1 DEF Weights
    <3>2. \A i \in DOMAIN c : g[posted[i].what][posted[i].node] \in Nat
      BY <1>4, <3>1
    <3> QED
      BY <1>6, <3>2
  <2> QED
    BY <2>2, Weighing DEF Weighs
<1>9. Tail(queue) \in Seq(Tasks \cup P) /\ posted \in Seq(Tasks \cup P)
  BY <1>7, TakenType, SeqMonotone
<1>10. InSeq(g, queue') = InSeq(g, Tail(queue)) + InSeq(g, posted)
  BY <1>1, <1>8, <1>9, InSeqConcat
<1>11. InSeq(g, posted) = Total(DOMAIN c, v)
  <2>1. \A i \in DOMAIN posted : g[posted[i].what][posted[i].node] = v[i]
    BY <1>3, <1>4, <1>5
  <2> QED
    BY <1>3, <2>1, InSeqIs
<1> QED
  BY <1>10, <1>11 DEF c, v

-----------------------------------------------------------------------------
(* What an action does to the inputs still to come and to the runs.          *)

Sound(w, rank) == /\ IInv
                  /\ WellFormedBy(flow, w, rank)
                  /\ Placed
                  /\ OneJobEach
                  /\ Counted(w)

LEMMA SoundParts ==
    ASSUME NEW w, NEW rank, Sound(w, rank)
    PROVE  /\ TypeOK /\ JoinInv /\ JobsInv /\ FlowType(flow) /\ WellFormedBy(flow, w, rank)
           /\ w \in [flow.nodes -> [flow.nodes -> Nat]]
           /\ IsFiniteSet(jobs) /\ Placed
           /\ IsFiniteSet(Undecided) /\ Undecided \subseteq flow.nodes
<1>1. TypeOK /\ JoinInv /\ JobsInv /\ WellFormedBy(flow, w, rank) /\ IsFiniteSet(jobs) /\ Placed
  BY DEF Sound, IInv, OneJobEach
<1>2. FlowType(flow)
  BY <1>1 DEF TypeOK
<1>3. /\ w \in [flow.nodes -> [flow.nodes -> Nat]]
      /\ Joins(flow) \subseteq flow.nodes /\ IsFiniteSet(Joins(flow))
  BY <1>1, <1>2, FlowNodes
<1>4. Undecided \in SUBSET Joins(flow)
  BY DEF Undecided
<1> QED
  BY <1>1, <1>2, <1>3, <1>4, FS_Subset

LEMMA ComingParts ==
    ASSUME NEW w, NEW rank, Sound(w, rank), NEW t \in flow.nodes
    PROVE  /\ InSeq(Ahead(flow, w, t), queue) \in Nat /\ InSeq(Ahead(flow, w, t), calls) \in Nat
           /\ JobsAhead(flow, w, t, jobs) \in Nat
           /\ JoinsAhead(flow, w, t, Undecided) \in Nat
           /\ Coming(w, t) \in Nat
<1>1. Ahead(flow, w, t) \in Weights(flow)
  BY SoundParts, AheadType
<1>2. InSeq(Ahead(flow, w, t), queue) \in Nat /\ InSeq(Ahead(flow, w, t), calls) \in Nat
  BY <1>1, SoundParts, QueueSums
<1>3. JobsAhead(flow, w, t, jobs) \in Nat
  BY SoundParts, JobsAheadType
<1>4. JoinsAhead(flow, w, t, Undecided) \in Nat
  BY SoundParts, JoinDecides
<1> QED
  BY <1>2, <1>3, <1>4 DEF Coming

LEMMA AnswersType == ASSUME TypeOK PROVE Answers \in Nat
<1> DEFINE v == [i \in DOMAIN outcomes |-> IF outcomes[i].kind = "error" THEN 0 ELSE 1]
<1>1. DOMAIN outcomes = 1 .. Len(outcomes) /\ Len(outcomes) \in Nat
  BY DEF TypeOK
<1>2. IsFiniteSet(DOMAIN outcomes)
  BY <1>1, IntervalFinite
<1>3. \A i \in DOMAIN outcomes : v[i] \in Nat
  OBVIOUS
<1> HIDE DEF v
<1>4. Total(DOMAIN outcomes, v) \in Nat
  BY <1>2, <1>3, UnitsFinite
<1> QED
  BY <1>4 DEF Answers, v

LEMMA FinishAnswers ==
    ASSUME TypeOK, NEW kind, NEW counter, NEW contents, Finish(kind, counter, contents)
    PROVE  Answers' = Answers + (IF kind = "error" THEN 0 ELSE 1)
<1> DEFINE D == DOMAIN outcomes
           k == Len(outcomes) + 1
           outcome == [kind |-> kind, data |-> contents]
           v == [i \in D |-> IF outcomes[i].kind = "error" THEN 0 ELSE 1]
           u == [i \in D \cup {k} |-> IF outcomes'[i].kind = "error" THEN 0 ELSE 1]
<1>1. D = 1 .. Len(outcomes) /\ Len(outcomes) \in Nat /\ k \notin D
  BY DEF TypeOK
<1>2. /\ outcomes' = Append(outcomes, outcome)
      /\ outcome.kind = kind
  BY DEF Finish
<1>3. /\ DOMAIN outcomes' = D \cup {k}
      /\ \A i \in D : outcomes'[i] = outcomes[i]
      /\ outcomes'[k] = outcome
  <2>1. outcomes \in Seq([kind : {"ok", "halted", "error"}, data : SUBSET flow.nodes])
    BY DEF TypeOK
  <2> HIDE DEF outcome
  <2> QED
    BY <1>1, <1>2, <2>1
<1>4. IsFiniteSet(D)
  BY <1>1, IntervalFinite
<1> HIDE DEF outcome, D, k
<1>5. /\ \A i \in D \cup {k} : u[i] \in Nat
      /\ \A i \in D : u[i] = v[i]
      /\ u[k] = IF kind = "error" THEN 0 ELSE 1
  BY <1>2, <1>3
<1>6. Answers = Total(D, v) /\ Answers' = Total(D \cup {k}, u)
  BY <1>3 DEF Answers, D
<1> HIDE DEF u, v
<1>7. Total(D \cup {k}, u) = Total(D, u) + u[k]
  BY <1>1, <1>4, <1>5, TotalAdd
<1>8. Total(D, u) = Total(D, v)
  BY <1>5, TotalSame
<1> QED
  BY <1>5, <1>6, <1>7, <1>8

LEMMA RunsParts ==
    ASSUME TypeOK, NEW t \in flow.nodes
    PROVE  /\ InSeq(Running(flow, t), queue) \in Nat /\ InSeq(Running(flow, t), calls) \in Nat
           /\ Ran(t) \in Nat
           /\ Runs(t) \in Nat
<1>1. Running(flow, t) \in Weights(flow)
  BY RunningType
<1>2. InSeq(Running(flow, t), queue) \in Nat /\ InSeq(Running(flow, t), calls) \in Nat
  BY <1>1, QueueSums
<1>3. Ran(t) \in Nat
  BY AnswersType DEF TypeOK, Ran
<1> QED
  BY <1>2, <1>3 DEF Runs

\* the same, of the state a step leads to
LEMMA NextSums ==
    ASSUME flow' = flow, NEW w, NEW t
    PROVE  /\ Coming(w, t)' = InSeq(Ahead(flow, w, t), queue') + JobsAhead(flow, w, t, jobs')
                              + InSeq(Ahead(flow, w, t), calls') + JoinsAhead(flow, w, t, Undecided')
           /\ Runs(t)' = InSeq(Running(flow, t), queue') + InSeq(Running(flow, t), calls')
                         + Ran(t)'
           /\ UNCHANGED lifecycle => Undecided' = Undecided
           /\ UNCHANGED outcomes => Answers' = Answers
           /\ UNCHANGED <<outcomes, started>> => Ran(t)' = Ran(t)
BY DEF Coming, Runs, Undecided, Answers, Ran

LEMMA CallChildrenMoves ==
    ASSUME NEW w, NEW rank, Sound(w, rank), queue # <<>>, NEW n \in flow.nodes, NEW d,
           CallChildren(n, d), NEW t \in flow.nodes
    PROVE  /\ InSeq(Ahead(flow, w, t), queue') =
                InSeq(Ahead(flow, w, t), Tail(queue)) + Onward(flow, w, t, n)
           /\ InSeq(Running(flow, t), queue') = InSeq(Running(flow, t), Tail(queue))
<1> DEFINE c == flow.children[n]
           a == Ahead(flow, w, t)
           r == Running(flow, t)
           av == [i \in DOMAIN c |-> a["main"][c[i].node]]
           wv == [i \in DOMAIN c |-> w[t][c[i].node]]
           rv == [i \in DOMAIN c |-> r["main"][c[i].node]]
<1>1. a \in Weights(flow) /\ r \in Weights(flow) /\ TypeOK /\ FlowType(flow)
  BY SoundParts, AheadType, RunningType
<1>2. \A i \in DOMAIN c : c[i].node \in flow.nodes
  BY <1>1, FlowChildren
<1>3. \A m \in flow.nodes : a["main"][m] = w[t][m]
  BY AheadValues
<1>4. \A m \in flow.nodes : r["main"][m] = 0
  BY RunningValues
<1>5. /\ InSeq(a, queue') = InSeq(a, Tail(queue)) + Total(DOMAIN c, av)
      /\ InSeq(r, queue') = InSeq(r, Tail(queue)) + Total(DOMAIN c, rv)
      /\ InSeq(r, Tail(queue)) \in Nat
  BY <1>1, CallChildrenSum, QueueSums
<1>6. \A i \in DOMAIN c : av[i] = wv[i] /\ rv[i] = 0
  BY <1>2, <1>3, <1>4
<1>7. Onward(flow, w, t, n) = Total(DOMAIN c, wv)
  BY DEF Onward
<1> HIDE DEF a, r, c, av, wv, rv
<1>8. Total(DOMAIN c, av) = Total(DOMAIN c, wv) /\ Total(DOMAIN c, rv) = 0
  BY <1>6, TotalSame, TotalZero
<1>9. InSeq(a, queue') = InSeq(a, Tail(queue)) + Onward(flow, w, t, n)
  BY <1>5, <1>7, <1>8
<1>10. InSeq(r, queue') = InSeq(r, Tail(queue))
  BY <1>5, <1>8
<1> QED
  BY <1>9, <1>10 DEF a, r

LEMMA IsType ==
    ASSUME NEW n, NEW t
    PROVE  /\ Is(n, t) \in Nat /\ Acts(n, t) \in Nat /\ Halts(n, t) \in Nat
           /\ Acts(n, t) <= Is(n, t) /\ Halts(n, t) <= Is(n, t)
           /\ Is(n, n) = 1 /\ (n # t => Is(n, t) = 0)
           /\ (flow.kind[n] = "end" => Acts(n, t) = Is(n, t) /\ Halts(n, t) = Is(n, t))
           /\ (flow.kind[n] # "end" => Halts(n, t) = 0)
BY DEF Is, Acts, Halts

LEMMA HaltHandlersMoves ==
    ASSUME NEW w, NEW rank, Sound(w, rank), NEW n \in flow.nodes,
           NEW rest \in Seq(Calls), NEW t \in flow.nodes
    PROVE  /\ InSeq(Ahead(flow, w, t), HaltHandlers(n) \o rest) =
                Heard(flow, w, t, n) + InSeq(Ahead(flow, w, t), rest)
           /\ InSeq(Running(flow, t), HaltHandlers(n) \o rest) =
                Halts(n, t) + InSeq(Running(flow, t), rest)
           /\ Heard(flow, w, t, n) \in Nat
           /\ InSeq(Ahead(flow, w, t), rest) \in Nat /\ InSeq(Running(flow, t), rest) \in Nat
<1> DEFINE c == flow.listeners[n]
           a == Ahead(flow, w, t)
           r == Running(flow, t)
           av == [i \in DOMAIN c |-> a["halted"][c[i]]]
           wv == [i \in DOMAIN c |-> w[t][c[i]]]
           rv == [i \in DOMAIN c |-> r["halted"][c[i]]]
<1>1. /\ a \in Weights(flow) /\ r \in Weights(flow) /\ FlowType(flow)
      /\ w \in [flow.nodes -> [flow.nodes -> Nat]]
  BY SoundParts, AheadType, RunningType
<1>2. IsFiniteSet(DOMAIN c) /\ \A i \in DOMAIN c : c[i] \in flow.nodes
  BY <1>1, FlowListeners
<1>3. \A m \in flow.nodes : a["halted"][m] = w[t][m] /\ a[ContextHalted][m] = 0
  <2>1. \A m \in flow.nodes : a["halted"][m] = w[t][m]
    BY AheadValues
  <2>2. \A m \in flow.nodes : a[ContextHalted][m] = 0
    BY AheadOthers
  <2> QED
    BY <2>1, <2>2
<1>4. \A m \in flow.nodes : r["halted"][m] = 0 /\ r[ContextHalted][m] = Is(m, t)
  <2>1. \A m \in flow.nodes : r["halted"][m] = 0
    BY RunningValues
  <2>2. \A m \in flow.nodes : r[ContextHalted][m] = Is(m, t)
    BY RunningOthers
  <2> QED
    BY <2>1, <2>2
<1>5. /\ InSeq(a, HaltHandlers(n) \o rest) = Total(DOMAIN c, av) +
           (IF flow.kind[n] = "end" THEN a[ContextHalted][n] ELSE 0) + InSeq(a, rest)
      /\ InSeq(r, HaltHandlers(n) \o rest) = Total(DOMAIN c, rv) +
           (IF flow.kind[n] = "end" THEN r[ContextHalted][n] ELSE 0) + InSeq(r, rest)
      /\ InSeq(r, rest) \in Nat /\ InSeq(a, rest) \in Nat
  BY <1>1, HaltHandlersSum, Weighing, InSeqType
<1>6. \A i \in DOMAIN c : av[i] = wv[i] /\ rv[i] = 0 /\ wv[i] \in Nat
  BY <1>1, <1>2, <1>3, <1>4
<1>7. Heard(flow, w, t, n) = Total(DOMAIN c, wv)
  BY DEF Heard
<1> HIDE DEF a, r, c, av, wv, rv
<1>8. Total(DOMAIN c, av) = Total(DOMAIN c, wv) /\ Total(DOMAIN c, rv) = 0
  BY <1>6, TotalSame, TotalZero
<1>9. Heard(flow, w, t, n) \in Nat
  BY <1>2, <1>6, <1>7, UnitsFinite
<1>10. InSeq(a, HaltHandlers(n) \o rest) = Heard(flow, w, t, n) + InSeq(a, rest)
  BY <1>3, <1>5, <1>7, <1>8, <1>9
<1>11. InSeq(r, HaltHandlers(n) \o rest) =
         Halts(n, t) + InSeq(r, rest)
  <2>1. Halts(n, t) = IF flow.kind[n] = "end" THEN r[ContextHalted][n] ELSE 0
    BY <1>4 DEF Halts
  <2>2. Halts(n, t) \in Nat
    BY IsType
  <2> QED
    BY <1>5, <1>8, <2>1, <2>2
<1> QED
  BY <1>5, <1>9, <1>10, <1>11 DEF a, r

LEMMA ErrorHandlersMoves ==
    ASSUME NEW w, NEW rank, Sound(w, rank), NEW n \in flow.nodes,
           NEW rest \in Seq(Calls), NEW t \in flow.nodes
    PROVE  /\ InSeq(Ahead(flow, w, t), ErrorHandlers(n) \o rest) = InSeq(Ahead(flow, w, t), rest)
           /\ InSeq(Running(flow, t), ErrorHandlers(n) \o rest) = InSeq(Running(flow, t), rest)
           /\ InSeq(Ahead(flow, w, t), rest) \in Nat /\ InSeq(Running(flow, t), rest) \in Nat
<1> DEFINE c == flow.listeners[n]
           a == Ahead(flow, w, t)
           r == Running(flow, t)
           av == [i \in DOMAIN c |-> a["error"][c[i]]]
           rv == [i \in DOMAIN c |-> r["error"][c[i]]]
<1>1. a \in Weights(flow) /\ r \in Weights(flow) /\ FlowType(flow)
  BY SoundParts, AheadType, RunningType
<1>2. \A i \in DOMAIN c : c[i] \in flow.nodes
  BY <1>1, FlowListeners
<1>3. \A m \in flow.nodes : a["error"][m] = 0 /\ a[ContextError][m] = 0
  <2>1. \A m \in flow.nodes : a["error"][m] = 0
    BY AheadValues
  <2>2. \A m \in flow.nodes : a[ContextError][m] = 0
    BY AheadOthers
  <2> QED
    BY <2>1, <2>2
<1>4. \A m \in flow.nodes : r["error"][m] = 0 /\ r[ContextError][m] = 0
  <2>1. \A m \in flow.nodes : r["error"][m] = 0
    BY RunningValues
  <2>2. \A m \in flow.nodes : r[ContextError][m] = 0
    BY RunningOthers
  <2> QED
    BY <2>1, <2>2
<1>5. /\ InSeq(a, ErrorHandlers(n) \o rest) =
           Total(DOMAIN c, av) + a[ContextError][n] + InSeq(a, rest)
      /\ InSeq(r, ErrorHandlers(n) \o rest) =
           Total(DOMAIN c, rv) + r[ContextError][n] + InSeq(r, rest)
      /\ InSeq(r, rest) \in Nat /\ InSeq(a, rest) \in Nat
  BY <1>1, ErrorHandlersSum, Weighing, InSeqType
<1>6. \A i \in DOMAIN c : av[i] = 0 /\ rv[i] = 0
  BY <1>2, <1>3, <1>4
<1>7. a[ContextError][n] = 0 /\ r[ContextError][n] = 0
  BY <1>3, <1>4
<1> HIDE DEF a, r, c, av, rv
<1>8. Total(DOMAIN c, av) = 0 /\ Total(DOMAIN c, rv) = 0
  BY <1>6, TotalZero
<1>9. InSeq(a, ErrorHandlers(n) \o rest) = InSeq(a, rest)
  BY <1>5, <1>7, <1>8
<1>10. InSeq(r, ErrorHandlers(n) \o rest) = InSeq(r, rest)
  BY <1>5, <1>7, <1>8
<1> QED
  BY <1>5, <1>9, <1>10 DEF a, r

-----------------------------------------------------------------------------
(* What each action does to them, for a node t.                               *)

Steady(w, t) == /\ Coming(w, t)' = Coming(w, t)
                /\ Runs(t)' = Runs(t)

\* the task that is taken
LEMMA Taken ==
    ASSUME NEW w, NEW rank, Sound(w, rank), queue # <<>>, NEW t \in flow.nodes
    PROVE  /\ Here \in flow.nodes /\ Tail(queue) \in Seq(Tasks)
           /\ InSeq(Ahead(flow, w, t), Tail(queue)) \in Nat
           /\ InSeq(Ahead(flow, w, t), queue) =
                Ahead(flow, w, t)[Head(queue).what][Here] + InSeq(Ahead(flow, w, t), Tail(queue))
           /\ InSeq(Running(flow, t), Tail(queue)) \in Nat
           /\ InSeq(Running(flow, t), queue) =
                Running(flow, t)[Head(queue).what][Here] + InSeq(Running(flow, t), Tail(queue))
<1>1. TypeOK /\ Ahead(flow, w, t) \in Weights(flow) /\ Running(flow, t) \in Weights(flow)
  BY SoundParts, AheadType, RunningType
<1>2. Here \in flow.nodes /\ Tail(queue) \in Seq(Tasks)
  BY <1>1, TakenType
<1> QED
  BY <1>1, <1>2, QueueSums

\* ... and the call
LEMMA Called ==
    ASSUME NEW w, NEW rank, Sound(w, rank), calls # <<>>, NEW t \in flow.nodes
    PROVE  LET n == Head(calls).node
           IN  /\ n \in flow.nodes /\ Tail(calls) \in Seq(Calls) /\ Fits(Head(calls))
               /\ InSeq(Ahead(flow, w, t), Tail(calls)) \in Nat
               /\ InSeq(Ahead(flow, w, t), calls) =
                    Ahead(flow, w, t)[Head(calls).what][n] + InSeq(Ahead(flow, w, t), Tail(calls))
               /\ InSeq(Running(flow, t), Tail(calls)) \in Nat
               /\ InSeq(Running(flow, t), calls) =
                    Running(flow, t)[Head(calls).what][n] + InSeq(Running(flow, t), Tail(calls))
<1>1. TypeOK /\ Ahead(flow, w, t) \in Weights(flow) /\ Running(flow, t) \in Weights(flow)
  BY SoundParts, AheadType, RunningType
<1>2. calls \in Seq(Calls)
  BY <1>1 DEF TypeOK
<1>3. Head(calls) \in Calls /\ Tail(calls) \in Seq(Calls)
  BY <1>2, SeqTail
<1>4. Head(calls).node \in flow.nodes
  BY <1>3 DEF Calls
<1>5. Fits(Head(calls))
  <2>1. 1 \in DOMAIN calls /\ Head(calls) = calls[1]
    BY <1>2
  <2> QED
    BY <2>1, SoundParts DEF Placed
<1> QED
  BY <1>1, <1>3, <1>4, <1>5, QueueSums

LEMMA EnterMoves ==
    ASSUME NEW w, NEW rank, Sound(w, rank), Enter, NEW t \in flow.nodes
    PROVE  Steady(w, t)
<1> DEFINE a == Ahead(flow, w, t)
           r == Running(flow, t)
<1>1. /\ queue # <<>> /\ Head(queue).what = "enter" /\ flow' = flow
      /\ queue' = Append(Tail(queue), Task("main", Here, Given))
      /\ UNCHANGED <<calls, jobs, lifecycle, outcomes, started>>
  BY DEF Enter, Taking, joins, ended
<1>2. a \in Weights(flow) /\ r \in Weights(flow)
  BY SoundParts, AheadType, RunningType
<1>3. Here \in flow.nodes /\ Tail(queue) \in Seq(Tasks) /\ "main" \in Whats
  BY <1>1, Taken, WhatsAre
<1> HIDE DEF a, r
<1>4. \A g \in Weights(flow) : InSeq(g, queue') = InSeq(g, Tail(queue)) + g["main"][Here]
  BY <1>1, <1>3, PostSum
<1>5. /\ InSeq(a, queue') = InSeq(a, Tail(queue)) + a["main"][Here]
      /\ InSeq(r, queue') = InSeq(r, Tail(queue)) + r["main"][Here]
  BY <1>2, <1>4
<1>6. /\ InSeq(a, queue) = a["enter"][Here] + InSeq(a, Tail(queue))
      /\ InSeq(r, queue) = r["enter"][Here] + InSeq(r, Tail(queue))
      /\ InSeq(a, Tail(queue)) \in Nat /\ InSeq(r, Tail(queue)) \in Nat
  BY <1>1, Taken DEF a, r
<1>7. a["enter"][Here] = a["main"][Here] /\ a["main"][Here] \in Nat
  BY <1>2, <1>3, AheadValues DEF Weights, a
<1>8. r["enter"][Here] = 0 /\ r["main"][Here] = 0
  BY <1>3, RunningValues DEF r
<1>9. InSeq(a, queue') = InSeq(a, queue)
  BY <1>5, <1>6, <1>7
<1>10. InSeq(r, queue') = InSeq(r, queue)
  BY <1>5, <1>6, <1>8
<1> QED
  BY <1>1, <1>9, <1>10, NextSums DEF Steady, Coming, Runs, a, r

\* an operation is submitted
LEMMA RanOnce ==
    ASSUME TypeOK, flow' = flow, NEW n \in flow.nodes, NEW t \in flow.nodes,
           started' = [started EXCEPT ![n] = @ + 1], Answers' = Answers, flow.kind[n] # "end",
           flow.kind[n] # "start"
    PROVE  Ran(t)' = Ran(t) + Acts(n, t)
<1>1. started \in [flow.nodes -> Nat] /\ Answers \in Nat
  BY AnswersType DEF TypeOK
<1>2. CASE t = n
  <2>1. started'[t] = started[t] + 1
    BY <1>1, <1>2
  <2>2. Acts(n, t) = 1
    BY <1>2 DEF Acts, Is
  <2>3. Ran(t) = started[t] /\ Ran(t)' = started'[t]
    BY <1>2 DEF Ran
  <2> QED
    BY <2>1, <2>2, <2>3
<1>3. CASE t # n
  <2>1. started'[t] = started[t] /\ started[t] \in Nat
    BY <1>1, <1>3
  <2>2. Acts(n, t) = 0
    BY <1>3 DEF Acts, Is
  <2>3. Ran(t) = Ran(t)' /\ Ran(t) \in Nat
    BY <1>1, <2>1 DEF Ran
  <2> QED
    BY <2>2, <2>3
<1> QED
  BY <1>2, <1>3

LEMMA ActMoves ==
    ASSUME NEW w, NEW rank, Sound(w, rank), queue # <<>>, flow' = flow, Act(Here, Given),
           flow.kind[Here] # "end" => started[Here] = 0, NEW t \in flow.nodes
    PROVE  /\ InSeq(Ahead(flow, w, t), queue') + JobsAhead(flow, w, t, jobs') =
                InSeq(Ahead(flow, w, t), Tail(queue)) + JobsAhead(flow, w, t, jobs)
                + Onward(flow, w, t, Here)
           /\ InSeq(Running(flow, t), queue') = InSeq(Running(flow, t), Tail(queue))
           /\ Ran(t)' = Ran(t) + Acts(Here, t)
<1> DEFINE a == Ahead(flow, w, t)
           r == Running(flow, t)
           n == Here
<1>1. /\ TypeOK /\ FlowType(flow) /\ JobsInv /\ IsFiniteSet(jobs)
      /\ w \in [flow.nodes -> [flow.nodes -> Nat]]
  BY SoundParts
<1>2. /\ n \in flow.nodes /\ InSeq(a, Tail(queue)) \in Nat /\ InSeq(r, Tail(queue)) \in Nat
      /\ JobsAhead(flow, w, t, jobs) \in Nat /\ Onward(flow, w, t, n) \in Nat
      /\ Answers \in Nat /\ Ran(t) \in Nat
  BY <1>1, Taken, JobsAheadType, OnwardFacts, AnswersType, RunsParts
<1>3. ASSUME flow.kind[n] = "start", CallChildren(n, Given), UNCHANGED <<jobs, ended, started>>
      PROVE  /\ InSeq(a, queue') + JobsAhead(flow, w, t, jobs') =
                  InSeq(a, Tail(queue)) + JobsAhead(flow, w, t, jobs) + Onward(flow, w, t, n)
             /\ InSeq(r, queue') = InSeq(r, Tail(queue))
             /\ Ran(t)' = Ran(t) + Acts(n, t)
  <2>1. InSeq(a, queue') = InSeq(a, Tail(queue)) + Onward(flow, w, t, n)
    BY <1>2, <1>3, CallChildrenMoves
  <2>2. InSeq(r, queue') = InSeq(r, Tail(queue))
    BY <1>2, <1>3, CallChildrenMoves
  <2>3. Ran(t)' = Ran(t) /\ jobs' = jobs
    BY <1>3, NextSums DEF ended
  <2>4. Acts(n, t) = 0
    BY <1>3 DEF Acts
  <2> HIDE DEF a, r, n
  <2>5. InSeq(a, queue') + JobsAhead(flow, w, t, jobs') =
          InSeq(a, Tail(queue)) + JobsAhead(flow, w, t, jobs) + Onward(flow, w, t, n)
    BY <1>2, <2>1, <2>3
  <2> QED
    BY <1>2, <2>2, <2>3, <2>4, <2>5
<1>4. ASSUME flow.kind[n] \in {"operation", "async", "reference", "router"},
             jobs' = jobs \cup {Job(flow.kind[n], n, Given, <<>>)},
             started' = [started EXCEPT ![n] = @ + 1],
             queue' = Tail(queue), UNCHANGED <<heap, ended>>
      PROVE  /\ InSeq(a, queue') + JobsAhead(flow, w, t, jobs') =
                  InSeq(a, Tail(queue)) + JobsAhead(flow, w, t, jobs) + Onward(flow, w, t, n)
             /\ InSeq(r, queue') = InSeq(r, Tail(queue))
             /\ Ran(t)' = Ran(t) + Acts(n, t)
  <2> DEFINE k == Job(flow.kind[n], n, Given, <<>>)
  <2>1. k.node = n /\ k.work = flow.kind[n] /\ k.work # "routing"
    BY <1>4 DEF Job
  <2>2. started[n] = 0
    BY <1>4
  <2> HIDE DEF k
  <2>3. k \notin jobs
    <3> SUFFICES ASSUME k \in jobs PROVE FALSE
      OBVIOUS
    <3>1. started[k.node] > 0
      BY <1>1 DEF JobsInv
    <3> QED
      BY <2>1, <2>2, <3>1
  <2>4. JobAhead(flow, w, t, k) = Onward(flow, w, t, n)
    BY <2>1 DEF JobAhead
  <2>5. \A j \in jobs \cup {k} : JobAhead(flow, w, t, j) \in Nat
    BY <1>1, <1>2, <2>4, PoolJobType, JobAheadType
  <2>6. JobsAhead(flow, w, t, jobs \cup {k}) = JobsAhead(flow, w, t, jobs) + JobAhead(flow, w, t, k)
    BY <1>1, <2>3, <2>5, JobComes
  <2>7. jobs' = jobs \cup {k}
    BY <1>4 DEF k
  <2>8. Answers' = Answers
    BY <1>4, NextSums DEF ended
  <2>9. flow.kind[n] # "start" /\ flow.kind[n] # "end"
    BY <1>4
  <2>10. Ran(t)' = Ran(t) + Acts(n, t)
    BY <1>1, <1>2, <1>4, <2>8, <2>9, RanOnce
  <2>11. InSeq(r, queue') = InSeq(r, Tail(queue)) /\ InSeq(a, queue') = InSeq(a, Tail(queue))
    BY <1>4
  <2>12. JobsAhead(flow, w, t, jobs') = JobsAhead(flow, w, t, jobs) + Onward(flow, w, t, n)
    BY <2>4, <2>6, <2>7
  <2> HIDE DEF a, r, n
  <2>13. InSeq(a, queue') + JobsAhead(flow, w, t, jobs') =
          InSeq(a, Tail(queue)) + JobsAhead(flow, w, t, jobs) + Onward(flow, w, t, n)
    BY <1>2, <2>11, <2>12
  <2> QED
    BY <2>10, <2>11, <2>13
<1>5. ASSUME flow.kind[n] = "end", Finish("ok", "completed", heap[Given.at]),
             queue' = Tail(queue), UNCHANGED <<jobs, heap, started>>
      PROVE  /\ InSeq(a, queue') + JobsAhead(flow, w, t, jobs') =
                  InSeq(a, Tail(queue)) + JobsAhead(flow, w, t, jobs) + Onward(flow, w, t, n)
             /\ InSeq(r, queue') = InSeq(r, Tail(queue))
             /\ Ran(t)' = Ran(t) + Acts(n, t)
  <2>1. Answers' = Answers + 1
    BY <1>1, <1>5, FinishAnswers
  <2>2. Onward(flow, w, t, n) = 0
    <3>1. flow.children[n] = <<>>
      BY <1>2, <1>5, SoundParts DEF WellFormedBy, Balanced, OneEnd, Ends
    <3> QED
      BY <1>1, <1>2, <3>1, OnwardFacts
  <2>3. flow.kind[t] = "end" => t = n
    BY <1>2, <1>5, SoundParts DEF WellFormedBy, Balanced, OneEnd, Ends
  <2>4. Ran(t)' = Ran(t) + Acts(n, t)
    <3>1. CASE t = n
      BY <1>2, <1>5, <2>1, <3>1 DEF Ran, Acts, Is
    <3>2. CASE t # n
      <4>1. Ran(t)' = Ran(t)
        BY <1>5, <2>3, <3>2 DEF Ran
      <4>2. Acts(n, t) = 0
        BY <3>2 DEF Acts, Is
      <4> HIDE DEF n
      <4> QED
        BY <1>2, <4>1, <4>2
    <3> QED
      BY <3>1, <3>2
  <2>5. InSeq(r, queue') = InSeq(r, Tail(queue)) /\ InSeq(a, queue') = InSeq(a, Tail(queue))
    BY <1>5
  <2> HIDE DEF a, r, n
  <2>6. InSeq(a, queue') + JobsAhead(flow, w, t, jobs') =
          InSeq(a, Tail(queue)) + JobsAhead(flow, w, t, jobs) + Onward(flow, w, t, n)
    BY <1>2, <1>5, <2>2, <2>5
  <2> QED
    BY <2>4, <2>5, <2>6
<1> QED
  BY <1>3, <1>4, <1>5 DEF Act
=============================================================================
