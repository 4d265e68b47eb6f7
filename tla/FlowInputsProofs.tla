-------------------------- MODULE FlowInputsProofs --------------------------
(***************************************************************************)
(* What holds of every run of every well-formed flow: no input is counted   *)
(* twice, the end runs last and exactly once, and the run keeps             *)
(* FlowContract.  At a join or at the end what is still to count is what is *)
(* still to come (Slack is 0), and elsewhere it is no less (Sound); every   *)
(* action keeps that (Keeps), except a fault in the pool, which loses what  *)
(* the branch would have brought (Loses).                                   *)
(*                                                                         *)
(* The second half is about the data: the branches of a run keep apart.     *)
(***************************************************************************)
EXTENDS FlowRuntimeProofs

-----------------------------------------------------------------------------
(* A step loses no input, and at a join or at the end it gains none.         *)

\* an input that was counted at t and the runs it led to are where they were
Keeps(w, t) ==
    /\ Slack(w, t)' >= Slack(w, t)
    /\ t \in Gathers(flow) => Slack(w, t)' = Slack(w, t)
    /\ t \in Joins(flow) => /\ Decisions(t)' <= Decisions(t)
                            /\ flow.kind[t] = "end" => Decisions(t)' = Decisions(t)

LEMMA SlackHere ==
    ASSUME NEW w, NEW rank, Sound(w, rank), NEW t \in flow.nodes
    PROVE  /\ Slack(w, t) >= 0 /\ Slack(w, t) \in Int
           /\ Coming(w, t) \in Nat /\ Runs(t) \in Nat /\ remaining[t] \in Int
           /\ ToDecide(t) \in Nat /\ ToDecide(t) <= 1
           /\ (flow.kind[t] # "end" => started[t] <= Runs(t))
           /\ (t \in Joins(flow) => Coming(w, t) <= remaining[t])
           /\ (t \notin Joins(flow) => Runs(t) + Coming(w, t) <= 1)
           /\ (t \in Joins(flow) => Runs(t) + ToDecide(t) <= 1)
<1>1. TypeOK /\ Coming(w, t) \in Nat /\ Runs(t) \in Nat
  BY SoundParts, ComingParts, RunsParts
<1>2. Slack(w, t) >= 0 /\ (t \in Joins(flow) => Runs(t) + ToDecide(t) <= 1)
  BY DEF Sound, Counted, Decisions
<1>3. flow.kind[t] # "end" => started[t] <= Runs(t)
  <2>1. ASSUME flow.kind[t] # "end" PROVE started[t] <= Runs(t)
    <3>1. Ran(t) = started[t]
      BY <2>1 DEF Ran
    <3>2. Ran(t) \in Nat
      BY <1>1, RunsParts
    <3>3. InSeq(Running(flow, t), queue) \in Nat /\ InSeq(Running(flow, t), calls) \in Nat
      BY <1>1, RunsParts
    <3> QED
      BY <3>1, <3>2, <3>3 DEF Runs
  <2> QED
    BY <2>1
<1>4. remaining[t] \in Int
  BY <1>1 DEF TypeOK
<1>5. t \in Joins(flow) => Coming(w, t) <= remaining[t]
  BY <1>1, <1>2, <1>4 DEF Slack
<1>6. t \notin Joins(flow) => Runs(t) + Coming(w, t) <= 1
  BY <1>1, <1>2 DEF Slack
<1>7. ToDecide(t) \in Nat /\ ToDecide(t) <= 1
  BY DEF ToDecide
<1>8. Slack(w, t) \in Int
  BY <1>1, <1>4 DEF Slack
<1> QED
  BY <1>1, <1>2, <1>3, <1>4, <1>5, <1>6, <1>7, <1>8

LEMMA SteadyKeeps ==
    ASSUME NEW w, NEW rank, Sound(w, rank), NEW t \in flow.nodes, flow' = flow,
           UNCHANGED <<remaining, lifecycle>>, Steady(w, t)
    PROVE  Keeps(w, t)
<1>1. Slack(w, t)' = Slack(w, t)
  BY DEF Slack, Steady
<1>2. Decisions(t)' = Decisions(t)
  BY DEF Decisions, ToDecide, Undecided, Steady
<1>3. Slack(w, t) \in Int /\ Decisions(t) \in Int
  BY SlackHere DEF Decisions
<1> QED
  BY <1>1, <1>2, <1>3 DEF Keeps

\* one input of a node that is no join goes on
LEMMA InputKeeps ==
    ASSUME NEW w, NEW rank, Sound(w, rank), NEW t \in flow.nodes, flow' = flow,
           UNCHANGED <<remaining, lifecycle>>, NEW n \in flow.nodes, n \notin Joins(flow),
           NEW x \in Nat, x <= Is(n, t), flow.kind[n] = "end" => x = Is(n, t),
           Runs(t)' = Runs(t) + x, NEW c \in Nat, Coming(w, t)' = c,
           c + Is(n, t) <= Coming(w, t),
           t \in Gathers(flow) => c + Is(n, t) = Coming(w, t)
    PROVE  Keeps(w, t)
<1>1. Coming(w, t) \in Nat /\ Runs(t) \in Nat /\ remaining[t] \in Int /\ ToDecide(t) \in Nat
  BY SlackHere
<1>2. Is(n, t) \in Nat /\ (n # t => Is(n, t) = 0)
  BY IsType
<1>3. ToDecide(t)' = ToDecide(t)
  BY DEF ToDecide, Undecided
<1>4. CASE t \in Joins(flow)
  <2>1. Is(n, t) = 0 /\ x = 0
    BY <1>2, <1>4
  <2>2. Slack(w, t) = remaining[t] - Coming(w, t) /\ Slack(w, t)' = remaining[t] - c
    BY <1>4 DEF Slack
  <2>3. Decisions(t)' = Decisions(t) /\ Decisions(t) \in Nat
    BY <1>1, <1>3, <2>1 DEF Decisions
  <2>4. t \in Gathers(flow)
    BY <1>4 DEF Gathers
  <2>5. Slack(w, t)' = Slack(w, t) /\ Slack(w, t) \in Int
    BY <1>1, <2>1, <2>2, <2>4
  <2> QED
    BY <2>3, <2>5 DEF Keeps
<1>5. CASE t \notin Joins(flow)
  <2>1. Slack(w, t) = (1 - Runs(t)) - Coming(w, t) /\ Slack(w, t)' = (1 - (Runs(t) + x)) - c
    BY <1>5 DEF Slack
  <2>2. Slack(w, t)' >= Slack(w, t)
    BY <1>1, <1>2, <2>1
  <2>3. ASSUME t \in Gathers(flow) PROVE Slack(w, t)' = Slack(w, t)
    <3>1. flow.kind[t] = "end"
      BY <1>5, <2>3 DEF Gathers, Ends
    <3>2. x = Is(n, t)
      BY <1>2, <3>1
    <3> QED
      BY <1>1, <1>2, <2>1, <2>3, <3>2
  <2> QED
    BY <1>5, <2>2, <2>3 DEF Keeps
<1> QED
  BY <1>4, <1>5

\* what goes on from a node
LEMMA PathsOn ==
    ASSUME NEW w, NEW rank, Sound(w, rank), NEW t \in flow.nodes, NEW n \in flow.nodes
    PROVE  /\ w[t][n] \in Nat /\ Onward(flow, w, t, n) \in Nat
           /\ (n \notin Joins(flow) => w[t][n] = Onward(flow, w, t, n) + Is(n, t))
           /\ (n \in Joins(flow) => w[t][n] = Is(n, t))
<1>1. FlowType(flow) /\ WellFormedBy(flow, w, rank) /\ w \in [flow.nodes -> [flow.nodes -> Nat]]
  BY SoundParts
<1>2. w[t][n] \in Nat /\ Onward(flow, w, t, n) \in Nat
  BY <1>1, OnwardFacts
<1>3. CASE t = n
  <2>1. w[t][n] = 1 /\ Onward(flow, w, t, n) = 0
    BY <1>1, <1>3, PathHere
  <2>2. Is(n, t) = 1
    BY <1>3 DEF Is
  <2> QED
    BY <1>2, <2>1, <2>2
<1>4. CASE t # n
  <2>1. w[t][n] = IF n \in Joins(flow) THEN 0 ELSE Onward(flow, w, t, n)
    BY <1>1, <1>4 DEF WellFormedBy, Balanced, ArePaths
  <2>2. Is(n, t) = 0
    BY <1>4 DEF Is
  <2> QED
    BY <1>2, <2>1, <2>2
<1> QED
  BY <1>3, <1>4

LEMMA MainKeeps ==
    ASSUME NEW w, NEW rank, Sound(w, rank), Main
    PROVE  /\ Here \in flow.nodes \ Joins(flow)
           /\ started[Here] = 0 \/ flow.kind[Here] = "end"
           /\ \A t \in flow.nodes : Keeps(w, t)
<1> DEFINE n == Here
<1>1. /\ queue # <<>> /\ Head(queue).what = "main" /\ flow' = flow /\ Act(n, Given)
      /\ UNCHANGED <<calls, remaining, lifecycle>>
  BY DEF Main, Taking, joins
<1>2. TypeOK /\ WellFormedBy(flow, w, rank) /\ w \in [flow.nodes -> [flow.nodes -> Nat]] /\ FlowType(flow)
  BY SoundParts
<1>3. n \in flow.nodes /\ n \notin Joins(flow)
  <2>1. ~Stateful(n)
    BY DEF Main
  <2> QED
    BY <1>1, <1>2, <2>1, TakenType DEF Stateful, Joins
<1>4. \A t \in flow.nodes :
        /\ InSeq(Ahead(flow, w, t), queue) = w[t][n] + InSeq(Ahead(flow, w, t), Tail(queue))
        /\ InSeq(Ahead(flow, w, t), Tail(queue)) \in Nat /\ w[t][n] \in Nat
  <2> TAKE t \in flow.nodes
  <2>1. InSeq(Ahead(flow, w, t), queue) =
          Ahead(flow, w, t)["main"][n] + InSeq(Ahead(flow, w, t), Tail(queue))
    BY <1>1, Taken
  <2>2. Ahead(flow, w, t)["main"][n] = w[t][n]
    BY <1>3, AheadValues
  <2>3. w[t][n] \in Nat /\ InSeq(Ahead(flow, w, t), Tail(queue)) \in Nat
    BY <1>1, <1>3, PathsOn, Taken
  <2> QED
    BY <2>1, <2>2, <2>3
<1> HIDE DEF n
<1>5. Coming(w, n) >= 1
  <2>1. w[n][n] = 1
    BY <1>2, <1>3, PathHere
  <2>2. /\ InSeq(Ahead(flow, w, n), calls) \in Nat /\ JobsAhead(flow, w, n, jobs) \in Nat
        /\ JoinsAhead(flow, w, n, Undecided) \in Nat
    BY <1>3, ComingParts
  <2>3. InSeq(Ahead(flow, w, n), queue) >= 1 /\ InSeq(Ahead(flow, w, n), queue) \in Nat
    BY <1>3, <1>4, <2>1
  <2> QED
    BY <2>2, <2>3 DEF Coming
<1>6. flow.kind[n] # "end" => started[n] = 0
  <2>1. started[n] \in Nat
    BY <1>2, <1>3 DEF TypeOK
  <2>2. Runs(n) + Coming(w, n) <= 1 /\ Runs(n) \in Nat /\ Coming(w, n) \in Nat
    BY <1>3, SlackHere
  <2>3. flow.kind[n] # "end" => started[n] <= Runs(n)
    BY <1>3, SlackHere
  <2> QED
    BY <1>5, <2>1, <2>2, <2>3
<1>7. ASSUME NEW t \in flow.nodes PROVE Keeps(w, t)
  <2> DEFINE a == Ahead(flow, w, t)
             r == Running(flow, t)
  <2>1. /\ InSeq(a, queue') + JobsAhead(flow, w, t, jobs') =
             InSeq(a, Tail(queue)) + JobsAhead(flow, w, t, jobs) + Onward(flow, w, t, n)
        /\ InSeq(r, queue') = InSeq(r, Tail(queue))
        /\ Ran(t)' = Ran(t) + Acts(n, t)
    BY <1>1, <1>6, ActMoves DEF n
  <2>2. InSeq(r, queue) = InSeq(r, Tail(queue))
    <3>1. InSeq(r, queue) = r["main"][n] + InSeq(r, Tail(queue)) /\ InSeq(r, Tail(queue)) \in Nat
      BY <1>1, Taken DEF n
    <3>2. r["main"][n] = 0
      BY <1>3, RunningValues
    <3> HIDE DEF r
    <3> QED
      BY <3>1, <3>2
  <2>3. w[t][n] = Onward(flow, w, t, n) + Is(n, t) /\ Onward(flow, w, t, n) \in Nat
    BY <1>3, PathsOn
  <2>4. /\ Coming(w, t)' = InSeq(a, queue') + JobsAhead(flow, w, t, jobs') + InSeq(a, calls)
                           + JoinsAhead(flow, w, t, Undecided)
        /\ Runs(t)' = InSeq(r, queue') + InSeq(r, calls) + Ran(t)'
    BY <1>1, NextSums
  <2>5. /\ InSeq(a, queue) \in Nat /\ InSeq(a, calls) \in Nat /\ JobsAhead(flow, w, t, jobs) \in Nat
        /\ JoinsAhead(flow, w, t, Undecided) \in Nat /\ Coming(w, t) \in Nat
    BY ComingParts
  <2>6. InSeq(r, queue) \in Nat /\ InSeq(r, calls) \in Nat /\ Ran(t) \in Nat
    BY <1>2, RunsParts
  <2>7. InSeq(a, queue) = w[t][n] + InSeq(a, Tail(queue)) /\ InSeq(a, Tail(queue)) \in Nat
    BY <1>4
  <2>8. /\ Is(n, t) \in Nat /\ Acts(n, t) \in Nat /\ Acts(n, t) <= Is(n, t)
        /\ (flow.kind[n] = "end" => Acts(n, t) = Is(n, t))
    BY IsType
  <2> HIDE DEF a, r
  <2>9. Coming(w, t) = InSeq(a, queue) + JobsAhead(flow, w, t, jobs) + InSeq(a, calls)
                        + JoinsAhead(flow, w, t, Undecided)
    BY DEF Coming, a
  <2>10. Runs(t) = InSeq(r, queue) + InSeq(r, calls) + Ran(t)
    BY DEF Runs, r
  <2>11. Runs(t)' = Runs(t) + Acts(n, t)
    BY <2>1, <2>2, <2>4, <2>6, <2>8, <2>10
  <2> DEFINE c == InSeq(a, Tail(queue)) + Onward(flow, w, t, n) + InSeq(a, calls)
                  + JobsAhead(flow, w, t, jobs) + JoinsAhead(flow, w, t, Undecided)
  <2>12. c \in Nat
    BY <2>3, <2>5, <2>7
  <2>13. c + Is(n, t) = Coming(w, t)
    BY <2>3, <2>5, <2>7, <2>8, <2>9
  <2>14. Coming(w, t)' = c
    BY <2>1, <2>3, <2>4, <2>5, <2>7
  <2> HIDE DEF c
  <2> QED
    BY <1>1, <1>3, <2>8, <2>11, <2>12, <2>13, <2>14, InputKeeps
<1> QED
  BY <1>3, <1>6, <1>7 DEF n

\* a task or a call with the input of n that is on its way
LEMMA InputComing ==
    ASSUME NEW w, NEW rank, Sound(w, rank), NEW n \in flow.nodes,
           \/ queue # <<>> /\ Head(queue).what = "main" /\ Here = n
           \/ calls # <<>> /\ Head(calls).what = "halted" /\ Head(calls).node = n
    PROVE  Coming(w, n) >= 1
<1> DEFINE a == Ahead(flow, w, n)
<1>1. FlowType(flow) /\ WellFormedBy(flow, w, rank)
  BY SoundParts
<1>2. w[n][n] = 1
  BY <1>1, PathHere
<1>3. /\ InSeq(a, calls) \in Nat /\ JobsAhead(flow, w, n, jobs) \in Nat
      /\ InSeq(a, queue) \in Nat /\ JoinsAhead(flow, w, n, Undecided) \in Nat
  BY ComingParts
<1>4. a["main"][n] = 1 /\ a["halted"][n] = 1
  BY <1>2, AheadValues
<1>5. ASSUME queue # <<>>, Head(queue).what = "main", Here = n PROVE InSeq(a, queue) >= 1
  <2>1. InSeq(a, queue) = a["main"][n] + InSeq(a, Tail(queue)) /\ InSeq(a, Tail(queue)) \in Nat
    BY <1>5, Taken
  <2> HIDE DEF a
  <2> QED
    BY <1>4, <2>1
<1>6. ASSUME calls # <<>>, Head(calls).what = "halted", Head(calls).node = n
      PROVE  InSeq(a, calls) >= 1
  <2>1. InSeq(a, calls) = a["halted"][n] + InSeq(a, Tail(calls)) /\ InSeq(a, Tail(calls)) \in Nat
    BY <1>6, Called
  <2> HIDE DEF a
  <2> QED
    BY <1>4, <2>1
<1>7. Coming(w, n) = InSeq(a, queue) + JobsAhead(flow, w, n, jobs) + InSeq(a, calls)
                     + JoinsAhead(flow, w, n, Undecided)
  BY DEF Coming
<1>8. InSeq(a, queue) >= 1 \/ InSeq(a, calls) >= 1
  BY <1>5, <1>6
<1> HIDE DEF a
<1> QED
  BY <1>3, <1>7, <1>8

LEMMA RunKeeps ==
    ASSUME NEW w, NEW rank, Sound(w, rank), Run
    PROVE  /\ Here \in flow.nodes
           /\ started[Here] = 0 \/ flow.kind[Here] = "end"
           /\ \A t \in flow.nodes : Keeps(w, t)
<1> DEFINE n == Here
<1>1. /\ queue # <<>> /\ Head(queue).what = "run" /\ flow' = flow /\ Act(n, Given)
      /\ UNCHANGED <<calls, remaining, lifecycle>>
  BY DEF Run, Taking, joins
<1>2. TypeOK
  BY SoundParts
<1>3. n \in flow.nodes
  BY <1>1, <1>2, TakenType
<1>4. \A t \in flow.nodes :
        /\ InSeq(Running(flow, t), queue) = Is(n, t) + InSeq(Running(flow, t), Tail(queue))
        /\ InSeq(Running(flow, t), Tail(queue)) \in Nat
  <2> TAKE t \in flow.nodes
  <2>1. InSeq(Running(flow, t), queue) =
          Running(flow, t)["run"][n] + InSeq(Running(flow, t), Tail(queue))
    BY <1>1, Taken
  <2>2. Running(flow, t)["run"][n] = Is(n, t)
    BY <1>3, RunningValues
  <2>3. InSeq(Running(flow, t), Tail(queue)) \in Nat
    BY <1>1, Taken
  <2> QED
    BY <2>1, <2>2, <2>3
<1> HIDE DEF n
<1>5. flow.kind[n] # "end" => started[n] = 0
  <2>1. ASSUME flow.kind[n] # "end" PROVE started[n] = 0
    <3>1. started[n] \in Nat /\ Ran(n) = started[n]
      BY <1>2, <1>3, <2>1 DEF TypeOK, Ran
    <3>2. Runs(n) <= 1
      BY <1>3, SlackHere
    <3>3. Is(n, n) = 1
      BY IsType
    <3>4. InSeq(Running(flow, n), calls) \in Nat /\ InSeq(Running(flow, n), queue) \in Nat
      BY <1>2, <1>3, RunsParts
    <3>5. InSeq(Running(flow, n), queue) >= 1
      BY <1>3, <1>4, <3>3, <3>4
    <3> QED
      BY <3>1, <3>2, <3>4, <3>5 DEF Runs
  <2> QED
    BY <2>1
<1>6. ASSUME NEW t \in flow.nodes PROVE Keeps(w, t)
  <2> DEFINE a == Ahead(flow, w, t)
             r == Running(flow, t)
  <2>1. /\ InSeq(a, queue') + JobsAhead(flow, w, t, jobs') =
             InSeq(a, Tail(queue)) + JobsAhead(flow, w, t, jobs) + Onward(flow, w, t, n)
        /\ InSeq(r, queue') = InSeq(r, Tail(queue))
        /\ Ran(t)' = Ran(t) + Acts(n, t)
    BY <1>1, <1>5, ActMoves DEF n
  <2>2. InSeq(a, queue) = Onward(flow, w, t, n) + InSeq(a, Tail(queue))
    <3>1. InSeq(a, queue) = a["run"][n] + InSeq(a, Tail(queue))
      BY <1>1, Taken DEF n
    <3>2. a["run"][n] = Onward(flow, w, t, n)
      BY <1>3, AheadValues
    <3> HIDE DEF a
    <3> QED
      BY <3>1, <3>2
  <2>3. Onward(flow, w, t, n) \in Nat /\ InSeq(a, Tail(queue)) \in Nat
    BY <1>1, <1>3, PathsOn, Taken
  <2>4. /\ Coming(w, t)' = InSeq(a, queue') + JobsAhead(flow, w, t, jobs') + InSeq(a, calls)
                           + JoinsAhead(flow, w, t, Undecided)
        /\ Runs(t)' = InSeq(r, queue') + InSeq(r, calls) + Ran(t)'
    BY <1>1, NextSums
  <2>5. /\ InSeq(a, queue) \in Nat /\ InSeq(a, calls) \in Nat /\ JobsAhead(flow, w, t, jobs) \in Nat
        /\ JoinsAhead(flow, w, t, Undecided) \in Nat /\ Coming(w, t) \in Nat
    BY ComingParts
  <2>6. InSeq(r, queue) \in Nat /\ InSeq(r, calls) \in Nat /\ Ran(t) \in Nat /\ Runs(t) \in Nat
    BY <1>2, RunsParts
  <2>7. InSeq(r, queue) = Is(n, t) + InSeq(r, Tail(queue)) /\ InSeq(r, Tail(queue)) \in Nat
    BY <1>4
  <2>8. Is(n, t) \in Nat /\ Acts(n, t) \in Nat /\ Acts(n, t) <= Is(n, t) /\ (n # t => Is(n, t) = 0)
    BY IsType
  <2>9. Acts(n, t) = Is(n, t) \/ flow.kind[n] = "start"
    BY DEF Acts
  <2> HIDE DEF a, r
  <2>10. Coming(w, t) = InSeq(a, queue) + JobsAhead(flow, w, t, jobs) + InSeq(a, calls)
                        + JoinsAhead(flow, w, t, Undecided)
    BY DEF Coming, a
  <2>11. Runs(t) = InSeq(r, queue) + InSeq(r, calls) + Ran(t)
    BY DEF Runs, r
  <2>12. Coming(w, t)' = Coming(w, t)
    BY <2>1, <2>2, <2>3, <2>4, <2>5, <2>10
  <2>13. Runs(t)' + Is(n, t) = Runs(t) + Acts(n, t) /\ Runs(t)' \in Nat
    BY <2>1, <2>4, <2>6, <2>7, <2>8, <2>11
  <2>14. remaining'[t] = remaining[t] /\ remaining[t] \in Int
    BY <1>1, <1>2 DEF TypeOK
  <2>15. ToDecide(t)' = ToDecide(t) /\ ToDecide(t) \in Nat
    BY <1>1, SlackHere DEF ToDecide, Undecided
  <2>16. Slack(w, t)' = (IF t \in Joins(flow) THEN remaining[t] ELSE 1 - Runs(t)') - Coming(w, t)
    BY <1>1, <2>12, <2>14 DEF Slack
  <2>17. Runs(t)' <= Runs(t) /\ (flow.kind[t] = "end" => Runs(t)' = Runs(t))
    <3>1. Runs(t)' <= Runs(t)
      BY <2>6, <2>8, <2>13
    <3>2. ASSUME flow.kind[t] = "end" PROVE Runs(t)' = Runs(t)
      <4>1. Acts(n, t) = Is(n, t)
        BY <2>8, <2>9, <3>2
      <4> QED
        BY <2>6, <2>8, <2>13, <4>1
    <3> QED
      BY <3>1, <3>2
  <2>18. Slack(w, t)' >= Slack(w, t) /\ (t \in Gathers(flow) => Slack(w, t)' = Slack(w, t))
    <3>1. Slack(w, t) = (IF t \in Joins(flow) THEN remaining[t] ELSE 1 - Runs(t)) - Coming(w, t)
      BY DEF Slack
    <3>2. CASE t \in Joins(flow)
      BY <2>5, <2>14, <2>16, <3>1, <3>2
    <3>3. CASE t \notin Joins(flow)
      <4>1. t \in Gathers(flow) => flow.kind[t] = "end"
        BY <3>3 DEF Gathers, Ends
      <4> QED
        BY <2>5, <2>6, <2>13, <2>16, <2>17, <3>1, <3>3, <4>1
    <3> QED
      BY <3>2, <3>3
  <2>19. Decisions(t)' <= Decisions(t) /\ (flow.kind[t] = "end" => Decisions(t)' = Decisions(t))
    BY <2>6, <2>13, <2>15, <2>17 DEF Decisions
  <2> QED
    BY <2>18, <2>19 DEF Keeps
<1> QED
  BY <1>3, <1>5, <1>6 DEF n

\* the StatefulControl lets the node run
LEMMA MergeMoves ==
    ASSUME NEW w, NEW rank, Sound(w, rank), NEW t \in flow.nodes, NEW n \in flow.nodes,
           NEW data, NEW rest \in Seq(Tasks), Merge(n, data, rest)
    PROVE  /\ InSeq(Ahead(flow, w, t), queue') = InSeq(Ahead(flow, w, t), rest) + Onward(flow, w, t, n)
           /\ InSeq(Running(flow, t), queue') = InSeq(Running(flow, t), rest) + Is(n, t)
<1> DEFINE a == Ahead(flow, w, t)
           r == Running(flow, t)
           d == Ref(data[1].at, UNION { data[i].meant : i \in DOMAIN data })
<1>1. a \in Weights(flow) /\ r \in Weights(flow) /\ "run" \in Whats
  BY SoundParts, AheadType, RunningType, WhatsAre
<1>2. queue' = Append(rest, Task("run", n, d))
  BY DEF Merge
<1>3. a["run"][n] = Onward(flow, w, t, n) /\ r["run"][n] = Is(n, t)
  BY AheadValues, RunningValues
<1> HIDE DEF a, r, d
<1>4. InSeq(a, queue') = InSeq(a, rest) + a["run"][n]
  BY <1>1, <1>2, PostSum
<1>5. InSeq(r, queue') = InSeq(r, rest) + r["run"][n]
  BY <1>1, <1>2, PostSum
<1> QED
  BY <1>3, <1>4, <1>5 DEF a, r

\* DefaultNodeState.decrement of a join that still gets an input
LEMMA DecideMoves ==
    ASSUME NEW w, NEW rank, Sound(w, rank), NEW t \in flow.nodes, NEW n \in Joins(flow),
           Coming(w, n) >= 1, flow' = flow, NEW data, Decrement(n, data)
    PROVE  /\ n \in flow.nodes /\ remaining'[t] = remaining[t] - Is(n, t)
           /\ remaining[n] # 1 => /\ lifecycle'[n] = "WAITING"
                                  /\ Undecided' = Undecided /\ ToDecide(t)' = ToDecide(t)
           /\ remaining[n] = 1 => /\ lifecycle'[n] = IF data # <<>> THEN "ACTIVE" ELSE "INACTIVE"
                                  /\ Undecided' = Undecided \ {n}
                                  /\ ToDecide(t)' + Is(n, t) = ToDecide(t)
           /\ JoinsAhead(flow, w, t, Undecided) =
                JoinsAhead(flow, w, t, Undecided \ {n}) + Onward(flow, w, t, n)
           /\ JoinsAhead(flow, w, t, Undecided \ {n}) \in Nat
<1>1. /\ TypeOK /\ JoinInv /\ FlowType(flow) /\ w \in [flow.nodes -> [flow.nodes -> Nat]]
      /\ IsFiniteSet(Undecided) /\ Undecided \subseteq flow.nodes
  BY SoundParts
<1>2. /\ remaining \in [flow.nodes -> Int]
      /\ lifecycle \in [flow.nodes -> {"WAITING", "ACTIVE", "INACTIVE"}]
  BY <1>1 DEF TypeOK
<1>3. n \in flow.nodes /\ Stateful(n)
  BY DEF Joins, Stateful
<1>4. remaining[n] >= 1
  <2>1. Coming(w, n) <= remaining[n] /\ Coming(w, n) \in Nat /\ remaining[n] \in Int
    BY <1>3, SlackHere
  <2> QED
    BY <2>1
<1>5. lifecycle[n] = "WAITING"
  BY <1>1, <1>2, <1>3, <1>4 DEF JoinInv
<1>6. n \in Undecided
  BY <1>5 DEF Undecided
<1>7. remaining' = [remaining EXCEPT ![n] = @ - 1]
  BY DEF Decrement
<1>8. remaining'[t] = remaining[t] - Is(n, t)
  BY <1>2, <1>3, <1>7 DEF Is
<1>9. ASSUME remaining[n] # 1
      PROVE  lifecycle'[n] = "WAITING" /\ Undecided' = Undecided /\ ToDecide(t)' = ToDecide(t)
  <2>1. lifecycle' = lifecycle
    BY <1>9 DEF Decrement
  <2> QED
    BY <1>5, <2>1 DEF Undecided, ToDecide
<1>10. ASSUME remaining[n] = 1
       PROVE  /\ lifecycle'[n] = IF data # <<>> THEN "ACTIVE" ELSE "INACTIVE"
              /\ Undecided' = Undecided \ {n}
              /\ ToDecide(t)' + Is(n, t) = ToDecide(t)
  <2> DEFINE outcome == IF data # <<>> THEN "ACTIVE" ELSE "INACTIVE"
  <2>1. lifecycle' = [lifecycle EXCEPT ![n] = outcome]
    BY <1>10 DEF Decrement
  <2>2. outcome # "WAITING"
    OBVIOUS
  <2> HIDE DEF outcome
  <2>3. lifecycle'[n] = outcome /\ \A m \in flow.nodes : m # n => lifecycle'[m] = lifecycle[m]
    BY <1>2, <1>3, <2>1
  <2>4. Undecided' = Undecided \ {n}
    BY <2>2, <2>3 DEF Undecided, Joins
  <2>5. ToDecide(t)' + Is(n, t) = ToDecide(t)
    BY <1>6, <2>4 DEF ToDecide, Is
  <2> QED
    BY <2>3, <2>4, <2>5 DEF outcome
<1>11. JoinsAhead(flow, w, t, Undecided) =
         JoinsAhead(flow, w, t, Undecided \ {n}) + Onward(flow, w, t, n)
  BY <1>1, <1>6, JoinDecides
<1>12. JoinsAhead(flow, w, t, Undecided \ {n}) \in Nat
  <2> DEFINE N == Undecided \ {n}
  <2>1. IsFiniteSet(N) /\ N \subseteq flow.nodes
    BY <1>1, FS_Subset
  <2> HIDE DEF N
  <2>2. JoinsAhead(flow, w, t, N) \in Nat
    BY <1>1, <2>1, JoinDecides
  <2> QED
    BY <2>2 DEF N
<1> QED
  BY <1>3, <1>8, <1>9, <1>10, <1>11, <1>12

\* one input of a join is counted
LEMMA CountKeeps ==
    ASSUME NEW w, NEW rank, Sound(w, rank), NEW t \in flow.nodes, flow' = flow,
           NEW n \in Joins(flow), remaining'[t] = remaining[t] - Is(n, t),
           NEW x \in Nat, Runs(t)' = Runs(t) + x, x <= Is(n, t),
           NEW y \in Nat, ToDecide(t)' = y, x + y <= ToDecide(t),
           flow.kind[t] = "end" => x + y = ToDecide(t),
           NEW c \in Nat, Coming(w, t)' = c, c + Is(n, t) <= Coming(w, t),
           t \in Gathers(flow) => c + Is(n, t) = Coming(w, t)
    PROVE  Keeps(w, t)
<1>1. Coming(w, t) \in Nat /\ Runs(t) \in Nat /\ remaining[t] \in Int /\ ToDecide(t) \in Nat
  BY SlackHere
<1>2. Is(n, t) \in Nat /\ (n # t => Is(n, t) = 0)
  BY IsType
<1>3. Slack(w, t) = (IF t \in Joins(flow) THEN remaining[t] ELSE 1 - Runs(t)) - Coming(w, t)
  BY DEF Slack
<1>4. Slack(w, t)' = (IF t \in Joins(flow) THEN remaining[t] - Is(n, t) ELSE 1 - (Runs(t) + x)) - c
  BY DEF Slack
<1>5. Slack(w, t)' >= Slack(w, t) /\ (t \in Gathers(flow) => Slack(w, t)' = Slack(w, t))
  <2>1. CASE t \in Joins(flow)
    BY <1>1, <1>2, <1>3, <1>4, <2>1
  <2>2. CASE t \notin Joins(flow)
    <3>1. Is(n, t) = 0 /\ x = 0
      BY <1>2, <2>2
    <3> QED
      BY <1>1, <1>3, <1>4, <2>2, <3>1
  <2> QED
    BY <2>1, <2>2
<1>6. Decisions(t) = Runs(t) + ToDecide(t) /\ Decisions(t)' = (Runs(t) + x) + y
  BY DEF Decisions
<1>7. Decisions(t)' <= Decisions(t) /\ (flow.kind[t] = "end" => Decisions(t)' = Decisions(t))
  BY <1>1, <1>6
<1> QED
  BY <1>5, <1>7 DEF Keeps

LEMMA ArriveKeeps ==
    ASSUME NEW w, NEW rank, Sound(w, rank), Arrive, NEW t \in flow.nodes
    PROVE  Keeps(w, t)
<1> DEFINE n == Here
           data == Append(arrived[n], Given)
           a == Ahead(flow, w, t)
           r == Running(flow, t)
<1>1. /\ queue # <<>> /\ Head(queue).what = "main" /\ flow' = flow
      /\ UNCHANGED <<calls, jobs, outcomes, started>>
      /\ Decrement(n, data)
      /\ IF lifecycle'[n] = "ACTIVE" THEN Merge(n, data, Tail(queue)) ELSE queue' = Tail(queue)
  BY DEF Arrive, Taking, ended
<1>2. TypeOK
  BY SoundParts
<1>3. n \in flow.nodes /\ n \in Joins(flow) /\ Tail(queue) \in Seq(Tasks)
  <2>1. Stateful(n)
    BY DEF Arrive
  <2> QED
    BY <1>1, <1>2, <2>1, TakenType DEF Stateful, Joins
<1>4. data # <<>>
  <2>1. arrived[n] \in Seq(Refs)
    BY <1>2, <1>3 DEF TypeOK
  <2> QED
    BY <2>1
<1>5. Coming(w, n) >= 1
  BY <1>1, <1>3, InputComing
<1> HIDE DEF data, n
<1>6. InSeq(a, queue) = Is(n, t) + InSeq(a, Tail(queue)) /\ InSeq(a, Tail(queue)) \in Nat
  <2>1. InSeq(a, queue) = a["main"][n] + InSeq(a, Tail(queue)) /\ InSeq(a, Tail(queue)) \in Nat
    BY <1>1, Taken DEF n
  <2>2. a["main"][n] = w[t][n]
    BY <1>3, AheadValues
  <2>3. w[t][n] = Is(n, t)
    BY <1>3, PathsOn
  <2> HIDE DEF a
  <2> QED
    BY <2>1, <2>2, <2>3
<1>7. InSeq(r, queue) = InSeq(r, Tail(queue)) /\ InSeq(r, Tail(queue)) \in Nat
  <2>1. InSeq(r, queue) = r["main"][n] + InSeq(r, Tail(queue)) /\ InSeq(r, Tail(queue)) \in Nat
    BY <1>1, Taken DEF n
  <2>2. r["main"][n] = 0
    BY <1>3, RunningValues
  <2> HIDE DEF r
  <2> QED
    BY <2>1, <2>2
<1>8. /\ remaining'[t] = remaining[t] - Is(n, t)
      /\ JoinsAhead(flow, w, t, Undecided) =
           JoinsAhead(flow, w, t, Undecided \ {n}) + Onward(flow, w, t, n)
      /\ JoinsAhead(flow, w, t, Undecided \ {n}) \in Nat
  BY <1>1, <1>3, <1>5, DecideMoves
<1>9. /\ Coming(w, t)' = InSeq(a, queue') + JobsAhead(flow, w, t, jobs) + InSeq(a, calls)
                         + JoinsAhead(flow, w, t, Undecided')
      /\ Runs(t)' = InSeq(r, queue') + InSeq(r, calls) + Ran(t)
  BY <1>1, NextSums
<1>10. /\ InSeq(a, calls) \in Nat /\ JobsAhead(flow, w, t, jobs) \in Nat
       /\ JoinsAhead(flow, w, t, Undecided) \in Nat /\ Coming(w, t) \in Nat
       /\ Onward(flow, w, t, n) \in Nat
  BY <1>3, ComingParts, PathsOn
<1>11. InSeq(r, calls) \in Nat /\ Ran(t) \in Nat /\ Runs(t) \in Nat
  BY <1>2, RunsParts
<1>12. Is(n, t) \in Nat /\ ToDecide(t) \in Nat /\ 0 \in Nat
  BY IsType, SlackHere
<1> DEFINE c == InSeq(a, Tail(queue)) + JobsAhead(flow, w, t, jobs) + InSeq(a, calls)
                + JoinsAhead(flow, w, t, Undecided)
<1>13. Coming(w, t) = InSeq(a, queue) + JobsAhead(flow, w, t, jobs) + InSeq(a, calls)
                      + JoinsAhead(flow, w, t, Undecided)
  BY DEF Coming
<1>14. Runs(t) = InSeq(r, queue) + InSeq(r, calls) + Ran(t)
  BY DEF Runs
<1>15. ASSUME remaining[n] # 1 PROVE Keeps(w, t)
  <2>1. lifecycle'[n] = "WAITING" /\ Undecided' = Undecided /\ ToDecide(t)' = ToDecide(t)
    BY <1>1, <1>3, <1>5, <1>15, DecideMoves
  <2>2. queue' = Tail(queue)
    BY <1>1, <2>1
  <2> HIDE DEF a, r
  <2>3. Coming(w, t)' = c /\ c \in Nat /\ c + Is(n, t) = Coming(w, t)
    <3>1. Coming(w, t)' = c
      BY <1>9, <2>1, <2>2
    <3>2. c \in Nat
      BY <1>6, <1>10
    <3>3. c + Is(n, t) = Coming(w, t)
      BY <1>6, <1>10, <1>12, <1>13
    <3> QED
      BY <3>1, <3>2, <3>3
  <2>4. Runs(t)' = Runs(t) + 0
    BY <1>7, <1>9, <1>11, <1>14, <2>2
  <2> HIDE DEF c
  <2>5. /\ 0 <= Is(n, t) /\ 0 + ToDecide(t) = ToDecide(t) /\ 0 + ToDecide(t) <= ToDecide(t)
        /\ c + Is(n, t) <= Coming(w, t)
    BY <1>10, <1>12, <2>3
  <2> QED
    BY <1>1, <1>3, <1>8, <1>12, <2>1, <2>3, <2>4, <2>5, CountKeeps
<1>16. ASSUME remaining[n] = 1 PROVE Keeps(w, t)
  <2> DEFINE y == ToDecide(t)'
  <2>1. /\ lifecycle'[n] = "ACTIVE" /\ Undecided' = Undecided \ {n}
        /\ y + Is(n, t) = ToDecide(t)
    <3>1. /\ lifecycle'[n] = IF data # <<>> THEN "ACTIVE" ELSE "INACTIVE"
          /\ Undecided' = Undecided \ {n} /\ y + Is(n, t) = ToDecide(t)
      BY <1>1, <1>3, <1>5, <1>16, DecideMoves
    <3> QED
      BY <3>1, <1>4
  <2>2. Merge(n, data, Tail(queue))
    BY <1>1, <2>1
  <2>3. /\ InSeq(a, queue') = InSeq(a, Tail(queue)) + Onward(flow, w, t, n)
        /\ InSeq(r, queue') = InSeq(r, Tail(queue)) + Is(n, t)
    BY <1>3, <2>2, MergeMoves
  <2>4. y \in Nat
    BY DEF ToDecide
  <2> HIDE DEF a, r, y
  <2>5. Coming(w, t)' = c /\ c \in Nat /\ c + Is(n, t) = Coming(w, t)
    BY <1>6, <1>8, <1>9, <1>10, <1>12, <1>13, <2>1, <2>3
  <2>6. Runs(t)' = Runs(t) + Is(n, t)
    BY <1>7, <1>9, <1>11, <1>12, <1>14, <2>3
  <2> HIDE DEF c
  <2>7. /\ Is(n, t) <= Is(n, t) /\ Is(n, t) + y = ToDecide(t) /\ Is(n, t) + y <= ToDecide(t)
        /\ c + Is(n, t) <= Coming(w, t)
    BY <1>10, <1>12, <2>1, <2>4, <2>5
  <2> QED
    BY <1>1, <1>3, <1>8, <1>12, <2>4, <2>5, <2>6, <2>7, CountKeeps DEF y
<1> QED
  BY <1>15, <1>16

\* what the listeners of a node that may halt are told is what would have come
LEMMA HeardFor ==
    ASSUME NEW w, NEW rank, Sound(w, rank), NEW n \in MayHalt(flow), n \in flow.nodes,
           NEW t \in flow.nodes
    PROVE  /\ Heard(flow, w, t, n) <= Onward(flow, w, t, n)
           /\ t \in Gathers(flow) => Heard(flow, w, t, n) = Onward(flow, w, t, n)
BY SoundParts DEF WellFormedBy, Balanced, HaltsFit

LEMMA HaltPlainKeeps ==
    ASSUME NEW w, NEW rank, Sound(w, rank), HaltPlain, NEW t \in flow.nodes
    PROVE  Keeps(w, t)
<1> DEFINE n == Head(calls).node
           a == Ahead(flow, w, t)
           r == Running(flow, t)
<1>1. /\ calls # <<>> /\ Head(calls).what = "halted" /\ flow' = flow
      /\ calls' = HaltHandlers(n) \o Tail(calls)
      /\ UNCHANGED <<queue, jobs, remaining, lifecycle, outcomes, started>>
  BY DEF HaltPlain, Calling, ended, joins
<1>2. n \in flow.nodes /\ Tail(calls) \in Seq(Calls) /\ Fits(Head(calls))
  BY <1>1, Called
<1>3. n \notin Joins(flow)
  BY DEF HaltPlain, Stateful, Joins
<1>4. n \in MayHalt(flow)
  BY <1>1, <1>2 DEF Fits
<1>5. TypeOK
  BY SoundParts
<1> HIDE DEF n
<1>6. InSeq(a, calls) = w[t][n] + InSeq(a, Tail(calls)) /\ InSeq(a, Tail(calls)) \in Nat
  <2>1. InSeq(a, calls) = a["halted"][n] + InSeq(a, Tail(calls)) /\ InSeq(a, Tail(calls)) \in Nat
    BY <1>1, Called DEF n
  <2>2. a["halted"][n] = w[t][n]
    BY <1>2, AheadValues
  <2> HIDE DEF a
  <2> QED
    BY <2>1, <2>2
<1>7. InSeq(r, calls) = InSeq(r, Tail(calls)) /\ InSeq(r, Tail(calls)) \in Nat
  <2>1. InSeq(r, calls) = r["halted"][n] + InSeq(r, Tail(calls)) /\ InSeq(r, Tail(calls)) \in Nat
    BY <1>1, Called DEF n
  <2>2. r["halted"][n] = 0
    BY <1>2, RunningValues
  <2> HIDE DEF r
  <2> QED
    BY <2>1, <2>2
<1>8. /\ InSeq(a, calls') = Heard(flow, w, t, n) + InSeq(a, Tail(calls))
      /\ InSeq(r, calls') = Halts(n, t) + InSeq(r, Tail(calls))
      /\ Heard(flow, w, t, n) \in Nat
  BY <1>1, <1>2, HaltHandlersMoves
<1>9. /\ Coming(w, t)' = InSeq(a, queue) + JobsAhead(flow, w, t, jobs) + InSeq(a, calls')
                         + JoinsAhead(flow, w, t, Undecided)
      /\ Runs(t)' = InSeq(r, queue) + InSeq(r, calls') + Ran(t)
  BY <1>1, NextSums
<1>10. /\ InSeq(a, queue) \in Nat /\ JobsAhead(flow, w, t, jobs) \in Nat
       /\ JoinsAhead(flow, w, t, Undecided) \in Nat /\ Coming(w, t) \in Nat
  BY ComingParts
<1>11. InSeq(r, queue) \in Nat /\ Ran(t) \in Nat
  BY <1>5, RunsParts
<1>12. w[t][n] = Onward(flow, w, t, n) + Is(n, t) /\ Onward(flow, w, t, n) \in Nat
  BY <1>2, <1>3, PathsOn
<1>13. /\ Heard(flow, w, t, n) <= Onward(flow, w, t, n)
       /\ t \in Gathers(flow) => Heard(flow, w, t, n) = Onward(flow, w, t, n)
  BY <1>2, <1>4, HeardFor
<1>14. /\ Is(n, t) \in Nat /\ Halts(n, t) \in Nat /\ Halts(n, t) <= Is(n, t)
       /\ (flow.kind[n] = "end" => Halts(n, t) = Is(n, t))
  BY IsType
<1>15. Coming(w, t) = InSeq(a, queue) + JobsAhead(flow, w, t, jobs) + InSeq(a, calls)
                      + JoinsAhead(flow, w, t, Undecided)
  BY DEF Coming
<1>16. Runs(t) = InSeq(r, queue) + InSeq(r, calls) + Ran(t)
  BY DEF Runs
<1> DEFINE c == InSeq(a, queue) + JobsAhead(flow, w, t, jobs)
                + (Heard(flow, w, t, n) + InSeq(a, Tail(calls))) + JoinsAhead(flow, w, t, Undecided)
<1> HIDE DEF a, r
<1>17. Coming(w, t)' = c /\ c \in Nat
  BY <1>6, <1>8, <1>9, <1>10
<1>18. c + Is(n, t) <= Coming(w, t)
  BY <1>6, <1>8, <1>10, <1>12, <1>13, <1>14, <1>15
<1>19. t \in Gathers(flow) => c + Is(n, t) = Coming(w, t)
  BY <1>6, <1>8, <1>10, <1>12, <1>13, <1>14, <1>15
<1>20. Runs(t)' = Runs(t) + Halts(n, t)
  BY <1>7, <1>8, <1>9, <1>11, <1>14, <1>16
<1> HIDE DEF c
<1> QED
  BY <1>1, <1>2, <1>3, <1>14, <1>17, <1>18, <1>19, <1>20, InputKeeps

LEMMA HaltJoinKeeps ==
    ASSUME NEW w, NEW rank, Sound(w, rank), HaltJoin, NEW t \in flow.nodes
    PROVE  Keeps(w, t)
<1> DEFINE n == Head(calls).node
           data == arrived[n]
           a == Ahead(flow, w, t)
           r == Running(flow, t)
<1>1. /\ calls # <<>> /\ Head(calls).what = "halted" /\ flow' = flow
      /\ UNCHANGED <<jobs, outcomes, started>>
      /\ Decrement(n, data)
      /\ IF lifecycle'[n] = "ACTIVE" THEN Merge(n, data, queue) ELSE queue' = queue
      /\ calls' = IF lifecycle'[n] = "INACTIVE" THEN HaltHandlers(n) \o Tail(calls)
                  ELSE Tail(calls)
  BY DEF HaltJoin, Calling, ended
<1>2. n \in flow.nodes /\ Tail(calls) \in Seq(Calls) /\ Fits(Head(calls))
  BY <1>1, Called
<1>3. n \in Joins(flow)
  BY <1>2 DEF HaltJoin, Stateful, Joins
<1>4. n \in MayHalt(flow)
  BY <1>1, <1>2 DEF Fits
<1>5. Coming(w, n) >= 1
  BY <1>1, <1>2, InputComing
<1>6. TypeOK /\ queue \in Seq(Tasks)
  BY SoundParts DEF TypeOK
<1> HIDE DEF data, n
<1>7. InSeq(a, calls) = Is(n, t) + InSeq(a, Tail(calls)) /\ InSeq(a, Tail(calls)) \in Nat
  <2>1. InSeq(a, calls) = a["halted"][n] + InSeq(a, Tail(calls)) /\ InSeq(a, Tail(calls)) \in Nat
    BY <1>1, Called DEF n
  <2>2. a["halted"][n] = w[t][n]
    BY <1>2, AheadValues
  <2>3. w[t][n] = Is(n, t)
    BY <1>2, <1>3, PathsOn
  <2> HIDE DEF a
  <2> QED
    BY <2>1, <2>2, <2>3
<1>8. InSeq(r, calls) = InSeq(r, Tail(calls)) /\ InSeq(r, Tail(calls)) \in Nat
  <2>1. InSeq(r, calls) = r["halted"][n] + InSeq(r, Tail(calls)) /\ InSeq(r, Tail(calls)) \in Nat
    BY <1>1, Called DEF n
  <2>2. r["halted"][n] = 0
    BY <1>2, RunningValues
  <2> HIDE DEF r
  <2> QED
    BY <2>1, <2>2
<1>9. /\ remaining'[t] = remaining[t] - Is(n, t)
      /\ JoinsAhead(flow, w, t, Undecided) =
           JoinsAhead(flow, w, t, Undecided \ {n}) + Onward(flow, w, t, n)
      /\ JoinsAhead(flow, w, t, Undecided \ {n}) \in Nat
  BY <1>1, <1>3, <1>5, DecideMoves
<1>10. /\ Coming(w, t)' = InSeq(a, queue') + JobsAhead(flow, w, t, jobs) + InSeq(a, calls')
                          + JoinsAhead(flow, w, t, Undecided')
       /\ Runs(t)' = InSeq(r, queue') + InSeq(r, calls') + Ran(t)
  BY <1>1, NextSums
<1>11. /\ InSeq(a, queue) \in Nat /\ JobsAhead(flow, w, t, jobs) \in Nat
       /\ JoinsAhead(flow, w, t, Undecided) \in Nat /\ Coming(w, t) \in Nat
       /\ Onward(flow, w, t, n) \in Nat
  BY <1>2, ComingParts, PathsOn
<1>12. InSeq(r, queue) \in Nat /\ Ran(t) \in Nat /\ Runs(t) \in Nat
  BY <1>6, RunsParts
<1>13. Is(n, t) \in Nat /\ ToDecide(t) \in Nat /\ 0 \in Nat
  BY IsType, SlackHere
<1>14. Coming(w, t) = InSeq(a, queue) + JobsAhead(flow, w, t, jobs) + InSeq(a, calls)
                      + JoinsAhead(flow, w, t, Undecided)
  BY DEF Coming
<1>15. Runs(t) = InSeq(r, queue) + InSeq(r, calls) + Ran(t)
  BY DEF Runs
<1> DEFINE c == InSeq(a, queue) + JobsAhead(flow, w, t, jobs) + InSeq(a, Tail(calls))
                + JoinsAhead(flow, w, t, Undecided)
<1>16. ASSUME remaining[n] # 1 PROVE Keeps(w, t)
  <2>1. lifecycle'[n] = "WAITING" /\ Undecided' = Undecided /\ ToDecide(t)' = ToDecide(t)
    BY <1>1, <1>3, <1>5, <1>16, DecideMoves
  <2>2. queue' = queue /\ calls' = Tail(calls)
    BY <1>1, <2>1
  <2> HIDE DEF a, r
  <2>3. Coming(w, t)' = c /\ c \in Nat /\ c + Is(n, t) = Coming(w, t)
    BY <1>7, <1>10, <1>11, <1>13, <1>14, <2>1, <2>2
  <2>4. Runs(t)' = Runs(t) + 0
    BY <1>8, <1>10, <1>12, <1>15, <2>2
  <2> HIDE DEF c
  <2>5. /\ 0 <= Is(n, t) /\ 0 + ToDecide(t) = ToDecide(t) /\ 0 + ToDecide(t) <= ToDecide(t)
        /\ c + Is(n, t) <= Coming(w, t)
    BY <1>11, <1>13, <2>3
  <2> QED
    BY <1>1, <1>3, <1>9, <1>13, <2>1, <2>3, <2>4, <2>5, CountKeeps
<1>17. ASSUME remaining[n] = 1, data # <<>> PROVE Keeps(w, t)
  <2> DEFINE y == ToDecide(t)'
  <2>1. /\ lifecycle'[n] = "ACTIVE" /\ Undecided' = Undecided \ {n}
        /\ y + Is(n, t) = ToDecide(t)
    <3>1. /\ lifecycle'[n] = IF data # <<>> THEN "ACTIVE" ELSE "INACTIVE"
          /\ Undecided' = Undecided \ {n} /\ y + Is(n, t) = ToDecide(t)
      BY <1>1, <1>3, <1>5, <1>17, DecideMoves
    <3> QED
      BY <3>1, <1>17
  <2>2. Merge(n, data, queue) /\ calls' = Tail(calls)
    BY <1>1, <2>1
  <2>3. /\ InSeq(a, queue') = InSeq(a, queue) + Onward(flow, w, t, n)
        /\ InSeq(r, queue') = InSeq(r, queue) + Is(n, t)
    BY <1>2, <1>6, <2>2, MergeMoves
  <2>4. y \in Nat
    BY DEF ToDecide
  <2> HIDE DEF a, r, y
  <2>5. Coming(w, t)' = c /\ c \in Nat /\ c + Is(n, t) = Coming(w, t)
    <3>1. Coming(w, t)' = c
      BY <1>7, <1>9, <1>10, <1>11, <2>1, <2>2, <2>3
    <3>2. c \in Nat
      BY <1>7, <1>11
    <3>3. c + Is(n, t) = Coming(w, t)
      BY <1>7, <1>11, <1>13, <1>14
    <3> QED
      BY <3>1, <3>2, <3>3
  <2>6. Runs(t)' = Runs(t) + Is(n, t)
    BY <1>8, <1>10, <1>12, <1>13, <1>15, <2>2, <2>3
  <2> HIDE DEF c
  <2>7. /\ Is(n, t) <= Is(n, t) /\ Is(n, t) + y = ToDecide(t) /\ Is(n, t) + y <= ToDecide(t)
        /\ c + Is(n, t) <= Coming(w, t)
    BY <1>11, <1>13, <2>1, <2>4, <2>5
  <2> QED
    BY <1>1, <1>3, <1>9, <1>13, <2>4, <2>5, <2>6, <2>7, CountKeeps DEF y
<1>18. ASSUME remaining[n] = 1, data = <<>> PROVE Keeps(w, t)
  <2> DEFINE y == ToDecide(t)'
             e == InSeq(a, queue) + JobsAhead(flow, w, t, jobs)
                  + (Heard(flow, w, t, n) + InSeq(a, Tail(calls)))
                  + JoinsAhead(flow, w, t, Undecided \ {n})
  <2>1. /\ lifecycle'[n] = "INACTIVE" /\ Undecided' = Undecided \ {n}
        /\ y + Is(n, t) = ToDecide(t)
    <3>1. /\ lifecycle'[n] = IF data # <<>> THEN "ACTIVE" ELSE "INACTIVE"
          /\ Undecided' = Undecided \ {n} /\ y + Is(n, t) = ToDecide(t)
      BY <1>1, <1>3, <1>5, <1>18, DecideMoves
    <3> QED
      BY <3>1, <1>18
  <2>2. queue' = queue /\ calls' = HaltHandlers(n) \o Tail(calls)
    BY <1>1, <2>1
  <2>3. /\ InSeq(a, calls') = Heard(flow, w, t, n) + InSeq(a, Tail(calls))
        /\ InSeq(r, calls') = Halts(n, t) + InSeq(r, Tail(calls))
        /\ Heard(flow, w, t, n) \in Nat
    BY <1>2, <2>2, HaltHandlersMoves
  <2>4. y \in Nat
    BY DEF ToDecide
  <2>5. /\ Heard(flow, w, t, n) <= Onward(flow, w, t, n)
        /\ t \in Gathers(flow) => Heard(flow, w, t, n) = Onward(flow, w, t, n)
    BY <1>2, <1>4, HeardFor
  <2>6. /\ Halts(n, t) \in Nat /\ Halts(n, t) <= Is(n, t) /\ (n # t => Is(n, t) = 0)
        /\ (flow.kind[n] = "end" => Halts(n, t) = Is(n, t))
    BY IsType
  <2> HIDE DEF a, r, y
  <2>7. Coming(w, t)' = e /\ e \in Nat
    BY <1>7, <1>9, <1>10, <1>11, <2>1, <2>2, <2>3
  <2>8. e + Is(n, t) <= Coming(w, t)
    BY <1>7, <1>9, <1>11, <1>13, <1>14, <2>3, <2>5
  <2>9. t \in Gathers(flow) => e + Is(n, t) = Coming(w, t)
    BY <1>7, <1>9, <1>11, <1>13, <1>14, <2>3, <2>5
  <2>10. Runs(t)' = Runs(t) + Halts(n, t)
    BY <1>8, <1>10, <1>12, <1>13, <1>15, <2>2, <2>3, <2>6
  <2> HIDE DEF e
  <2>11. Halts(n, t) + y <= ToDecide(t)
    BY <1>13, <2>1, <2>4, <2>6
  <2>12. flow.kind[t] = "end" => Halts(n, t) + y = ToDecide(t)
    <3>1. ASSUME flow.kind[t] = "end" PROVE Halts(n, t) = Is(n, t)
      BY <1>13, <2>6, <3>1
    <3> QED
      BY <1>13, <2>1, <2>4, <2>6, <3>1
  <2> QED
    BY <1>1, <1>3, <1>9, <1>13, <2>4, <2>6, <2>7, <2>8, <2>9, <2>10, <2>11, <2>12, CountKeeps DEF y
<1> QED
  BY <1>16, <1>17, <1>18

-----------------------------------------------------------------------------
(* The actions that move an input that was counted, or an input's halt.      *)

LEMMA EnterKeeps ==
    ASSUME NEW w, NEW rank, Sound(w, rank), Enter, NEW t \in flow.nodes
    PROVE  Keeps(w, t)
<1>1. flow' = flow /\ UNCHANGED <<remaining, lifecycle>>
  BY DEF Enter, joins
<1> QED
  BY <1>1, EnterMoves, SteadyKeeps

LEMMA AfterKeeps ==
    ASSUME NEW w, NEW rank, Sound(w, rank), After, NEW t \in flow.nodes
    PROVE  Keeps(w, t)
<1> DEFINE n == Here
           a == Ahead(flow, w, t)
           r == Running(flow, t)
<1>1. /\ queue # <<>> /\ Head(queue).what = "next" /\ flow' = flow
      /\ CallChildren(n, Given)
      /\ UNCHANGED <<calls, jobs, remaining, lifecycle, outcomes, started>>
  BY DEF After, Taking, joins, ended
<1>2. TypeOK
  BY SoundParts
<1>3. n \in flow.nodes
  BY <1>1, <1>2, TakenType
<1> HIDE DEF n
<1>4. /\ InSeq(a, queue') = InSeq(a, Tail(queue)) + Onward(flow, w, t, n)
      /\ InSeq(r, queue') = InSeq(r, Tail(queue))
  BY <1>1, <1>3, CallChildrenMoves
<1>5. InSeq(a, queue) = Onward(flow, w, t, n) + InSeq(a, Tail(queue))
  <2>1. InSeq(a, queue) = a["next"][n] + InSeq(a, Tail(queue))
    BY <1>1, Taken DEF n
  <2>2. a["next"][n] = Onward(flow, w, t, n)
    BY <1>3, AheadValues
  <2> HIDE DEF a
  <2> QED
    BY <2>1, <2>2
<1>6. InSeq(r, queue) = InSeq(r, Tail(queue))
  <2>1. InSeq(r, queue) = r["next"][n] + InSeq(r, Tail(queue)) /\ InSeq(r, Tail(queue)) \in Nat
    BY <1>1, Taken DEF n
  <2>2. r["next"][n] = 0
    BY <1>3, RunningValues
  <2> HIDE DEF r
  <2> QED
    BY <2>1, <2>2
<1>7. Onward(flow, w, t, n) \in Nat /\ InSeq(a, Tail(queue)) \in Nat
  BY <1>1, <1>3, PathsOn, Taken
<1>8. InSeq(a, queue') = InSeq(a, queue) /\ InSeq(r, queue') = InSeq(r, queue)
  <2> HIDE DEF a, r
  <2> QED
    BY <1>4, <1>5, <1>6, <1>7
<1>9. Coming(w, t)' = Coming(w, t)
  BY <1>1, <1>8, NextSums DEF Coming
<1>10. Runs(t)' = Runs(t)
  BY <1>1, <1>8, NextSums DEF Runs
<1> QED
  BY <1>1, <1>9, <1>10, SteadyKeeps DEF Steady

\* halts are heard for inputs, which do not come then
LEMMA LessKeeps ==
    ASSUME NEW w, NEW rank, Sound(w, rank), NEW t \in flow.nodes, flow' = flow,
           UNCHANGED <<remaining, lifecycle>>, Runs(t)' = Runs(t),
           NEW c \in Nat, Coming(w, t)' = c, c <= Coming(w, t),
           t \in Gathers(flow) => c = Coming(w, t)
    PROVE  Keeps(w, t)
<1>1. Coming(w, t) \in Nat /\ Runs(t) \in Nat /\ remaining[t] \in Int /\ ToDecide(t) \in Nat
  BY SlackHere
<1>2. Slack(w, t) = (IF t \in Joins(flow) THEN remaining[t] ELSE 1 - Runs(t)) - Coming(w, t)
  BY DEF Slack
<1>3. Slack(w, t)' = (IF t \in Joins(flow) THEN remaining[t] ELSE 1 - Runs(t)) - c
  BY DEF Slack
<1>4. Decisions(t)' = Decisions(t) /\ Decisions(t) \in Nat
  BY <1>1 DEF Decisions, ToDecide, Undecided
<1>5. Slack(w, t)' >= Slack(w, t)
  BY <1>1, <1>2, <1>3
<1>6. t \in Gathers(flow) => Slack(w, t)' = Slack(w, t)
  BY <1>2, <1>3
<1> QED
  BY <1>4, <1>5, <1>6 DEF Keeps

\* no calls weigh nothing, and one call what it weighs
LEMMA CallsSum ==
    ASSUME NEW g \in Weights(flow), NEW n \in flow.nodes
    PROVE  InSeq(g, <<>>) = 0 /\ InSeq(g, <<Call("halted", n)>>) = g["halted"][n]
<1> DEFINE e == Call("halted", n)
<1>1. e.what = "halted" /\ e.node = n /\ "halted" \in Whats
  BY DEF Call, Whats, OtherTasks
<1> HIDE DEF e
<1>2. g[e.what][e.node] \in Nat
  BY <1>1 DEF Weights
<1>3. InSeq(g, <<e>>) = g[e.what][e.node] /\ InSeq(g, <<>>) = 0
  BY <1>2, InSeqOne
<1> QED
  BY <1>1, <1>3 DEF e

LEMMA StartCascadeKeeps ==
    ASSUME NEW w, NEW rank, Sound(w, rank), StartCascade, NEW t \in flow.nodes
    PROVE  Keeps(w, t)
<1> DEFINE n == Here
           a == Ahead(flow, w, t)
           r == Running(flow, t)
<1>1. /\ queue # <<>> /\ calls = <<>> /\ queue' = Tail(queue) /\ flow' = flow
      /\ UNCHANGED <<jobs, remaining, lifecycle, outcomes, started>>
  BY DEF StartCascade, joins, ended
<1>2. TypeOK /\ a \in Weights(flow) /\ r \in Weights(flow)
  BY SoundParts, AheadType, RunningType
<1>3. n \in flow.nodes
  BY <1>1, <1>2, TakenType
<1>4. /\ InSeq(a, queue) = a[Head(queue).what][n] + InSeq(a, Tail(queue))
      /\ InSeq(r, queue) = r[Head(queue).what][n] + InSeq(r, Tail(queue))
      /\ InSeq(a, Tail(queue)) \in Nat /\ InSeq(r, Tail(queue)) \in Nat
  BY <1>1, Taken
<1>5. InSeq(a, calls) = 0 /\ InSeq(r, calls) = 0
  BY <1>1, <1>2, <1>3, CallsSum
<1>6. /\ Coming(w, t)' = InSeq(a, Tail(queue)) + JobsAhead(flow, w, t, jobs) + InSeq(a, calls')
                         + JoinsAhead(flow, w, t, Undecided)
      /\ Runs(t)' = InSeq(r, Tail(queue)) + InSeq(r, calls') + Ran(t)
  BY <1>1, NextSums
<1>7. Coming(w, t) = InSeq(a, queue) + JobsAhead(flow, w, t, jobs) + InSeq(a, calls)
                     + JoinsAhead(flow, w, t, Undecided)
  BY DEF Coming
<1>8. Runs(t) = InSeq(r, queue) + InSeq(r, calls) + Ran(t)
  BY DEF Runs
<1>9. /\ JobsAhead(flow, w, t, jobs) \in Nat /\ JoinsAhead(flow, w, t, Undecided) \in Nat
      /\ Ran(t) \in Nat /\ Coming(w, t) \in Nat
  BY <1>2, ComingParts, RunsParts
<1>10. w[t][n] \in Nat /\ Onward(flow, w, t, n) \in Nat
  BY <1>3, PathsOn
<1> HIDE DEF n
<1>11. ASSUME Head(queue).what = "halted", calls' = <<Call("halted", n)>> PROVE Keeps(w, t)
  <2>1. a["halted"][n] = w[t][n] /\ r["halted"][n] = 0
    BY <1>3, AheadValues, RunningValues
  <2>2. InSeq(a, calls') = a["halted"][n] /\ InSeq(r, calls') = r["halted"][n]
    BY <1>2, <1>3, <1>11, CallsSum
  <2>3. /\ InSeq(a, queue) = a["halted"][n] + InSeq(a, Tail(queue))
        /\ InSeq(r, queue) = r["halted"][n] + InSeq(r, Tail(queue))
    BY <1>4, <1>11
  <2> HIDE DEF a, r
  <2>4. Coming(w, t)' = Coming(w, t)
    BY <1>4, <1>5, <1>6, <1>7, <1>9, <1>10, <2>1, <2>2, <2>3
  <2>5. Runs(t)' = Runs(t)
    BY <1>4, <1>5, <1>6, <1>8, <1>9, <2>1, <2>2, <2>3
  <2> QED
    BY <1>1, <2>4, <2>5, SteadyKeeps DEF Steady
<1>12. ASSUME Head(queue).what = HaltHandling, calls' = HaltHandlers(n) PROVE Keeps(w, t)
  <2>1. flow.kind[n] = "reference" /\ n \in MayHalt(flow)
    <3>1. queue \in Seq(Tasks) /\ Fits(Head(queue))
      <4>1. queue \in Seq(Tasks)
        BY <1>2 DEF TypeOK
      <4>2. 1 \in DOMAIN queue /\ Head(queue) = queue[1]
        BY <1>1, <4>1
      <4> QED
        BY <4>1, <4>2, SoundParts DEF Placed
    <3>2. flow.kind[n] = "reference"
      BY <1>12, <3>1 DEF Fits, n, Here, HaltHandling
    <3> QED
      BY <1>3, <3>2 DEF MayHalt
  <2>2. HaltHandlers(n) \o <<>> = HaltHandlers(n) /\ <<>> \in Seq(Calls)
    <3>1. HaltHandlers(n) \in Seq(Calls)
      BY <1>2, <1>3, HandlersType DEF TypeOK
    <3> QED
      BY <3>1
  <2>3. /\ InSeq(a, calls') = Heard(flow, w, t, n) + 0
        /\ InSeq(r, calls') = Halts(n, t) + 0
        /\ Heard(flow, w, t, n) \in Nat
    <3>1. /\ InSeq(a, HaltHandlers(n) \o <<>>) = Heard(flow, w, t, n) + InSeq(a, <<>>)
          /\ InSeq(r, HaltHandlers(n) \o <<>>) = Halts(n, t) + InSeq(r, <<>>)
          /\ Heard(flow, w, t, n) \in Nat
      BY <1>3, <2>2, HaltHandlersMoves
    <3> QED
      BY <1>1, <1>5, <1>12, <2>2, <3>1
  <2>4. Halts(n, t) = 0
    BY <2>1 DEF Halts
  <2>5. /\ Heard(flow, w, t, n) <= Onward(flow, w, t, n)
        /\ t \in Gathers(flow) => Heard(flow, w, t, n) = Onward(flow, w, t, n)
    BY <1>3, <2>1, HeardFor
  <2>6. /\ InSeq(a, queue) = Onward(flow, w, t, n) + InSeq(a, Tail(queue))
        /\ InSeq(r, queue) = 0 + InSeq(r, Tail(queue))
    <3>1. a[HaltHandling][n] = Onward(flow, w, t, n) /\ r[HaltHandling][n] = 0
      BY <1>3, AheadOthers, RunningOthers
    <3> QED
      BY <1>4, <1>12, <3>1
  <2> DEFINE c == InSeq(a, Tail(queue)) + JobsAhead(flow, w, t, jobs) + Heard(flow, w, t, n)
                  + JoinsAhead(flow, w, t, Undecided)
  <2> HIDE DEF a, r
  <2>7. Coming(w, t)' = c
    BY <1>6, <2>3
  <2>8. c \in Nat /\ c <= Coming(w, t) /\ (t \in Gathers(flow) => c = Coming(w, t))
    BY <1>4, <1>5, <1>7, <1>9, <1>10, <2>3, <2>5, <2>6
  <2>9. Runs(t)' = Runs(t)
    BY <1>4, <1>5, <1>6, <1>8, <1>9, <2>3, <2>4, <2>6
  <2> HIDE DEF c
  <2> QED
    BY <1>1, <2>7, <2>8, <2>9, LessKeeps
<1>13. ASSUME Head(queue).what = "error", calls' = ErrorHandlers(n) PROVE Keeps(w, t)
  <2>1. a["error"][n] = 0 /\ r["error"][n] = 0
    BY <1>3, AheadValues, RunningValues
  <2>2. ErrorHandlers(n) \o <<>> = ErrorHandlers(n) /\ <<>> \in Seq(Calls)
    <3>1. ErrorHandlers(n) \in Seq(Calls)
      BY <1>2, <1>3, HandlersType DEF TypeOK
    <3> QED
      BY <3>1
  <2>3. InSeq(a, calls') = 0 /\ InSeq(r, calls') = 0
    <3>1. /\ InSeq(a, ErrorHandlers(n) \o <<>>) = InSeq(a, <<>>)
          /\ InSeq(r, ErrorHandlers(n) \o <<>>) = InSeq(r, <<>>)
      BY <1>3, <2>2, ErrorHandlersMoves
    <3> QED
      BY <1>1, <1>5, <1>13, <2>2, <3>1
  <2>4. /\ InSeq(a, queue) = a["error"][n] + InSeq(a, Tail(queue))
        /\ InSeq(r, queue) = r["error"][n] + InSeq(r, Tail(queue))
    BY <1>4, <1>13
  <2> HIDE DEF a, r
  <2>5. Coming(w, t)' = Coming(w, t)
    BY <1>4, <1>5, <1>6, <1>7, <1>9, <2>1, <2>3, <2>4
  <2>6. Runs(t)' = Runs(t)
    BY <1>4, <1>5, <1>6, <1>8, <1>9, <2>1, <2>3, <2>4
  <2> QED
    BY <1>1, <2>5, <2>6, SteadyKeeps DEF Steady
<1> QED
  BY <1>11, <1>12, <1>13 DEF StartCascade, n, HaltHandling

LEMMA ErrorNodeKeeps ==
    ASSUME NEW w, NEW rank, Sound(w, rank), ErrorNode, NEW t \in flow.nodes
    PROVE  Keeps(w, t)
<1> DEFINE n == Head(calls).node
           a == Ahead(flow, w, t)
           r == Running(flow, t)
<1>1. /\ calls # <<>> /\ Head(calls).what = "error" /\ flow' = flow
      /\ calls' = ErrorHandlers(n) \o Tail(calls)
      /\ UNCHANGED <<queue, jobs, remaining, lifecycle, outcomes, started>>
  BY DEF ErrorNode, Calling, ended, joins
<1>2. n \in flow.nodes /\ Tail(calls) \in Seq(Calls)
  BY <1>1, Called
<1> HIDE DEF n
<1>3. /\ InSeq(a, calls) = a["error"][n] + InSeq(a, Tail(calls)) /\ InSeq(a, Tail(calls)) \in Nat
      /\ InSeq(r, calls) = r["error"][n] + InSeq(r, Tail(calls)) /\ InSeq(r, Tail(calls)) \in Nat
  BY <1>1, Called DEF n
<1>4. a["error"][n] = 0 /\ r["error"][n] = 0
  BY <1>2, AheadValues, RunningValues
<1>5. /\ InSeq(a, calls') = InSeq(a, Tail(calls))
      /\ InSeq(r, calls') = InSeq(r, Tail(calls))
  BY <1>1, <1>2, ErrorHandlersMoves
<1>6. InSeq(a, calls') = InSeq(a, calls) /\ InSeq(r, calls') = InSeq(r, calls)
  <2> HIDE DEF a, r
  <2> QED
    BY <1>3, <1>4, <1>5
<1>7. Coming(w, t)' = Coming(w, t)
  BY <1>1, <1>6, NextSums DEF Coming
<1>8. Runs(t)' = Runs(t)
  BY <1>1, <1>6, NextSums DEF Runs
<1> QED
  BY <1>1, <1>7, <1>8, SteadyKeeps DEF Steady

LEMMA ContextCallKeeps ==
    ASSUME NEW w, NEW rank, Sound(w, rank), ContextCall, NEW t \in flow.nodes
    PROVE  Keeps(w, t)
<1> DEFINE n == Head(calls).node
           a == Ahead(flow, w, t)
           r == Running(flow, t)
<1>1. /\ calls # <<>> /\ flow' = flow /\ calls' = Tail(calls)
      /\ \/ Head(calls).what = ContextHalted /\ Finish("halted", "halts", {})
         \/ Head(calls).what = ContextError /\ Finish("error", "errors", {})
      /\ UNCHANGED <<queue, jobs, remaining, lifecycle, started>>
  BY DEF ContextCall, Calling, joins, ContextHalted, ContextError
<1>2. n \in flow.nodes /\ Fits(Head(calls))
  BY <1>1, Called
<1>3. /\ InSeq(a, calls) = a[Head(calls).what][n] + InSeq(a, Tail(calls))
      /\ InSeq(r, calls) = r[Head(calls).what][n] + InSeq(r, Tail(calls))
      /\ InSeq(a, Tail(calls)) \in Nat /\ InSeq(r, Tail(calls)) \in Nat
  BY <1>1, Called
<1>4. /\ a[ContextHalted][n] = 0 /\ r[ContextHalted][n] = Is(n, t)
      /\ a[ContextError][n] = 0 /\ r[ContextError][n] = 0
  BY <1>2, AheadOthers, RunningOthers
<1>5. TypeOK /\ WellFormedBy(flow, w, rank)
  BY SoundParts
<1>6. /\ InSeq(r, queue) \in Nat /\ InSeq(r, calls) \in Nat /\ Ran(t) \in Nat
      /\ Answers \in Nat /\ Is(n, t) \in Nat
  BY <1>5, RunsParts, AnswersType, IsType
<1>7. InSeq(a, calls') = InSeq(a, calls)
  <2> HIDE DEF a
  <2> QED
    BY <1>1, <1>3, <1>4
<1>8. Coming(w, t)' = Coming(w, t)
  BY <1>1, <1>7, NextSums DEF Coming
<1>9. Runs(t)' = InSeq(r, queue) + InSeq(r, Tail(calls)) + Ran(t)'
  BY <1>1, NextSums
<1>10. Runs(t) = InSeq(r, queue) + InSeq(r, calls) + Ran(t)
  BY DEF Runs
<1>11. ASSUME Head(calls).what = ContextHalted, Finish("halted", "halts", {})
       PROVE  Runs(t)' = Runs(t)
  <2>1. flow.kind[n] = "end"
    BY <1>2, <1>11 DEF Fits, ContextHalted
  <2>2. flow.kind[t] = "end" <=> t = n
    BY <1>2, <1>5, <2>1 DEF WellFormedBy, Balanced, OneEnd, Ends
  <2>3. Answers' = Answers + 1
    BY <1>5, <1>11, FinishAnswers
  <2>4. Ran(t)' = Ran(t) + Is(n, t)
    <3>1. CASE t = n
      BY <1>1, <2>2, <2>3, <3>1 DEF Ran, Is
    <3>2. CASE t # n
      <4>1. Ran(t)' = Ran(t) /\ Is(n, t) = 0
        BY <1>1, <2>2, <3>2 DEF Ran, Is
      <4> QED
        BY <1>6, <4>1
    <3> QED
      BY <3>1, <3>2
  <2>5. InSeq(r, calls) = Is(n, t) + InSeq(r, Tail(calls))
    BY <1>3, <1>4, <1>11
  <2> HIDE DEF r, n
  <2> QED
    BY <1>3, <1>6, <1>9, <1>10, <2>4, <2>5
<1>12. ASSUME Head(calls).what = ContextError, Finish("error", "errors", {})
       PROVE  Runs(t)' = Runs(t)
  <2>1. Answers' = Answers + 0
    BY <1>5, <1>12, FinishAnswers
  <2>2. Ran(t)' = Ran(t)
    BY <1>1, <1>6, <2>1 DEF Ran
  <2>3. InSeq(r, calls) = 0 + InSeq(r, Tail(calls))
    BY <1>3, <1>4, <1>12
  <2> HIDE DEF r
  <2> QED
    BY <1>3, <1>6, <1>9, <1>10, <2>2, <2>3
<1>13. Runs(t)' = Runs(t)
  BY <1>1, <1>11, <1>12
<1> QED
  BY <1>1, <1>8, <1>13, SteadyKeeps DEF Steady

-----------------------------------------------------------------------------
(* The operation pool.                                                       *)

\* a job comes back with a task for its node
LEMMA JobReturns ==
    ASSUME NEW w, NEW rank, Sound(w, rank), NEW t \in flow.nodes, NEW j \in jobs, flow' = flow,
           UNCHANGED <<calls, lifecycle, outcomes, started>>, jobs' = jobs \ {j},
           j.work # "routing", NEW what \in Whats, NEW d,
           queue' = Append(queue, Task(what, j.node, d)),
           Running(flow, t)[what][j.node] = 0
    PROVE  /\ Runs(t)' = Runs(t) /\ Coming(w, t)' \in Nat
           /\ j.node \in flow.nodes /\ Onward(flow, w, t, j.node) \in Nat
           /\ Ahead(flow, w, t)[what][j.node] \in Nat
           /\ Coming(w, t)' + Onward(flow, w, t, j.node) =
                Coming(w, t) + Ahead(flow, w, t)[what][j.node]
<1> DEFINE n == j.node
           a == Ahead(flow, w, t)
           r == Running(flow, t)
<1>1. TypeOK /\ a \in Weights(flow) /\ r \in Weights(flow) /\ IsFiniteSet(jobs)
  BY SoundParts, AheadType, RunningType
<1>2. n \in flow.nodes
  BY <1>1, PoolJobType
<1>3. queue \in Seq(Tasks)
  BY <1>1 DEF TypeOK
<1>4. JobsAhead(flow, w, t, jobs) = JobsAhead(flow, w, t, jobs') + JobAhead(flow, w, t, j)
      /\ JobsAhead(flow, w, t, jobs') \in Nat
  BY <1>1, SoundParts, JobLeaves
<1>5. JobAhead(flow, w, t, j) = Onward(flow, w, t, n)
  BY DEF JobAhead
<1> HIDE DEF n
<1>6. InSeq(a, queue') = InSeq(a, queue) + a[what][n]
  BY <1>1, <1>2, <1>3, PostSum DEF n
<1>7. InSeq(r, queue') = InSeq(r, queue) + r[what][n]
  BY <1>1, <1>2, <1>3, PostSum DEF n
<1>8. a[what][n] \in Nat /\ r[what][n] = 0
  BY <1>1, <1>2 DEF Weights, n
<1>9. /\ Coming(w, t)' = InSeq(a, queue') + JobsAhead(flow, w, t, jobs') + InSeq(a, calls)
                         + JoinsAhead(flow, w, t, Undecided)
      /\ Runs(t)' = InSeq(r, queue') + InSeq(r, calls) + Ran(t)
  BY NextSums
<1>10. Coming(w, t) = InSeq(a, queue) + JobsAhead(flow, w, t, jobs) + InSeq(a, calls)
                      + JoinsAhead(flow, w, t, Undecided)
  BY DEF Coming
<1>11. Runs(t) = InSeq(r, queue) + InSeq(r, calls) + Ran(t)
  BY DEF Runs
<1>12. /\ InSeq(a, queue) \in Nat /\ InSeq(a, calls) \in Nat
       /\ JoinsAhead(flow, w, t, Undecided) \in Nat
       /\ InSeq(r, queue) \in Nat /\ InSeq(r, calls) \in Nat /\ Ran(t) \in Nat
       /\ Onward(flow, w, t, n) \in Nat
  BY <1>1, <1>2, ComingParts, RunsParts, PathsOn
<1> DEFINE an == a[what][n]
           rn == r[what][n]
<1>13. an \in Nat /\ rn = 0 /\ InSeq(a, queue') = InSeq(a, queue) + an
       /\ InSeq(r, queue') = InSeq(r, queue) + rn
  BY <1>6, <1>7, <1>8
<1> HIDE DEF a, r, an, rn
<1>14. Runs(t)' = Runs(t)
  BY <1>9, <1>11, <1>12, <1>13
<1> DEFINE left == JobsAhead(flow, w, t, jobs')
           joining == JoinsAhead(flow, w, t, Undecided)
<1>15. left \in Nat /\ JobsAhead(flow, w, t, jobs) = left + Onward(flow, w, t, n) /\ joining \in Nat
  BY <1>4, <1>5, <1>12
<1>16. Coming(w, t)' = InSeq(a, queue) + an + left + InSeq(a, calls) + joining
  BY <1>9, <1>13
<1>17. Coming(w, t) = InSeq(a, queue) + (left + Onward(flow, w, t, n)) + InSeq(a, calls) + joining
  BY <1>10, <1>15
<1> HIDE DEF left, joining
<1>18. InSeq(a, queue) \in Nat /\ InSeq(a, calls) \in Nat /\ Onward(flow, w, t, n) \in Nat /\ an \in Nat
  BY <1>12, <1>13
<1>19. Coming(w, t)' \in Nat
  BY <1>15, <1>16, <1>18
<1>20. Coming(w, t)' + Onward(flow, w, t, n) = Coming(w, t) + an
  BY <1>15, <1>16, <1>17, <1>18
<1> QED
  BY <1>2, <1>14, <1>18, <1>19, <1>20 DEF n, a, an

LEMMA CompleteKeeps ==
    ASSUME NEW w, NEW rank, Sound(w, rank), NEW j \in jobs, Complete(j), NEW t \in flow.nodes
    PROVE  Keeps(w, t)
<1> DEFINE d == Ref(j.data.at, j.data.meant \cup {j.node})
<1>1. /\ flow' = flow /\ UNCHANGED <<calls, remaining, lifecycle, outcomes, started>>
      /\ jobs' = jobs \ {j} /\ j.work # "routing"
      /\ queue' = Append(queue, Task("next", j.node, d))
  BY DEF Complete, Changing, joins, ended
<1>2. j.node \in flow.nodes /\ "next" \in Whats
  BY SoundParts, PoolJobType, WhatsAre
<1>3. Running(flow, t)["next"][j.node] = 0
  BY <1>2, RunningValues
<1>4. Ahead(flow, w, t)["next"][j.node] = Onward(flow, w, t, j.node)
  BY <1>2, AheadValues
<1> HIDE DEF d
<1>5. Runs(t)' = Runs(t) /\ Onward(flow, w, t, j.node) \in Nat /\ Coming(w, t)' \in Nat
  BY <1>1, <1>2, <1>3, JobReturns
<1>6. Coming(w, t)' + Onward(flow, w, t, j.node) =
        Coming(w, t) + Ahead(flow, w, t)["next"][j.node]
  BY <1>1, <1>2, <1>3, JobReturns
<1>7. Coming(w, t)' = Coming(w, t)
  <2>1. Coming(w, t) \in Nat
    BY ComingParts
  <2> QED
    BY <1>4, <1>5, <1>6, <2>1
<1> QED
  BY <1>1, <1>5, <1>7, SteadyKeeps DEF Steady

LEMMA ReferenceHaltsKeeps ==
    ASSUME NEW w, NEW rank, Sound(w, rank), NEW j \in jobs, ReferenceHalts(j),
           NEW t \in flow.nodes
    PROVE  Keeps(w, t)
<1>1. /\ flow' = flow /\ UNCHANGED <<calls, remaining, lifecycle, outcomes, started>>
      /\ jobs' = jobs \ {j} /\ j.work # "routing"
      /\ queue' = Append(queue, Task(HaltHandling, j.node, NoData))
  BY DEF ReferenceHalts, joins, ended, HaltHandling
<1>2. j.node \in flow.nodes /\ HaltHandling \in Whats
  BY SoundParts, PoolJobType, WhatsAre DEF HaltHandling
<1>3. Running(flow, t)[HaltHandling][j.node] = 0
  BY <1>2, RunningOthers
<1>4. Ahead(flow, w, t)[HaltHandling][j.node] = Onward(flow, w, t, j.node)
  BY <1>2, AheadOthers
<1>5. Runs(t)' = Runs(t) /\ Onward(flow, w, t, j.node) \in Nat /\ Coming(w, t)' \in Nat
  BY <1>1, <1>2, <1>3, JobReturns
<1>6. Coming(w, t)' + Onward(flow, w, t, j.node) =
        Coming(w, t) + Ahead(flow, w, t)[HaltHandling][j.node]
  BY <1>1, <1>2, <1>3, JobReturns
<1>7. Coming(w, t)' = Coming(w, t)
  <2>1. Coming(w, t) \in Nat
    BY ComingParts
  <2> QED
    BY <1>4, <1>5, <1>6, <2>1
<1> QED
  BY <1>1, <1>5, <1>7, SteadyKeeps DEF Steady

\* what a fault loses: every input that would have come of the operation
Loses(w, t, n) == /\ Slack(w, t)' = Slack(w, t) + Onward(flow, w, t, n)
                  /\ Decisions(t)' = Decisions(t)

LEMMA PoolFaultLoses ==
    ASSUME NEW w, NEW rank, Sound(w, rank), NEW j \in jobs, PoolFault(j), NEW t \in flow.nodes
    PROVE  Loses(w, t, j.node)
<1> DEFINE n == j.node
<1>1. /\ flow' = flow /\ UNCHANGED <<calls, remaining, lifecycle, outcomes, started>>
      /\ jobs' = jobs \ {j} /\ j.work # "routing"
      /\ queue' = Append(queue, Task("error", n, NoData)) \/ UNCHANGED queue
  BY DEF PoolFault, joins, ended, Changing
<1>2. n \in flow.nodes /\ "error" \in Whats
  BY SoundParts, PoolJobType, WhatsAre
<1>3. /\ Running(flow, t)["error"][n] = 0
      /\ Ahead(flow, w, t)["error"][n] = 0
  BY <1>2, RunningValues, AheadValues
<1> HIDE DEF n
<1>4. /\ Coming(w, t) \in Nat /\ Runs(t) \in Nat /\ remaining[t] \in Int /\ ToDecide(t) \in Nat
      /\ Onward(flow, w, t, n) \in Nat
  BY <1>2, SlackHere, PathsOn
<1>5. /\ Runs(t)' = Runs(t) /\ Coming(w, t)' \in Nat
      /\ Coming(w, t)' + Onward(flow, w, t, n) = Coming(w, t)
  <2>1. ASSUME queue' = Append(queue, Task("error", n, NoData))
        PROVE  /\ Runs(t)' = Runs(t) /\ Coming(w, t)' \in Nat
               /\ Coming(w, t)' + Onward(flow, w, t, n) = Coming(w, t)
    <3>1. Runs(t)' = Runs(t) /\ Coming(w, t)' \in Nat
      BY <1>1, <1>2, <1>3, <2>1, JobReturns DEF n
    <3>2. Coming(w, t)' + Onward(flow, w, t, n) = Coming(w, t) + Ahead(flow, w, t)["error"][n]
      BY <1>1, <1>2, <1>3, <2>1, JobReturns DEF n
    <3> QED
      BY <1>3, <1>4, <3>1, <3>2
  <2>2. ASSUME UNCHANGED queue
        PROVE  /\ Runs(t)' = Runs(t) /\ Coming(w, t)' \in Nat
               /\ Coming(w, t)' + Onward(flow, w, t, n) = Coming(w, t)
    <3> DEFINE a == Ahead(flow, w, t)
    <3>1. /\ JobsAhead(flow, w, t, jobs) = JobsAhead(flow, w, t, jobs') + JobAhead(flow, w, t, j)
          /\ JobsAhead(flow, w, t, jobs') \in Nat
      BY <1>1, SoundParts, JobLeaves
    <3>2. JobAhead(flow, w, t, j) = Onward(flow, w, t, n)
      BY <1>1 DEF JobAhead, n
    <3>3. Coming(w, t)' = InSeq(a, queue) + JobsAhead(flow, w, t, jobs') + InSeq(a, calls)
                          + JoinsAhead(flow, w, t, Undecided)
      BY <1>1, <2>2, NextSums
    <3>4. Coming(w, t) = InSeq(a, queue) + JobsAhead(flow, w, t, jobs) + InSeq(a, calls)
                         + JoinsAhead(flow, w, t, Undecided)
      BY DEF Coming
    <3>5. /\ InSeq(a, queue) \in Nat /\ InSeq(a, calls) \in Nat
          /\ JoinsAhead(flow, w, t, Undecided) \in Nat
      BY ComingParts
    <3>6. Runs(t)' = Runs(t)
      BY <1>1, <2>2, NextSums DEF Runs
    <3> HIDE DEF a
    <3> QED
      BY <1>4, <3>1, <3>2, <3>3, <3>4, <3>5, <3>6
  <2> QED
    BY <1>1, <2>1, <2>2
<1>6. Slack(w, t) = (IF t \in Joins(flow) THEN remaining[t] ELSE 1 - Runs(t)) - Coming(w, t)
  BY DEF Slack
<1>7. Slack(w, t)' = (IF t \in Joins(flow) THEN remaining[t] ELSE 1 - Runs(t)) - Coming(w, t)'
  BY <1>1, <1>5 DEF Slack
<1>8. Slack(w, t)' = Slack(w, t) + Onward(flow, w, t, n)
  BY <1>4, <1>5, <1>6, <1>7
<1>9. Decisions(t)' = Decisions(t)
  BY <1>1, <1>5 DEF Decisions, ToDecide, Undecided
<1> QED
  BY <1>8, <1>9 DEF Loses, n

\* a routing job with what is left of its work in place of the job
LEMMA RoutingSum ==
    ASSUME NEW w, NEW rank, Sound(w, rank), NEW t \in flow.nodes, NEW j \in jobs,
           NEW todo, todo = <<>> \/ InSeq(Ahead(flow, w, t), todo) \in Nat,
           jobs' = (jobs \ {j}) \cup Routing(j, todo)
    PROVE  JobsAhead(flow, w, t, jobs') =
             JobsAhead(flow, w, t, jobs \ {j})
             + (IF todo = <<>> THEN 0 ELSE InSeq(Ahead(flow, w, t), todo))
<1>1. TypeOK /\ IsFiniteSet(jobs \ {j}) /\ JobsAhead(flow, w, t, jobs \ {j}) \in Nat
  BY SoundParts, JobLeaves
<1>2. CASE todo = <<>>
  <2> DEFINE J == jobs \ {j}
  <2>1. jobs' = J
    BY <1>2 DEF Routing
  <2>2. JobsAhead(flow, w, t, J) \in Nat
    BY <1>1
  <2> HIDE DEF J
  <2>3. JobsAhead(flow, w, t, jobs') = JobsAhead(flow, w, t, J) + 0
    <3>1. \A x \in Nat : x + 0 = x
      OBVIOUS
    <3> QED
      BY <2>1, <2>2, <3>1, Zenon
  <2> QED
    BY <1>2, <2>3 DEF J
<1>3. CASE todo # <<>>
  <2> DEFINE k == Job("routing", j.node, j.data, todo)
             J == jobs \ {j}
  <2>1. k.work = "routing" /\ k.node = j.node /\ k.todo = todo
    BY DEF Job
  <2>2. jobs' = J \cup {k}
    BY <1>3 DEF Routing
  <2>3. JobAhead(flow, w, t, k) = InSeq(Ahead(flow, w, t), todo)
    BY <2>1 DEF JobAhead
  <2>4. \A i \in J : JobAhead(flow, w, t, i) \in Nat
    BY <1>1, SoundParts, PoolJobType, JobAheadType
  <2> HIDE DEF k
  <2>5. k \notin J
    <3>1. \A i \in jobs : i.node = j.node => i = j
      BY DEF Sound, OneJobEach
    <3> QED
      BY <2>1, <3>1
  <2> HIDE DEF J
  <2>6. \A i \in J \cup {k} : JobAhead(flow, w, t, i) \in Nat
    BY <1>3, <2>3, <2>4
  <2>7. JobsAhead(flow, w, t, J \cup {k}) = JobsAhead(flow, w, t, J) + JobAhead(flow, w, t, k)
    <3>1. IsFiniteSet(J)
      BY <1>1 DEF J
    <3> QED
      BY <2>5, <2>6, <3>1, JobComes
  <2> QED
    BY <1>3, <2>2, <2>3, <2>7 DEF J
<1> QED
  BY <1>2, <1>3

LEMMA RoutePostsKeeps ==
    ASSUME NEW w, NEW rank, Sound(w, rank), NEW j \in jobs, RoutePosts(j), NEW t \in flow.nodes
    PROVE  Keeps(w, t)
<1> DEFINE a == Ahead(flow, w, t)
           r == Running(flow, t)
           e == Head(j.todo)
           rest == Tail(j.todo)
<1>1. /\ flow' = flow /\ UNCHANGED <<calls, remaining, lifecycle, outcomes, started>>
      /\ j.work = "routing" /\ j.todo # <<>>
      /\ jobs' = (jobs \ {j}) \cup Routing(j, rest)
      /\ queue' = Append(queue, e)
  BY DEF RoutePosts, joins, ended
<1>2. TypeOK /\ a \in Weights(flow) /\ r \in Weights(flow) /\ IsFiniteSet(jobs)
  BY SoundParts, AheadType, RunningType
<1>3. j.todo \in Seq(Tasks) /\ e \in Tasks /\ rest \in Seq(Tasks) /\ queue \in Seq(Tasks)
  <2>1. j.todo \in Seq(Tasks)
    BY <1>2, PoolJobType
  <2> QED
    BY <1>1, <1>2, <2>1, SeqTail DEF TypeOK
<1>4. Weighs(a, Tasks) /\ Weighs(r, Tasks)
  BY <1>2, Weighing
<1>5. e.what \in {"enter", "halted"} /\ e.node \in flow.nodes
  <2>1. FitsJob(j)
    BY SoundParts DEF Placed
  <2>2. 1 \in DOMAIN j.todo /\ e = j.todo[1]
    BY <1>1, <1>3
  <2>3. e.what \in {"enter", "halted"}
    BY <1>1, <2>1, <2>2 DEF FitsJob
  <2>4. e.node \in flow.nodes
    BY <1>3 DEF Tasks
  <2> QED
    BY <2>3, <2>4
<1>6. InSeq(a, j.todo) = a[e.what][e.node] + InSeq(a, rest)
  BY <1>1, <1>3, <1>4, InSeqTail
<1>7. InSeq(a, rest) \in Nat /\ a[e.what][e.node] \in Nat /\ r[e.what][e.node] = 0
  <2>1. InSeq(a, rest) \in Nat
    BY <1>3, <1>4, InSeqType
  <2>2. a[e.what][e.node] \in Nat
    BY <1>3, <1>4 DEF Weighs
  <2>3. r["enter"][e.node] = 0 /\ r["halted"][e.node] = 0
    BY <1>5, RunningValues
  <2>4. r[e.what][e.node] = 0
    <3> HIDE DEF r, e
    <3> QED
      BY <1>5, <2>3
  <2> QED
    BY <2>1, <2>2, <2>4
<1> DEFINE ae == a[e.what][e.node]
<1>8. InSeq(a, queue') = InSeq(a, queue) + ae
  BY <1>1, <1>3, <1>4, <1>7, InSeqAppend
<1>9. InSeq(r, queue') = InSeq(r, queue) + r[e.what][e.node]
  <2> DEFINE re == r[e.what][e.node]
  <2>1. re \in Nat
    BY <1>7
  <2> QED
    BY <1>1, <1>3, <1>4, <2>1, InSeqAppend
<1>10. JobsAhead(flow, w, t, jobs) = JobsAhead(flow, w, t, jobs \ {j}) + InSeq(a, j.todo)
       /\ JobsAhead(flow, w, t, jobs \ {j}) \in Nat
  <2>1. JobAhead(flow, w, t, j) = InSeq(a, j.todo)
    BY <1>1 DEF JobAhead
  <2> QED
    BY <1>2, <2>1, SoundParts, JobLeaves
<1>11. JobsAhead(flow, w, t, jobs') = JobsAhead(flow, w, t, jobs \ {j}) + InSeq(a, rest)
  <2>1. rest = <<>> => InSeq(a, rest) = 0
    <3>1. PICK n \in flow.nodes : n = e.node
      BY <1>5
    <3> QED
      BY <1>2, CallsSum
  <2>2. JobsAhead(flow, w, t, jobs') = JobsAhead(flow, w, t, jobs \ {j})
             + (IF rest = <<>> THEN 0 ELSE InSeq(a, rest))
    BY <1>1, <1>7, RoutingSum
  <2> HIDE DEF rest, a
  <2> QED
    BY <2>1, <2>2
<1>12. /\ Coming(w, t)' = InSeq(a, queue') + JobsAhead(flow, w, t, jobs') + InSeq(a, calls)
                          + JoinsAhead(flow, w, t, Undecided)
       /\ Runs(t)' = InSeq(r, queue') + InSeq(r, calls) + Ran(t)
  BY <1>1, NextSums
<1>13. Coming(w, t) = InSeq(a, queue) + JobsAhead(flow, w, t, jobs) + InSeq(a, calls)
                      + JoinsAhead(flow, w, t, Undecided)
  BY DEF Coming
<1>14. Runs(t) = InSeq(r, queue) + InSeq(r, calls) + Ran(t)
  BY DEF Runs
<1>15. /\ InSeq(a, queue) \in Nat /\ InSeq(a, calls) \in Nat
       /\ JoinsAhead(flow, w, t, Undecided) \in Nat
       /\ InSeq(r, queue) \in Nat /\ InSeq(r, calls) \in Nat /\ Ran(t) \in Nat
  BY <1>2, ComingParts, RunsParts
<1>16. ae \in Nat
  BY <1>7
<1>17. r[e.what][e.node] = 0
  BY <1>7
<1>18. InSeq(a, j.todo) = ae + InSeq(a, rest) /\ InSeq(a, rest) \in Nat
  BY <1>6, <1>7
<1> HIDE DEF ae, a, e, rest
<1>19. Coming(w, t)' = Coming(w, t)
  BY <1>8, <1>10, <1>11, <1>12, <1>13, <1>15, <1>16, <1>18
<1>20. Runs(t)' = Runs(t)
  <2> HIDE DEF r
  <2> QED
    BY <1>9, <1>12, <1>14, <1>15, <1>17
<1> QED
  BY <1>1, <1>19, <1>20, SteadyKeeps DEF Steady

LEMMA RouteKeeps ==
    ASSUME NEW w, NEW rank, Sound(w, rank), NEW j \in jobs, Route(j), NEW t \in flow.nodes
    PROVE  Keeps(w, t)
<1> DEFINE n == j.node
           children == flow.children[n]
           a == Ahead(flow, w, t)
           r == Running(flow, t)
           wv == [i \in DOMAIN children |-> w[t][children[i].node]]
<1>1. PICK routed \in SUBSET Keys(n) :
         LET copy == Cardinality(routed) > 1
             Tell(i) ==
                 IF children[i].key \in routed
                 THEN Task("enter", children[i].node, IF copy THEN Copy(j.data, i) ELSE j.data)
                 ELSE Task("halted", children[i].node, NoData)
         IN  jobs' = (jobs \ {j}) \cup Routing(j, [i \in DOMAIN children |-> Tell(i)])
  BY DEF Route
<1> DEFINE copy == Cardinality(routed) > 1
           Tell(i) == IF children[i].key \in routed
                      THEN Task("enter", children[i].node, IF copy THEN Copy(j.data, i) ELSE j.data)
                      ELSE Task("halted", children[i].node, NoData)
           todo == [i \in DOMAIN children |-> Tell(i)]
<1>2. /\ flow' = flow /\ UNCHANGED <<queue, calls, remaining, lifecycle, outcomes, started>>
      /\ j.work = "router" /\ jobs' = (jobs \ {j}) \cup Routing(j, todo)
  BY <1>1 DEF Route, joins, ended
<1>3. /\ TypeOK /\ FlowType(flow) /\ WellFormedBy(flow, w, rank) /\ IsFiniteSet(jobs)
      /\ w \in [flow.nodes -> [flow.nodes -> Nat]]
  BY SoundParts
<1>4. n \in flow.nodes
  BY <1>3, PoolJobType
<1>5. IsFiniteSet(DOMAIN children) /\ \A i \in DOMAIN children : children[i].node \in flow.nodes
  BY <1>3, <1>4, FlowChildren
<1>6. \A i \in DOMAIN children : /\ todo[i].what \in {"enter", "halted"}
                                 /\ todo[i].node = children[i].node
  BY DEF Task
<1>7. DOMAIN todo = DOMAIN children
  OBVIOUS
<1>8. children # <<>>
  <2>1. FitsJob(j)
    BY SoundParts DEF Placed
  <2>2. flow.kind[n] = "router"
    BY <1>2, <2>1 DEF FitsJob
  <2> QED
    BY <1>3, <1>4, <2>2 DEF WellFormedBy, Balanced, OneEnd, Ends
<1>9. todo # <<>>
  <2>1. DOMAIN children # {}
    BY <1>3, <1>4, <1>8, FlowChildren
  <2> HIDE DEF todo
  <2> QED
    BY <1>7, <2>1
<1>10. \A i \in DOMAIN children : wv[i] = w[t][children[i].node] /\ wv[i] \in Nat
  BY <1>3, <1>5
<1>11. Onward(flow, w, t, n) = Total(DOMAIN children, wv) /\ Onward(flow, w, t, n) \in Nat
  <2>1. Onward(flow, w, t, n) \in Nat
    BY <1>4, PathsOn
  <2> QED
    BY <2>1 DEF Onward
<1> HIDE DEF todo, children, wv, n
<1>12. InSeq(a, todo) = Onward(flow, w, t, n)
  <2>1. \A i \in DOMAIN children :
           /\ a["enter"][children[i].node] = wv[i]
           /\ a["halted"][children[i].node] = wv[i]
    BY <1>5, <1>10, AheadValues
  <2> HIDE DEF a
  <2>2. \A i \in DOMAIN todo : a[todo[i].what][todo[i].node] = wv[i]
    BY <1>6, <1>7, <2>1
  <2>3. InSeq(a, todo) = Total(DOMAIN todo, wv)
    BY <2>2, InSeqIs
  <2> QED
    BY <1>7, <1>11, <2>3
<1>13. JobAhead(flow, w, t, j) = Onward(flow, w, t, n)
  BY <1>2 DEF JobAhead, n
<1>14. JobsAhead(flow, w, t, jobs) = JobsAhead(flow, w, t, jobs \ {j}) + JobAhead(flow, w, t, j)
  BY <1>3, JobLeaves
<1>15. JobsAhead(flow, w, t, jobs') = JobsAhead(flow, w, t, jobs \ {j}) + InSeq(a, todo)
  <2>1. JobsAhead(flow, w, t, jobs') = JobsAhead(flow, w, t, jobs \ {j})
             + (IF todo = <<>> THEN 0 ELSE InSeq(a, todo))
    <3>1. InSeq(a, todo) \in Nat
      BY <1>11, <1>12
    <3> QED
      BY <1>2, <3>1, RoutingSum
  <2> QED
    BY <1>9, <2>1
<1>16. JobsAhead(flow, w, t, jobs') = JobsAhead(flow, w, t, jobs)
  BY <1>12, <1>13, <1>14, <1>15
<1>17. Coming(w, t)' = Coming(w, t)
  BY <1>2, <1>16, NextSums DEF Coming
<1>18. Runs(t)' = Runs(t)
  BY <1>2, NextSums DEF Runs
<1> QED
  BY <1>2, <1>17, <1>18, SteadyKeeps DEF Steady

-----------------------------------------------------------------------------
(* What an action puts into the queue, into the calls and into the jobs.      *)

LEMMA RangeAppend ==
    ASSUME NEW S, NEW s \in Seq(S), NEW e, NEW x \in Range(Append(s, e))
    PROVE  x \in Range(s) \/ x = e
BY DEF Range

LEMMA RangeConcat ==
    ASSUME NEW S, NEW s \in Seq(S), NEW t \in Seq(S), NEW x \in Range(s \o t)
    PROVE  x \in Range(s) \/ x \in Range(t)
<1>1. PICK i \in DOMAIN (s \o t) : x = (s \o t)[i]
  BY DEF Range
<1>2. Len(s) \in Nat /\ Len(t) \in Nat /\ DOMAIN s = 1 .. Len(s) /\ DOMAIN t = 1 .. Len(t)
  OBVIOUS
<1>3. i \in 1 .. Len(s) + Len(t)
  BY <1>1
<1>4. CASE i <= Len(s)
  <2>1. (s \o t)[i] = s[i] /\ i \in DOMAIN s
    BY <1>2, <1>3, <1>4
  <2> QED
    BY <1>1, <2>1 DEF Range
<1>5. CASE ~ (i <= Len(s))
  <2>1. (s \o t)[i] = t[i - Len(s)] /\ i - Len(s) \in DOMAIN t
    BY <1>2, <1>3, <1>5
  <2> QED
    BY <1>1, <2>1 DEF Range
<1> QED
  BY <1>4, <1>5

LEMMA RangeTail ==
    ASSUME NEW S, NEW s \in Seq(S), s # <<>>
    PROVE  /\ Head(s) \in Range(s)
           /\ \A x \in Range(Tail(s)) : x \in Range(s)
<1>1. Head(s) = s[1] /\ 1 \in DOMAIN s
  OBVIOUS
<1>2. \A i \in DOMAIN Tail(s) : Tail(s)[i] = s[i + 1] /\ i + 1 \in DOMAIN s
  OBVIOUS
<1> QED
  BY <1>1, <1>2 DEF Range

\* nothing new is wrong about x
Good(x) == /\ Fits(x)
           /\ x.what \in {"error", "context error"} => Trouble

NoNews == /\ \A x \in Range(queue') : x \in Range(queue) \/ Good(x)
          /\ \A x \in Range(calls') : x \in Range(calls) \/ Good(x)
          /\ \A o \in Range(outcomes') : o \in Range(outcomes) \/ (o.kind = "error" => Trouble)

JobsFit == \A j \in jobs : FitsJob(j)

LEMMA FitsStays ==
    ASSUME flow' = flow, NEW x
    PROVE  /\ (Fits(x)' <=> Fits(x)) /\ (FitsJob(x)' <=> FitsJob(x))
BY DEF Fits, FitsJob

LEMMA PlacedRange ==
    /\ Placed <=> /\ \A x \in Range(queue) : Fits(x)
                  /\ \A x \in Range(calls) : Fits(x)
                  /\ JobsFit
    /\ Trouble <=> \/ \E x \in Range(queue) : x.what = "error"
                   \/ \E x \in Range(calls) : x.what \in {"error", "context error"}
                   \/ \E o \in Range(outcomes) : o.kind = "error"
BY DEF Range, Placed, Trouble, JobsFit

LEMMA NoNewsKeeps ==
    ASSUME Placed, flow' = flow, NoNews, JobsFit'
    PROVE  Placed' /\ (Trouble' => Trouble)
<1>1. \A x \in Range(queue') : Fits(x)
  BY PlacedRange DEF NoNews, Good
<1>2. \A x \in Range(calls') : Fits(x)
  BY PlacedRange DEF NoNews, Good
<1>3. /\ \A x \in Range(queue') : Fits(x)'
      /\ \A x \in Range(calls') : Fits(x)'
  BY <1>1, <1>2, FitsStays
<1>4. Placed'
  BY <1>3 DEF Range, Placed, JobsFit
<1>5. ASSUME Trouble' PROVE Trouble
  <2>1. \/ \E x \in Range(queue') : x.what = "error"
        \/ \E x \in Range(calls') : x.what \in {"error", "context error"}
        \/ \E o \in Range(outcomes') : o.kind = "error"
    BY <1>5 DEF Range, Trouble
  <2> QED
    BY <2>1, PlacedRange DEF NoNews, Good
<1> QED
  BY <1>4, <1>5

LEMMA JobsStay ==
    ASSUME JobsFit, OneJobEach, flow' = flow, jobs' \subseteq jobs
    PROVE  JobsFit' /\ OneJobEach'
<1>1. IsFiniteSet(jobs')
  BY FS_Subset DEF OneJobEach
<1>2. OneJobEach'
  BY <1>1 DEF OneJobEach
<1>3. \A j \in jobs' : FitsJob(j)'
  BY FitsStays DEF JobsFit
<1> QED
  BY <1>2, <1>3 DEF JobsFit

\* a job comes to a node that has none, in place of the jobs that leave
LEMMA JobAdded ==
    ASSUME JobsFit, OneJobEach, flow' = flow, NEW J \in SUBSET jobs, NEW k,
           jobs' = J \cup {k}, FitsJob(k), \A i \in J : i.node # k.node
    PROVE  JobsFit' /\ OneJobEach'
<1>1. IsFiniteSet(J)
  BY FS_Subset DEF OneJobEach
<1>2. IsFiniteSet(jobs')
  BY <1>1, FS_AddElement
<1>3. OneJobEach'
  BY <1>2 DEF OneJobEach
<1>4. \A j \in jobs' : FitsJob(j)
  BY DEF JobsFit
<1>5. \A j \in jobs' : FitsJob(j)'
  BY <1>4, FitsStays
<1> QED
  BY <1>3, <1>5 DEF JobsFit

LEMMA CallsFit ==
    ASSUME NEW m
    PROVE  /\ m \in MayHalt(flow) => Fits(Call("halted", m))
           /\ Fits(Call("error", m)) /\ Fits(Call("context error", m))
           /\ flow.kind[m] = "end" => Fits(Call("context halted", m))
           /\ Call("halted", m).what = "halted" /\ Call("context halted", m).what = "context halted"
<1>1. \A what : Call(what, m).what = what /\ Call(what, m).node = m
  BY DEF Call
<1>2. ASSUME NEW c, c.what = "halted", c.node \in MayHalt(flow) PROVE Fits(c)
  BY <1>2 DEF Fits
<1>3. ASSUME NEW c, c.what = "error" PROVE Fits(c)
  BY <1>3 DEF Fits
<1>4. ASSUME NEW c, c.what = "context error" PROVE Fits(c)
  BY <1>4 DEF Fits
<1>5. ASSUME NEW c, c.what = "context halted", flow.kind[c.node] = "end" PROVE Fits(c)
  BY <1>5 DEF Fits
<1>6. m \in MayHalt(flow) => Fits(Call("halted", m))
  BY <1>1, <1>2, Zenon
<1>7. Fits(Call("error", m)) /\ Fits(Call("context error", m))
  BY <1>1, <1>3, <1>4, Zenon
<1>8. flow.kind[m] = "end" => Fits(Call("context halted", m))
  BY <1>1, <1>5, Zenon
<1> QED
  BY <1>1, <1>6, <1>7, <1>8

LEMMA RangeOne ==
    ASSUME NEW e, NEW x \in Range(<<e>>)
    PROVE  x = e
BY DEF Range

LEMMA HandlersFit ==
    ASSUME FlowType(flow), NEW n \in flow.nodes
    PROVE  /\ \A x \in Range(HaltHandlers(n)) : Fits(x) /\ x.what \notin {"error", "context error"}
           /\ \A x \in Range(ErrorHandlers(n)) : Fits(x)
<1> DEFINE ls == flow.listeners[n]
           halted == [i \in DOMAIN ls |-> Call("halted", ls[i])]
           error  == [i \in DOMAIN ls |-> Call("error", ls[i])]
           own == IF flow.kind[n] = "end" THEN <<Call("context halted", n)>> ELSE <<>>
           last == <<Call("context error", n)>>
<1>1. \A i \in DOMAIN ls : ls[i] \in MayHalt(flow)
  <2>1. \A i \in DOMAIN ls : ls[i] \in Range(ls)
    BY DEF Range
  <2> HIDE DEF ls
  <2>2. \A x \in Range(ls) : x \in MayHalt(flow)
    <3>1. \A i \in DOMAIN ls : ls[i] \in flow.nodes
      BY FlowListeners DEF ls
    <3>2. \A x \in Range(ls) : x \in flow.nodes
      BY <3>1 DEF Range
    <3> QED
      BY <3>2 DEF MayHalt, ls
  <2> QED
    BY <2>1, <2>2
<1>2. halted \in Seq(Calls) /\ error \in Seq(Calls)
  BY ListenersSum, RunningType
<1>3. own \in Seq(Calls) /\ last \in Seq(Calls)
  <2>1. \A m \in flow.nodes : /\ <<Call("context halted", m)>> \in Seq(Calls)
                              /\ <<Call("context error", m)>> \in Seq(Calls)
    BY DEF Call, Calls
  <2>2. << >> \in Seq(Calls)
    OBVIOUS
  <2> QED
    BY <2>1, <2>2
<1>4. HaltHandlers(n) = halted \o own /\ ErrorHandlers(n) = error \o last
  BY DEF HaltHandlers, ErrorHandlers
<1>5. \A x \in Range(halted) : Fits(x) /\ x.what \notin {"error", "context error"}
  <2>1. \A x \in Range(halted) : \E i \in DOMAIN ls : x = Call("halted", ls[i])
    BY DEF Range
  <2> QED
    BY <1>1, <2>1, CallsFit
<1>6. \A x \in Range(error) : Fits(x)
  <2>1. \A x \in Range(error) : \E i \in DOMAIN ls : x = Call("error", ls[i])
    BY DEF Range
  <2> QED
    BY <2>1, CallsFit
<1>7. \A x \in Range(own) : Fits(x) /\ x.what \notin {"error", "context error"}
  <2>1. CASE flow.kind[n] = "end"
    <3>1. \A x \in Range(own) : x = Call("context halted", n)
      BY <2>1, RangeOne
    <3> QED
      BY <2>1, <3>1, CallsFit
  <2>2. CASE flow.kind[n] # "end"
    <3>1. Range(own) = {}
      BY <2>2 DEF Range
    <3> QED
      BY <3>1
  <2> QED
    BY <2>1, <2>2
<1>8. \A x \in Range(last) : Fits(x)
  <2>1. \A x \in Range(last) : x = Call("context error", n)
    BY RangeOne
  <2> QED
    BY <2>1, CallsFit
<1> HIDE DEF halted, error, own, last
<1>9. \A x \in Range(HaltHandlers(n)) : x \in Range(halted) \/ x \in Range(own)
  BY <1>2, <1>3, <1>4, RangeConcat
<1>10. \A x \in Range(ErrorHandlers(n)) : x \in Range(error) \/ x \in Range(last)
  BY <1>2, <1>3, <1>4, RangeConcat
<1> QED
  BY <1>5, <1>6, <1>7, <1>8, <1>9, <1>10

Orderly == NoNews /\ JobsFit' /\ OneJobEach'

LEMMA OrderlyParts ==
    ASSUME NEW w, NEW rank, Sound(w, rank)
    PROVE  /\ queue \in Seq(Tasks) /\ calls \in Seq(Calls) /\ FlowType(flow) /\ TypeOK
           /\ JobsFit /\ OneJobEach
           /\ \A x \in Range(queue) : Fits(x)
           /\ \A x \in Range(calls) : Fits(x)
           /\ queue # <<>> => /\ Tail(queue) \in Seq(Tasks) /\ Fits(Head(queue))
                              /\ Here \in flow.nodes
                              /\ \A x \in Range(Tail(queue)) : x \in Range(queue)
           /\ calls # <<>> => /\ Tail(calls) \in Seq(Calls) /\ Fits(Head(calls))
                              /\ Head(calls).node \in flow.nodes
                              /\ \A x \in Range(Tail(calls)) : x \in Range(calls)
<1>1. TypeOK /\ FlowType(flow) /\ Placed /\ OneJobEach
  BY SoundParts DEF Sound
<1>2. queue \in Seq(Tasks) /\ calls \in Seq(Calls)
  BY <1>1 DEF TypeOK
<1>3. JobsFit /\ (\A x \in Range(queue) : Fits(x)) /\ (\A x \in Range(calls) : Fits(x))
  BY <1>1, PlacedRange
<1>4. ASSUME queue # <<>>
      PROVE  /\ Tail(queue) \in Seq(Tasks) /\ Fits(Head(queue)) /\ Here \in flow.nodes
             /\ \A x \in Range(Tail(queue)) : x \in Range(queue)
  BY <1>1, <1>2, <1>3, <1>4, RangeTail, TakenType
<1>5. ASSUME calls # <<>>
      PROVE  /\ Tail(calls) \in Seq(Calls) /\ Fits(Head(calls)) /\ Head(calls).node \in flow.nodes
             /\ \A x \in Range(Tail(calls)) : x \in Range(calls)
  <2>1. Head(calls) \in Calls /\ Tail(calls) \in Seq(Calls)
    BY <1>2, <1>5, SeqTail
  <2>2. Head(calls).node \in flow.nodes
    BY <2>1 DEF Calls
  <2> QED
    BY <1>2, <1>3, <1>5, <2>1, <2>2, RangeTail
<1> QED
  BY <1>1, <1>2, <1>3, <1>4, <1>5

\* a task that runs an action goes into the queue
LEMMA PostsAction ==
    ASSUME NEW q \in Seq(Tasks), \A x \in Range(q) : x \in Range(queue),
           NEW what \in {"main", "run"}, NEW n, NEW d, queue' = Append(q, Task(what, n, d))
    PROVE  \A x \in Range(queue') : x \in Range(queue) \/ Good(x)
<1> DEFINE e == Task(what, n, d)
<1>1. e.what = what
  BY DEF Task
<1>2. queue' = Append(q, e)
  OBVIOUS
<1> HIDE DEF e
<1>3. Good(e)
  BY <1>1 DEF Good, Fits
<1>4. \A x \in Range(queue') : x \in Range(q) \/ x = e
  BY <1>2, RangeAppend
<1> QED
  BY <1>3, <1>4

LEMMA CallChildrenOrderly ==
    ASSUME NEW w, NEW rank, Sound(w, rank), queue # <<>>, NEW n \in flow.nodes, NEW d,
           CallChildren(n, d)
    PROVE  \A x \in Range(queue') : x \in Range(queue) \/ Good(x)
<1> DEFINE c == flow.children[n]
           posted == [i \in DOMAIN c |->
                        Task("main", c[i].node, IF Len(c) > 1 THEN Copy(d, i) ELSE d)]
           S == Tasks \cup Range(posted)
<1>1. queue' = Tail(queue) \o posted
  BY DEF CallChildren
<1>2. posted \in Seq(Range(posted))
  <2>1. c \in Seq([node : flow.nodes, key : Nat])
    BY SoundParts DEF FlowType
  <2>2. posted = [i \in DOMAIN c |-> posted[i]] /\ \A i \in DOMAIN c : posted[i] \in Range(posted)
    BY DEF Range
  <2> HIDE DEF posted
  <2> QED
    BY <2>1, <2>2, SeqOfFunction
<1>3. \A i \in DOMAIN posted : posted[i].what = "main"
  BY DEF Task
<1> HIDE DEF posted
<1>4. Tail(queue) \in Seq(S) /\ posted \in Seq(S)
  BY <1>2, OrderlyParts, SeqMonotone
<1>5. \A x \in Range(queue') : x \in Range(Tail(queue)) \/ x \in Range(posted)
  BY <1>1, <1>4, RangeConcat
<1>6. \A x \in Range(posted) : Good(x)
  <2>1. \A x \in Range(posted) : x.what = "main"
    BY <1>3 DEF Range
  <2> QED
    BY <2>1 DEF Good, Fits
<1> QED
  BY <1>5, <1>6, OrderlyParts

\* Main and Run
LEMMA ActOrderly ==
    ASSUME NEW w, NEW rank, Sound(w, rank), queue # <<>>, flow' = flow, UNCHANGED calls,
           Act(Here, Given), flow.kind[Here] # "end" => started[Here] = 0
    PROVE  Orderly
<1> DEFINE n == Here
<1>1. n \in flow.nodes /\ JobsFit /\ OneJobEach /\ JobsInv
  BY OrderlyParts, SoundParts
<1>2. \A x \in Range(calls') : x \in Range(calls) \/ Good(x)
  OBVIOUS
<1>3. \A x \in Range(Tail(queue)) : x \in Range(queue)
  BY OrderlyParts
<1>4. ASSUME flow.kind[n] = "start", CallChildren(n, Given), UNCHANGED <<jobs, ended, started>>
      PROVE  Orderly
  <2>1. \A x \in Range(queue') : x \in Range(queue) \/ Good(x)
    BY <1>1, <1>4, CallChildrenOrderly
  <2>2. outcomes' = outcomes
    BY <1>4 DEF ended
  <2>3. JobsFit' /\ OneJobEach'
    BY <1>1, <1>4, JobsStay
  <2> QED
    BY <1>2, <2>1, <2>2, <2>3 DEF Orderly, NoNews
<1>5. ASSUME flow.kind[n] \in {"operation", "async", "reference", "router"},
             jobs' = jobs \cup {Job(flow.kind[n], n, Given, <<>>)},
             started' = [started EXCEPT ![n] = @ + 1],
             queue' = Tail(queue), UNCHANGED <<heap, ended>>
      PROVE  Orderly
  <2> DEFINE k == Job(flow.kind[n], n, Given, <<>>)
  <2>1. k.node = n /\ k.work = flow.kind[n]
    BY DEF Job
  <2>2. jobs' = jobs \cup {k} /\ started[n] = 0 /\ outcomes' = outcomes
    BY <1>5 DEF ended
  <2>3. k.work # "routing"
    BY <1>5, <2>1
  <2> HIDE DEF k
  <2>4. FitsJob(k)
    BY <2>1, <2>3 DEF FitsJob
  <2>5. \A i \in jobs : i.node # k.node
    <3> SUFFICES ASSUME NEW i \in jobs, i.node = n PROVE FALSE
      BY <2>1
    <3>1. started[i.node] > 0
      BY <1>1 DEF JobsInv
    <3> QED
      BY <2>2, <3>1
  <2>6. JobsFit' /\ OneJobEach'
    BY <1>1, <2>2, <2>4, <2>5, JobAdded
  <2> QED
    BY <1>2, <1>3, <1>5, <2>2, <2>6 DEF Orderly, NoNews
<1>6. ASSUME flow.kind[n] = "end", Finish("ok", "completed", heap[Given.at]),
             queue' = Tail(queue), UNCHANGED <<jobs, heap, started>>
      PROVE  Orderly
  <2>1. JobsFit' /\ OneJobEach'
    BY <1>1, <1>6, JobsStay
  <2>2. \A o \in Range(outcomes') : o \in Range(outcomes) \/ (o.kind = "error" => Trouble)
    <3> DEFINE o == [kind |-> "ok", data |-> heap[Given.at]]
    <3>1. outcomes' = Append(outcomes, o) /\ o.kind = "ok"
      BY <1>6 DEF Finish
    <3> DEFINE S == [kind : {"ok", "halted", "error"}, data : SUBSET flow.nodes]
    <3>2. outcomes \in Seq(S)
      BY SoundParts DEF TypeOK
    <3> HIDE DEF o, S
    <3> QED
      BY <3>1, <3>2, RangeAppend
  <2> QED
    BY <1>2, <1>3, <1>6, <2>1, <2>2 DEF Orderly, NoNews
<1> QED
  BY <1>4, <1>5, <1>6 DEF Act

LEMMA EnterOrderly ==
    ASSUME NEW w, NEW rank, Sound(w, rank), Enter
    PROVE  Orderly
<1>1. /\ queue # <<>> /\ flow' = flow /\ UNCHANGED <<calls, jobs, outcomes>>
      /\ queue' = Append(Tail(queue), Task("main", Here, Given))
  BY DEF Enter, Taking, ended
<1>2. \A x \in Range(queue') : x \in Range(queue) \/ Good(x)
  BY <1>1, OrderlyParts, PostsAction
<1>3. JobsFit' /\ OneJobEach'
  BY <1>1, OrderlyParts, JobsStay
<1> QED
  BY <1>1, <1>2, <1>3 DEF Orderly, NoNews

LEMMA ArriveOrderly ==
    ASSUME NEW w, NEW rank, Sound(w, rank), Arrive
    PROVE  Orderly
<1> DEFINE data == Append(arrived[Here], Given)
<1>1. /\ queue # <<>> /\ flow' = flow /\ UNCHANGED <<calls, jobs, outcomes>>
      /\ Merge(Here, data, Tail(queue)) \/ queue' = Tail(queue)
  BY DEF Arrive, Taking, ended
<1>2. \A x \in Range(queue') : x \in Range(queue) \/ Good(x)
  <2>1. ASSUME Merge(Here, data, Tail(queue))
        PROVE  \A x \in Range(queue') : x \in Range(queue) \/ Good(x)
    <3> DEFINE d == Ref(data[1].at, UNION { data[i].meant : i \in DOMAIN data })
    <3>1. queue' = Append(Tail(queue), Task("run", Here, d))
      BY <2>1 DEF Merge
    <3> HIDE DEF d
    <3> QED
      BY <1>1, <3>1, OrderlyParts, PostsAction
  <2>2. ASSUME queue' = Tail(queue)
        PROVE  \A x \in Range(queue') : x \in Range(queue) \/ Good(x)
    BY <1>1, <2>2, OrderlyParts
  <2> QED
    BY <1>1, <2>1, <2>2
<1>3. JobsFit' /\ OneJobEach'
  BY <1>1, OrderlyParts, JobsStay
<1> QED
  BY <1>1, <1>2, <1>3 DEF Orderly, NoNews

LEMMA AfterOrderly ==
    ASSUME NEW w, NEW rank, Sound(w, rank), After
    PROVE  Orderly
<1>1. /\ queue # <<>> /\ flow' = flow /\ UNCHANGED <<calls, jobs, outcomes>>
      /\ CallChildren(Here, Given)
  BY DEF After, Taking, ended
<1>2. \A x \in Range(queue') : x \in Range(queue) \/ Good(x)
  BY <1>1, OrderlyParts, CallChildrenOrderly
<1>3. JobsFit' /\ OneJobEach'
  BY <1>1, OrderlyParts, JobsStay
<1> QED
  BY <1>1, <1>2, <1>3 DEF Orderly, NoNews

LEMMA StartCascadeOrderly ==
    ASSUME NEW w, NEW rank, Sound(w, rank), StartCascade
    PROVE  Orderly
<1> DEFINE n == Here
<1>1. /\ queue # <<>> /\ flow' = flow /\ queue' = Tail(queue) /\ UNCHANGED <<jobs, outcomes>>
      /\ \/ Head(queue).what = "halted"        /\ calls' = <<Call("halted", n)>>
         \/ Head(queue).what = "halt handlers" /\ calls' = HaltHandlers(n)
         \/ Head(queue).what = "error"         /\ calls' = ErrorHandlers(n)
  BY DEF StartCascade, ended
<1>2. /\ Fits(Head(queue)) /\ n \in flow.nodes /\ FlowType(flow)
      /\ \A x \in Range(Tail(queue)) : x \in Range(queue)
  BY <1>1, OrderlyParts
<1>3. ASSUME Head(queue).what = "halted", calls' = <<Call("halted", n)>>
      PROVE  \A x \in Range(calls') : Good(x)
  <2>1. n \in MayHalt(flow)
    BY <1>2, <1>3 DEF Fits, Here
  <2>2. Good(Call("halted", n))
    BY <2>1, CallsFit DEF Good
  <2>3. \A x \in Range(calls') : x = Call("halted", n)
    BY <1>3, RangeOne
  <2> QED
    BY <2>2, <2>3
<1>4. ASSUME calls' = HaltHandlers(n) PROVE \A x \in Range(calls') : Good(x)
  BY <1>2, <1>4, HandlersFit DEF Good
<1>5. ASSUME Head(queue).what = "error", calls' = ErrorHandlers(n)
      PROVE  \A x \in Range(calls') : Good(x)
  <2>1. Trouble
    <3>1. Head(queue) \in Range(queue)
      BY <1>1, OrderlyParts, RangeTail
    <3> QED
      BY <1>5, <3>1, PlacedRange
  <2> QED
    BY <1>2, <1>5, <2>1, HandlersFit DEF Good
<1>6. JobsFit' /\ OneJobEach'
  BY <1>1, OrderlyParts, JobsStay
<1>7. \A x \in Range(calls') : Good(x)
  BY <1>1, <1>3, <1>4, <1>5
<1> QED
  BY <1>1, <1>2, <1>6, <1>7 DEF Orderly, NoNews

\* handlers that are called before the calls there are
LEMMA HandlersOrderly ==
    ASSUME NEW w, NEW rank, Sound(w, rank), calls # <<>>, NEW s \in Seq(Calls),
           \A x \in Range(s) : Good(x), calls' = s \o Tail(calls)
    PROVE  \A x \in Range(calls') : x \in Range(calls) \/ Good(x)
<1>1. Tail(calls) \in Seq(Calls) /\ \A x \in Range(Tail(calls)) : x \in Range(calls)
  BY OrderlyParts
<1>2. \A x \in Range(calls') : x \in Range(s) \/ x \in Range(Tail(calls))
  BY <1>1, RangeConcat
<1> QED
  BY <1>1, <1>2

LEMMA HaltPlainOrderly ==
    ASSUME NEW w, NEW rank, Sound(w, rank), HaltPlain
    PROVE  Orderly
<1> DEFINE n == Head(calls).node
<1>1. /\ calls # <<>> /\ flow' = flow /\ calls' = HaltHandlers(n) \o Tail(calls)
      /\ UNCHANGED <<queue, jobs, outcomes>>
  BY DEF HaltPlain, Calling, ended
<1>2. n \in flow.nodes /\ FlowType(flow)
  BY <1>1, OrderlyParts
<1>3. HaltHandlers(n) \in Seq(Calls) /\ \A x \in Range(HaltHandlers(n)) : Good(x)
  BY <1>2, HandlersType, HandlersFit DEF Good
<1>4. \A x \in Range(calls') : x \in Range(calls) \/ Good(x)
  BY <1>1, <1>3, HandlersOrderly
<1>5. JobsFit' /\ OneJobEach'
  BY <1>1, OrderlyParts, JobsStay
<1> QED
  BY <1>1, <1>4, <1>5 DEF Orderly, NoNews

LEMMA HaltJoinOrderly ==
    ASSUME NEW w, NEW rank, Sound(w, rank), HaltJoin
    PROVE  Orderly
<1> DEFINE n == Head(calls).node
           data == arrived[n]
<1>1. /\ calls # <<>> /\ flow' = flow /\ UNCHANGED <<jobs, outcomes>>
      /\ Merge(n, data, queue) \/ UNCHANGED queue
      /\ calls' = HaltHandlers(n) \o Tail(calls) \/ calls' = Tail(calls)
  BY DEF HaltJoin, Calling, ended
<1>2. /\ n \in flow.nodes /\ FlowType(flow) /\ queue \in Seq(Tasks)
      /\ \A x \in Range(Tail(calls)) : x \in Range(calls)
  BY <1>1, OrderlyParts
<1>3. HaltHandlers(n) \in Seq(Calls) /\ \A x \in Range(HaltHandlers(n)) : Good(x)
  BY <1>2, HandlersType, HandlersFit DEF Good
<1>4. \A x \in Range(calls') : x \in Range(calls) \/ Good(x)
  BY <1>1, <1>2, <1>3, HandlersOrderly
<1>5. \A x \in Range(queue') : x \in Range(queue) \/ Good(x)
  <2>1. ASSUME Merge(n, data, queue)
        PROVE  \A x \in Range(queue') : x \in Range(queue) \/ Good(x)
    <3> DEFINE d == Ref(data[1].at, UNION { data[i].meant : i \in DOMAIN data })
    <3>1. queue' = Append(queue, Task("run", n, d))
      BY <2>1 DEF Merge
    <3> HIDE DEF d
    <3> QED
      BY <1>2, <3>1, PostsAction
  <2> QED
    BY <1>1, <2>1
<1>6. JobsFit' /\ OneJobEach'
  BY <1>1, OrderlyParts, JobsStay
<1> QED
  BY <1>1, <1>4, <1>5, <1>6 DEF Orderly, NoNews

LEMMA ErrorNodeOrderly ==
    ASSUME NEW w, NEW rank, Sound(w, rank), ErrorNode
    PROVE  Orderly
<1> DEFINE n == Head(calls).node
<1>1. /\ calls # <<>> /\ flow' = flow /\ calls' = ErrorHandlers(n) \o Tail(calls)
      /\ Head(calls).what = "error" /\ UNCHANGED <<queue, jobs, outcomes>>
  BY DEF ErrorNode, Calling, ended
<1>2. n \in flow.nodes /\ FlowType(flow)
  BY <1>1, OrderlyParts
<1>3. Trouble
  <2>1. Head(calls) \in Range(calls)
    BY <1>1, OrderlyParts, RangeTail
  <2> QED
    BY <1>1, <2>1, PlacedRange
<1>4. ErrorHandlers(n) \in Seq(Calls) /\ \A x \in Range(ErrorHandlers(n)) : Good(x)
  BY <1>2, <1>3, HandlersType, HandlersFit DEF Good
<1>5. \A x \in Range(calls') : x \in Range(calls) \/ Good(x)
  BY <1>1, <1>4, HandlersOrderly
<1>6. JobsFit' /\ OneJobEach'
  BY <1>1, OrderlyParts, JobsStay
<1> QED
  BY <1>1, <1>5, <1>6 DEF Orderly, NoNews

LEMMA ContextCallOrderly ==
    ASSUME NEW w, NEW rank, Sound(w, rank), ContextCall
    PROVE  Orderly
<1>1. /\ calls # <<>> /\ flow' = flow /\ calls' = Tail(calls) /\ UNCHANGED <<queue, jobs>>
      /\ \/ Finish("halted", "halts", {})
         \/ Head(calls).what = "context error" /\ Finish("error", "errors", {})
  BY DEF ContextCall, Calling
<1>2. \A x \in Range(calls') : x \in Range(calls)
  BY <1>1, OrderlyParts
<1>3. JobsFit' /\ OneJobEach'
  BY <1>1, OrderlyParts, JobsStay
<1> DEFINE S == [kind : {"ok", "halted", "error"}, data : SUBSET flow.nodes]
<1>4. outcomes \in Seq(S)
  BY SoundParts DEF TypeOK
<1> HIDE DEF S
<1>5. PICK o : /\ outcomes' = Append(outcomes, o)
               /\ o.kind = "error" => Head(calls).what = "context error"
  <2>1. ASSUME Finish("halted", "halts", {})
        PROVE  \E o : /\ outcomes' = Append(outcomes, o)
                      /\ o.kind = "error" => Head(calls).what = "context error"
    <3> DEFINE e == [kind |-> "halted", data |-> {}]
    <3>1. outcomes' = Append(outcomes, e) /\ e.kind = "halted"
      BY <2>1 DEF Finish
    <3> HIDE DEF e
    <3> QED
      BY <3>1
  <2>2. ASSUME Head(calls).what = "context error", Finish("error", "errors", {})
        PROVE  \E o : /\ outcomes' = Append(outcomes, o)
                      /\ o.kind = "error" => Head(calls).what = "context error"
    BY <2>2 DEF Finish
  <2> QED
    BY <1>1, <2>1, <2>2
<1>6. o.kind = "error" => Trouble
  <2>1. Head(calls) \in Range(calls)
    BY <1>1, OrderlyParts, RangeTail
  <2> QED
    BY <1>5, <2>1, PlacedRange
<1>7. \A p \in Range(outcomes') : p \in Range(outcomes) \/ p = o
  BY <1>4, <1>5, RangeAppend
<1> QED
  BY <1>1, <1>2, <1>3, <1>6, <1>7 DEF Orderly, NoNews

-----------------------------------------------------------------------------
(* ... and what the pool does.                                               *)

LEMMA MainOrderly ==
    ASSUME NEW w, NEW rank, Sound(w, rank), Main
    PROVE  Orderly
<1>1. queue # <<>> /\ flow' = flow /\ UNCHANGED calls /\ Act(Here, Given)
  BY DEF Main, Taking
<1>2. PICK t \in flow.nodes : t = Here
  BY <1>1, OrderlyParts
<1>3. flow.kind[Here] # "end" => started[Here] = 0
  BY <1>2, MainKeeps
<1> QED
  BY <1>1, <1>3, ActOrderly

LEMMA RunOrderly ==
    ASSUME NEW w, NEW rank, Sound(w, rank), Run
    PROVE  Orderly
<1>1. queue # <<>> /\ flow' = flow /\ UNCHANGED calls /\ Act(Here, Given)
  BY DEF Run, Taking
<1>2. PICK t \in flow.nodes : t = Here
  BY <1>1, OrderlyParts
<1>3. flow.kind[Here] # "end" => started[Here] = 0
  BY <1>2, RunKeeps
<1> QED
  BY <1>1, <1>3, ActOrderly

LEMMA PoolParts ==
    ASSUME NEW w, NEW rank, Sound(w, rank), NEW j \in jobs
    PROVE  /\ j.node \in flow.nodes /\ FitsJob(j) /\ JobsFit /\ OneJobEach
           /\ queue \in Seq(Tasks) /\ j.todo \in Seq(Tasks)
           /\ \A i \in jobs \ {j} : i.node # j.node
<1>1. TypeOK /\ JobsFit /\ OneJobEach /\ queue \in Seq(Tasks)
  BY OrderlyParts
<1>2. j.node \in flow.nodes /\ j.todo \in Seq(Tasks)
  BY <1>1, PoolJobType
<1>3. \A i \in jobs \ {j} : i.node # j.node
  BY <1>1 DEF OneJobEach
<1> QED
  BY <1>1, <1>2, <1>3 DEF JobsFit

LEMMA CompleteOrderly ==
    ASSUME NEW w, NEW rank, Sound(w, rank), NEW j \in jobs, Complete(j)
    PROVE  Orderly
<1> DEFINE e == Task("next", j.node, Ref(j.data.at, j.data.meant \cup {j.node}))
<1>1. /\ flow' = flow /\ UNCHANGED <<calls, outcomes>> /\ j.work \in Changing
      /\ jobs' = jobs \ {j} /\ queue' = Append(queue, e)
  BY DEF Complete, ended
<1>2. e.what = "next" /\ e.node = j.node
  BY DEF Task
<1> HIDE DEF e
<1>3. Good(e)
  <2>1. flow.kind[j.node] \in Changing
    BY <1>1, PoolParts DEF FitsJob, Changing
  <2> QED
    BY <1>2, <2>1 DEF Good, Fits
<1>4. \A x \in Range(queue') : x \in Range(queue) \/ Good(x)
  <2>1. \A x \in Range(queue') : x \in Range(queue) \/ x = e
    BY <1>1, PoolParts, RangeAppend
  <2> QED
    BY <1>3, <2>1
<1>5. JobsFit' /\ OneJobEach'
  BY <1>1, PoolParts, JobsStay
<1> QED
  BY <1>1, <1>4, <1>5 DEF Orderly, NoNews

LEMMA ReferenceHaltsOrderly ==
    ASSUME NEW w, NEW rank, Sound(w, rank), NEW j \in jobs, ReferenceHalts(j)
    PROVE  Orderly
<1> DEFINE e == Task("halt handlers", j.node, NoData)
<1>1. /\ flow' = flow /\ UNCHANGED <<calls, outcomes>> /\ j.work = "reference"
      /\ jobs' = jobs \ {j} /\ queue' = Append(queue, e)
  BY DEF ReferenceHalts, ended
<1>2. e.what = "halt handlers" /\ e.node = j.node
  BY DEF Task
<1> HIDE DEF e
<1>3. Good(e)
  <2>1. flow.kind[j.node] = "reference"
    BY <1>1, PoolParts DEF FitsJob
  <2> QED
    BY <1>2, <2>1 DEF Good, Fits
<1>4. \A x \in Range(queue') : x \in Range(queue) \/ Good(x)
  <2>1. \A x \in Range(queue') : x \in Range(queue) \/ x = e
    BY <1>1, PoolParts, RangeAppend
  <2> QED
    BY <1>3, <2>1
<1>5. JobsFit' /\ OneJobEach'
  BY <1>1, PoolParts, JobsStay
<1> QED
  BY <1>1, <1>4, <1>5 DEF Orderly, NoNews

\* a job that routes what there is to route, in place of its own
LEMMA RoutingFits ==
    ASSUME NEW w, NEW rank, Sound(w, rank), NEW j \in jobs, flow' = flow,
           flow.kind[j.node] = "router",
           NEW todo, jobs' = (jobs \ {j}) \cup Routing(j, todo),
           \A i \in DOMAIN todo : Fits(todo[i]) /\ todo[i].what \in {"enter", "halted"}
    PROVE  JobsFit' /\ OneJobEach'
<1> DEFINE J == jobs \ {j}
<1>1. CASE todo = <<>>
  <2>1. jobs' \subseteq jobs
    BY <1>1 DEF Routing
  <2> QED
    BY <2>1, PoolParts, JobsStay
<1>2. CASE todo # <<>>
  <2> DEFINE k == Job("routing", j.node, j.data, todo)
  <2>1. k.work = "routing" /\ k.node = j.node /\ k.todo = todo
    BY DEF Job
  <2>2. jobs' = J \cup {k}
    BY <1>2 DEF Routing
  <2> HIDE DEF k
  <2>3. FitsJob(k)
    BY <1>2, <2>1 DEF FitsJob
  <2>4. \A i \in J : i.node # k.node
    BY <2>1, PoolParts
  <2>5. J \in SUBSET jobs
    OBVIOUS
  <2> HIDE DEF J
  <2> QED
    BY <2>2, <2>3, <2>4, <2>5, PoolParts, JobAdded
<1> QED
  BY <1>1, <1>2

LEMMA RoutePostsOrderly ==
    ASSUME NEW w, NEW rank, Sound(w, rank), NEW j \in jobs, RoutePosts(j)
    PROVE  Orderly
<1> DEFINE e == Head(j.todo)
           rest == Tail(j.todo)
<1>1. /\ flow' = flow /\ UNCHANGED <<calls, outcomes>> /\ j.work = "routing" /\ j.todo # <<>>
      /\ jobs' = (jobs \ {j}) \cup Routing(j, rest) /\ queue' = Append(queue, e)
  BY DEF RoutePosts, ended
<1>2. j.todo \in Seq(Tasks) /\ FitsJob(j) /\ queue \in Seq(Tasks)
  BY PoolParts
<1>3. /\ flow.kind[j.node] = "router"
      /\ \A i \in DOMAIN j.todo : Fits(j.todo[i]) /\ j.todo[i].what \in {"enter", "halted"}
  BY <1>1, <1>2 DEF FitsJob
<1>4. 1 \in DOMAIN j.todo /\ e = j.todo[1]
      /\ \A i \in DOMAIN rest : i + 1 \in DOMAIN j.todo /\ rest[i] = j.todo[i + 1]
  BY <1>1, <1>2
<1> HIDE DEF e, rest
<1>5. Good(e)
  <2>1. Fits(e) /\ e.what \in {"enter", "halted"}
    BY <1>3, <1>4
  <2> QED
    BY <2>1 DEF Good
<1>6. \A i \in DOMAIN rest : Fits(rest[i]) /\ rest[i].what \in {"enter", "halted"}
  BY <1>3, <1>4
<1>7. JobsFit' /\ OneJobEach'
  BY <1>1, <1>3, <1>6, RoutingFits
<1>8. \A x \in Range(queue') : x \in Range(queue) \/ Good(x)
  <2>1. \A x \in Range(queue') : x \in Range(queue) \/ x = e
    BY <1>1, <1>2, RangeAppend
  <2> QED
    BY <1>5, <2>1
<1> QED
  BY <1>1, <1>7, <1>8 DEF Orderly, NoNews

LEMMA RouteOrderly ==
    ASSUME NEW w, NEW rank, Sound(w, rank), NEW j \in jobs, Route(j)
    PROVE  Orderly
<1> DEFINE n == j.node
           children == flow.children[n]
<1>1. PICK routed \in SUBSET Keys(n) :
         LET copy == Cardinality(routed) > 1
             Tell(i) ==
                 IF children[i].key \in routed
                 THEN Task("enter", children[i].node, IF copy THEN Copy(j.data, i) ELSE j.data)
                 ELSE Task("halted", children[i].node, NoData)
         IN  jobs' = (jobs \ {j}) \cup Routing(j, [i \in DOMAIN children |-> Tell(i)])
  BY DEF Route
<1> DEFINE copy == Cardinality(routed) > 1
           Tell(i) == IF children[i].key \in routed
                      THEN Task("enter", children[i].node, IF copy THEN Copy(j.data, i) ELSE j.data)
                      ELSE Task("halted", children[i].node, NoData)
           todo == [i \in DOMAIN children |-> Tell(i)]
<1>2. /\ flow' = flow /\ UNCHANGED <<queue, calls, outcomes>>
      /\ j.work = "router" /\ jobs' = (jobs \ {j}) \cup Routing(j, todo)
  BY <1>1 DEF Route, ended
<1>3. \A i \in DOMAIN todo : /\ i \in DOMAIN children
                             /\ todo[i].what \in {"enter", "halted"}
                             /\ todo[i].node = children[i].node
  BY DEF Task
<1> HIDE DEF todo
<1>4. n \in flow.nodes /\ flow.kind[n] = "router" /\ FlowType(flow)
  BY <1>2, PoolParts, OrderlyParts DEF FitsJob
<1>5. \A i \in DOMAIN children : children[i].node \in MayHalt(flow)
  <2>1. \A i \in DOMAIN children : children[i].node \in flow.nodes
    BY <1>4, FlowChildren
  <2> QED
    BY <1>4, <2>1 DEF MayHalt
<1> HIDE DEF children
<1>6. \A i \in DOMAIN todo : Fits(todo[i]) /\ todo[i].what \in {"enter", "halted"}
  BY <1>3, <1>5 DEF Fits
<1>7. JobsFit' /\ OneJobEach'
  BY <1>2, <1>4, <1>6, RoutingFits
<1> QED
  BY <1>2, <1>7 DEF Orderly, NoNews

\* a fault is the one step that brings an error, and only a flow that may fail has them
LEMMA PoolFaultPlaced ==
    ASSUME NEW w, NEW rank, Sound(w, rank), NEW j \in jobs, PoolFault(j)
    PROVE  /\ Placed' /\ OneJobEach' /\ flow.faults # {}
           /\ Trouble' => Trouble \/ "error" \in flow.faults
           /\ flow.kind[j.node] # "end"
<1> DEFINE e == Task("error", j.node, NoData)
<1>1. /\ flow' = flow /\ UNCHANGED <<calls, outcomes>> /\ jobs' = jobs \ {j}
      /\ j.work \in {"operation", "async", "reference", "router"}
      /\ \/ queue' = Append(queue, e) /\ "error" \in flow.faults
         \/ UNCHANGED queue
      /\ flow.faults # {}
  BY DEF PoolFault, ended, Changing
<1>2. e.what = "error"
  BY DEF Task
<1> HIDE DEF e
<1>3. /\ flow.kind[j.node] = j.work
      /\ JobsFit' /\ OneJobEach' /\ queue \in Seq(Tasks)
  BY <1>1, PoolParts, JobsStay DEF FitsJob
<1>4. Fits(e)
  BY <1>2 DEF Fits
<1>5. \A x \in Range(queue') : x \in Range(queue) \/ (x = e /\ "error" \in flow.faults)
  <2>1. ASSUME queue' = Append(queue, e), "error" \in flow.faults
        PROVE  \A x \in Range(queue') : x \in Range(queue) \/ (x = e /\ "error" \in flow.faults)
    BY <1>3, <2>1, RangeAppend
  <2> QED
    BY <1>1, <2>1
<1>6. Placed'
  <2>1. /\ \A x \in Range(queue) : Fits(x)
        /\ \A x \in Range(calls) : Fits(x)
    BY OrderlyParts
  <2>2. \A x \in Range(queue') : Fits(x)'
    BY <1>1, <1>4, <1>5, <2>1, FitsStays
  <2>3. \A x \in Range(calls') : Fits(x)'
    BY <1>1, <2>1, FitsStays
  <2> QED
    BY <1>3, <2>2, <2>3 DEF Range, Placed, JobsFit
<1>7. ASSUME Trouble' PROVE Trouble \/ "error" \in flow.faults
  <2>1. \/ \E x \in Range(queue') : x.what = "error"
        \/ \E x \in Range(calls) : x.what \in {"error", "context error"}
        \/ \E o \in Range(outcomes) : o.kind = "error"
    BY <1>1, <1>7 DEF Range, Trouble
  <2> QED
    BY <1>5, <2>1, PlacedRange
<1> QED
  BY <1>1, <1>3, <1>6, <1>7

-----------------------------------------------------------------------------
(* Every step keeps the books.                                               *)

\* the books of a state, whatever the step that led to it
Booked(w, rank) == TypeOK /\ OneJobEach /\ WellFormedBy(flow, w, rank)

LEMMA SlackTyped ==
    ASSUME NEW w, NEW rank, NEW t
    PROVE  Booked(w, rank) /\ t \in flow.nodes =>
             Slack(w, t) \in Int /\ Decisions(t) \in Nat
<1> SUFFICES ASSUME Booked(w, rank), t \in flow.nodes PROVE Slack(w, t) \in Int /\ Decisions(t) \in Nat
  OBVIOUS
<1>1. /\ TypeOK /\ FlowType(flow) /\ IsFiniteSet(jobs)
      /\ w \in [flow.nodes -> [flow.nodes -> Nat]]
      /\ Joins(flow) \subseteq flow.nodes /\ IsFiniteSet(Joins(flow))
  BY FlowNodes DEF Booked, OneJobEach, TypeOK
<1>2. IsFiniteSet(Undecided) /\ Undecided \subseteq flow.nodes
  <2>1. Undecided \in SUBSET Joins(flow)
    BY DEF Undecided
  <2> QED
    BY <1>1, <2>1, FS_Subset
<1>3. InSeq(Ahead(flow, w, t), queue) \in Nat /\ InSeq(Ahead(flow, w, t), calls) \in Nat
  BY <1>1, AheadType, QueueSums
<1>4. JobsAhead(flow, w, t, jobs) \in Nat
  BY <1>1, JobsAheadType
<1>5. JoinsAhead(flow, w, t, Undecided) \in Nat
  BY <1>1, <1>2, JoinDecides
<1>6. Coming(w, t) \in Nat
  BY <1>3, <1>4, <1>5 DEF Coming
<1>7. Runs(t) \in Nat /\ remaining[t] \in Int
  BY <1>1, RunsParts DEF TypeOK
<1> QED
  BY <1>6, <1>7 DEF Slack, Decisions, ToDecide

LEMMA SlackTypedNext ==
    ASSUME NEW w, NEW rank, NEW t
    PROVE  (Booked(w, rank) /\ t \in flow.nodes =>
             Slack(w, t) \in Int /\ Decisions(t) \in Nat)'
<1>1. Booked(w, rank) /\ t \in flow.nodes =>
        Slack(w, t) \in Int /\ Decisions(t) \in Nat
  BY SlackTyped
<1> QED
  BY <1>1, PTL

LEMMA KeepsCounted ==
    ASSUME NEW w, NEW rank, Sound(w, rank), flow' = flow, Trouble' => Trouble,
           TypeOK', OneJobEach', \A t \in flow.nodes : Keeps(w, t)
    PROVE  Counted(w)'
<1>1. Counted(w) /\ Gathers(flow) \subseteq flow.nodes /\ Joins(flow) \subseteq flow.nodes
  BY SoundParts, FlowNodes DEF Sound
<1>2. \A t \in flow.nodes : Slack(w, t) \in Int /\ Slack(w, t) >= 0
  BY SlackHere
<1>3. \A t \in Joins(flow) : Decisions(t) \in Nat
  BY <1>1, SlackHere DEF Decisions
<1>4. \A t \in flow.nodes : Slack(w, t)' >= Slack(w, t)
  BY DEF Keeps
<1>5. \A t \in Gathers(flow) : Slack(w, t)' = Slack(w, t)
  BY <1>1 DEF Keeps
<1>6. \A t \in Joins(flow) : /\ Decisions(t)' <= Decisions(t)
                             /\ flow.kind[t] = "end" => Decisions(t)' = Decisions(t)
  BY <1>1 DEF Keeps
<1>7. \A t \in flow.nodes : Slack(w, t)' \in Int /\ Decisions(t)' \in Nat
  <2>1. Booked(w, rank)'
    BY SoundParts DEF Booked
  <2> QED
    BY <2>1, SlackTypedNext
<1>8. (\A t \in flow.nodes : Slack(w, t) >= 0)'
  BY <1>2, <1>4, <1>7
<1>9. (flow.faults = {} => \A t \in Gathers(flow) : Slack(w, t) = 0)'
  BY <1>1, <1>5 DEF Counted
<1>10. (\A t \in Joins(flow) : /\ Decisions(t) <= 1
                               /\ flow.kind[t] = "end" => Decisions(t) = 1)'
  <2>1. \A t \in Joins(flow) : Decisions(t) <= 1 /\ (flow.kind[t] = "end" => Decisions(t) = 1)
    BY <1>1 DEF Counted
  <2> QED
    BY <1>1, <1>3, <1>6, <1>7, <2>1
<1>11. (Trouble => "error" \in flow.faults /\ \E t \in Gathers(flow) : Slack(w, t) > 0)'
  <2>1. Trouble => "error" \in flow.faults /\ \E t \in Gathers(flow) : Slack(w, t) > 0
    BY <1>1 DEF Counted
  <2>2. Trouble => \E t \in Gathers(flow) : Slack(w, t)' > 0
    BY <1>5, <2>1
  <2> QED
    BY <2>1, <2>2
<1> QED
  BY <1>8, <1>9, <1>10, <1>11 DEF Counted

LEMMA FaultCounted ==
    ASSUME NEW w, NEW rank, Sound(w, rank), NEW j \in jobs, PoolFault(j)
    PROVE  Counted(w)'
<1> DEFINE n == j.node
           lost == [t \in flow.nodes |-> Onward(flow, w, t, n)]
<1>1. /\ Counted(w) /\ Gathers(flow) \subseteq flow.nodes /\ Joins(flow) \subseteq flow.nodes
      /\ FlowType(flow) /\ WellFormedBy(flow, w, rank) /\ flow' = flow
  BY SoundParts, FlowNodes DEF Sound, PoolFault
<1>2. /\ flow.faults # {} /\ flow.kind[n] # "end" /\ n \in flow.nodes
      /\ Trouble' => Trouble \/ "error" \in flow.faults
  BY PoolFaultPlaced, PoolParts
<1>3. \A t \in flow.nodes : Slack(w, t) \in Int /\ Slack(w, t) >= 0
  BY SlackHere
<1>4. \A t \in flow.nodes : Slack(w, t)' = Slack(w, t) + lost[t] /\ Decisions(t)' = Decisions(t)
  BY PoolFaultLoses DEF Loses
<1>5. \A t \in flow.nodes : lost[t] \in Nat
  BY <1>2, PathsOn
<1>6. PICK t \in Gathers(flow) : lost[t] >= 1
  <2>1. n \notin Ends(flow)
    BY <1>2 DEF Ends
  <2>2. \E t \in Gathers(flow) : Onward(flow, w, t, n) >= 1
    BY <1>1, <1>2, <2>1, LeadsOn
  <2> QED
    BY <1>1, <2>2
<1> HIDE DEF lost
<1>7. (\A x \in flow.nodes : Slack(w, x) >= 0)'
  BY <1>1, <1>3, <1>4, <1>5
<1>8. (flow.faults = {} => \A x \in Gathers(flow) : Slack(w, x) = 0)'
  BY <1>1, <1>2
<1>9. (\A x \in Joins(flow) : /\ Decisions(x) <= 1
                              /\ flow.kind[x] = "end" => Decisions(x) = 1)'
  BY <1>1, <1>4 DEF Counted
<1>10. (\E x \in Gathers(flow) : Slack(w, x) > 0)'
  <2>1. Slack(w, t)' > 0
    BY <1>1, <1>3, <1>4, <1>5, <1>6
  <2> QED
    BY <1>1, <1>6, <2>1
<1>11. (Trouble => "error" \in flow.faults)'
  BY <1>1, <1>2 DEF Counted
<1> QED
  BY <1>7, <1>8, <1>9, <1>10, <1>11 DEF Counted

LEMMA CoordinatorKeeps ==
    ASSUME NEW w, NEW rank, Sound(w, rank), Coordinator
    PROVE  Orderly /\ \A t \in flow.nodes : Keeps(w, t)
<1>1. CASE Enter
  BY <1>1, EnterKeeps, EnterOrderly
<1>2. CASE Main
  BY <1>2, MainKeeps, MainOrderly
<1>3. CASE Run
  BY <1>3, RunKeeps, RunOrderly
<1>4. CASE Arrive
  BY <1>4, ArriveKeeps, ArriveOrderly
<1>5. CASE After
  BY <1>5, AfterKeeps, AfterOrderly
<1>6. CASE StartCascade
  BY <1>6, StartCascadeKeeps, StartCascadeOrderly
<1>7. CASE HaltPlain
  BY <1>7, HaltPlainKeeps, HaltPlainOrderly
<1>8. CASE HaltJoin
  BY <1>8, HaltJoinKeeps, HaltJoinOrderly
<1>9. CASE ErrorNode
  BY <1>9, ErrorNodeKeeps, ErrorNodeOrderly
<1>10. CASE ContextCall
  BY <1>10, ContextCallKeeps, ContextCallOrderly
<1> QED
  BY <1>1, <1>2, <1>3, <1>4, <1>5, <1>6, <1>7, <1>8, <1>9, <1>10 DEF Coordinator

LEMMA PoolKeeps ==
    ASSUME NEW w, NEW rank, Sound(w, rank), NEW j \in jobs,
           Complete(j) \/ ReferenceHalts(j) \/ Route(j) \/ RoutePosts(j)
    PROVE  Orderly /\ \A t \in flow.nodes : Keeps(w, t)
<1>1. CASE Complete(j)
  BY <1>1, CompleteKeeps, CompleteOrderly
<1>2. CASE ReferenceHalts(j)
  BY <1>2, ReferenceHaltsKeeps, ReferenceHaltsOrderly
<1>3. CASE Route(j)
  BY <1>3, RouteKeeps, RouteOrderly
<1>4. CASE RoutePosts(j)
  BY <1>4, RoutePostsKeeps, RoutePostsOrderly
<1> QED
  BY <1>1, <1>2, <1>3, <1>4

LEMMA OrderlySound ==
    ASSUME NEW w, NEW rank, Sound(w, rank), flow' = flow, IInv', Orderly,
           \A t \in flow.nodes : Keeps(w, t)
    PROVE  Sound(w, rank)'
<1>1. Placed' /\ (Trouble' => Trouble) /\ OneJobEach'
  BY NoNewsKeeps DEF Orderly, Sound
<1>2. Counted(w)'
  BY <1>1, KeepsCounted DEF IInv
<1> QED
  BY <1>1, <1>2 DEF Sound

LEMMA StepSound ==
    ASSUME NEW w, NEW rank, Sound(w, rank), [Next]_vars
    PROVE  Sound(w, rank)'
<1>1. IInv' /\ flow' = flow
  BY StepInv, StepJobs DEF Sound, IInv
<1>2. CASE Coordinator
  BY <1>1, <1>2, CoordinatorKeeps, OrderlySound
<1>3. ASSUME NEW j \in jobs, Complete(j) \/ ReferenceHalts(j) \/ Route(j) \/ RoutePosts(j)
      PROVE  Sound(w, rank)'
  BY <1>1, <1>3, PoolKeeps, OrderlySound
<1>4. ASSUME NEW j \in jobs, PoolFault(j) PROVE Sound(w, rank)'
  <2>1. Placed' /\ OneJobEach' /\ Counted(w)'
    BY <1>4, PoolFaultPlaced, FaultCounted
  <2> QED
    BY <1>1, <2>1 DEF Sound
<1>5. CASE UNCHANGED vars
  <2>1. Placed /\ OneJobEach /\ Counted(w) /\ WellFormedBy(flow, w, rank)
    BY DEF Sound
  <2>2. UNCHANGED <<flow, queue, calls, jobs, remaining, lifecycle, outcomes, started>>
    BY <1>5 DEF vars, joins, ended
  <2>3. Placed' /\ OneJobEach'
    BY <2>1, <2>2 DEF Placed, OneJobEach, Fits, FitsJob
  <2>4. \A t : Slack(w, t)' = Slack(w, t) /\ Decisions(t)' = Decisions(t)
    BY <2>2 DEF Slack, Decisions, ToDecide, Runs, Ran, Answers, Coming, Undecided
  <2>5. Trouble' <=> Trouble
    BY <2>2 DEF Trouble
  <2>6. Counted(w)'
    BY <2>1, <2>2, <2>4, <2>5 DEF Counted
  <2> QED
    BY <1>1, <2>1, <2>3, <2>6 DEF Sound
<1> QED
  BY <1>2, <1>3, <1>4, <1>5 DEF Next, Pool

-----------------------------------------------------------------------------
(* What the books say.                                                       *)

\* wherever an input is, there is a join or an end it will be counted at
LEMMA AheadOn ==
    ASSUME NEW w, NEW rank, Sound(w, rank), NEW n \in flow.nodes
    PROVE  \E t \in Gathers(flow) : t \in flow.nodes /\ w[t][n] >= 1
<1>1. /\ FlowType(flow) /\ WellFormedBy(flow, w, rank) /\ Gathers(flow) \subseteq flow.nodes
  BY SoundParts, FlowNodes
<1>2. CASE n \in Gathers(flow)
  <2>1. w[n][n] = 1
    BY <1>1, PathHere
  <2> QED
    BY <1>2, <2>1
<1>3. CASE n \notin Gathers(flow)
  <2>1. n \notin Joins(flow) /\ n \notin Ends(flow)
    BY <1>3 DEF Gathers
  <2>2. PICK t \in Gathers(flow) : Onward(flow, w, t, n) >= 1
    BY <1>1, <2>1, LeadsOn
  <2>3. t \in flow.nodes /\ n # t
    BY <1>1, <1>3
  <2>4. w[t][n] = Onward(flow, w, t, n)
    BY <1>1, <2>1, <2>3 DEF WellFormedBy, Balanced, ArePaths
  <2> QED
    BY <2>2, <2>3, <2>4
<1> QED
  BY <1>2, <1>3

\* the inputs that are to come of one place are some of those to come
LEMMA ComingTerms ==
    ASSUME NEW w, NEW rank, Sound(w, rank), NEW t \in flow.nodes
    PROVE  /\ \A i \in DOMAIN queue :
                 Ahead(flow, w, t)[queue[i].what][queue[i].node] <= Coming(w, t)
           /\ \A j \in jobs : JobAhead(flow, w, t, j) <= Coming(w, t)
           /\ \A n \in Undecided : Onward(flow, w, t, n) <= Coming(w, t)
<1> DEFINE a == Ahead(flow, w, t)
<1>1. /\ TypeOK /\ FlowType(flow) /\ IsFiniteSet(jobs) /\ IsFiniteSet(Undecided)
      /\ Undecided \subseteq flow.nodes /\ w \in [flow.nodes -> [flow.nodes -> Nat]]
      /\ queue \in Seq(Tasks)
  BY SoundParts DEF TypeOK
<1>2. Weighs(a, Tasks)
  BY <1>1, AheadType, Weighing
<1>3. /\ InSeq(a, queue) \in Nat /\ InSeq(a, calls) \in Nat
      /\ JobsAhead(flow, w, t, jobs) \in Nat /\ JoinsAhead(flow, w, t, Undecided) \in Nat
  BY ComingParts
<1>4. Coming(w, t) = InSeq(a, queue) + JobsAhead(flow, w, t, jobs) + InSeq(a, calls)
                     + JoinsAhead(flow, w, t, Undecided)
  BY DEF Coming
<1>5. ASSUME NEW i \in DOMAIN queue
      PROVE  a[queue[i].what][queue[i].node] <= Coming(w, t)
  <2>1. InSeq(a, queue) >= a[queue[i].what][queue[i].node]
    BY <1>1, <1>2, InSeqTerm
  <2>2. a[queue[i].what][queue[i].node] \in Nat
    BY <1>1, <1>2, SeqElement DEF Weighs
  <2> DEFINE ai == a[queue[i].what][queue[i].node]
  <2> HIDE DEF a, ai
  <2>3. ai \in Nat /\ InSeq(a, queue) >= ai
    BY <2>1, <2>2 DEF ai
  <2>4. ai <= Coming(w, t)
    BY <1>3, <1>4, <2>3
  <2> QED
    BY <2>4 DEF ai
<1>6. ASSUME NEW j \in jobs PROVE JobAhead(flow, w, t, j) <= Coming(w, t)
  <2>1. /\ JobsAhead(flow, w, t, jobs \ {j}) \in Nat
        /\ JobsAhead(flow, w, t, jobs) =
             JobsAhead(flow, w, t, jobs \ {j}) + JobAhead(flow, w, t, j)
    BY <1>1, JobLeaves
  <2>2. JobAhead(flow, w, t, j) \in Nat
    BY <1>1, PoolJobType, JobAheadType
  <2> HIDE DEF a
  <2> QED
    BY <1>3, <1>4, <2>1, <2>2
<1>7. ASSUME NEW n \in Undecided PROVE Onward(flow, w, t, n) <= Coming(w, t)
  <2> DEFINE J == Undecided \ {n}
  <2>1. IsFiniteSet(J) /\ J \subseteq flow.nodes
    BY <1>1, FS_Subset
  <2>2. JoinsAhead(flow, w, t, J) \in Nat
    BY <1>1, <2>1, JoinDecides
  <2>3. JoinsAhead(flow, w, t, Undecided) = JoinsAhead(flow, w, t, J) + Onward(flow, w, t, n)
    BY <1>1, JoinDecides
  <2>4. Onward(flow, w, t, n) \in Nat
    BY <1>1, PathsOn
  <2> HIDE DEF a, J
  <2> QED
    BY <1>3, <1>4, <2>2, <2>3, <2>4
<1> QED
  BY <1>5, <1>6, <1>7

\* a join has decided when nothing remains
LEMMA JoinStands ==
    ASSUME NEW w, NEW rank, Sound(w, rank), NEW t \in Joins(flow)
    PROVE  t \in flow.nodes /\ (t \in Undecided <=> remaining[t] > 0)
<1>1. t \in flow.nodes /\ Stateful(t)
  BY DEF Joins, Stateful
<1> QED
  BY <1>1, SoundParts DEF JoinInv, Undecided

\* the end runs once; when it is certain to, every join has decided and nothing is to come
LEMMA EndRunsLast ==
    ASSUME NEW w, NEW rank, Sound(w, rank), NEW end \in Ends(flow)
    PROVE  /\ end \in flow.nodes /\ Runs(end) \in Nat /\ Runs(end) <= 1
           /\ Runs(end) # 0 => /\ Undecided = {}
                               /\ \A t \in Gathers(flow) : Coming(w, t) = 0 /\ Slack(w, t) = 0
                               /\ ~ Trouble
<1>1. /\ FlowType(flow) /\ WellFormedBy(flow, w, rank)
      /\ Gathers(flow) \subseteq flow.nodes /\ Joins(flow) \subseteq flow.nodes
      /\ Cardinality(flow.nodes) \in Nat /\ rank \in [flow.nodes -> 1 .. Cardinality(flow.nodes)]
      /\ Undecided \subseteq Joins(flow)
  BY SoundParts, FlowNodes DEF Undecided
<1>2. end \in flow.nodes /\ flow.kind[end] = "end" /\ Ends(flow) = {end}
  BY <1>1 DEF Ends, WellFormedBy, Balanced, OneEnd
<1>3. Runs(end) \in Nat /\ Runs(end) <= 1
      /\ (end \notin Joins(flow) => Runs(end) + Coming(w, end) <= 1)
      /\ (end \in Joins(flow) => Runs(end) + ToDecide(end) <= 1)
      /\ Coming(w, end) \in Nat /\ ToDecide(end) \in Nat
  BY <1>2, SlackHere
<1>4. ASSUME Runs(end) # 0
      PROVE  Undecided = {}
  <2>1. end \notin Undecided
    <3>1. end \in Joins(flow) => ToDecide(end) = 0
      BY <1>3, <1>4
    <3> QED
      BY <1>1, <3>1 DEF ToDecide
  <2>2. SUFFICES ASSUME Undecided # {} PROVE FALSE
    OBVIOUS
  <2>3. PICK n \in Undecided : \A k \in Undecided : rank[k] <= rank[n]
    <3> DEFINE size == Cardinality(flow.nodes)
               S == Undecided
    <3>1. S \in SUBSET flow.nodes /\ size \in Nat /\ rank \in [flow.nodes -> 1 .. size] /\ S # {}
      BY <1>1, <2>2
    <3> HIDE DEF size, S
    <3>2. \E n \in S : \A k \in S : rank[k] <= rank[n]
      BY <3>1, HighestRank
    <3> QED
      BY <3>2 DEF S
  <2>4. n \in flow.nodes /\ n \notin Ends(flow)
    BY <1>1, <1>2, <2>1, <2>3
  <2>5. PICK t \in Gathers(flow) : Onward(flow, w, t, n) >= 1
    BY <1>1, <2>4, LeadsOn
  <2>6. t \in flow.nodes /\ Onward(flow, w, t, n) \in Nat /\ Coming(w, t) \in Nat
        /\ Onward(flow, w, t, n) <= Coming(w, t)
    BY <1>1, <2>3, <2>4, ComingTerms, ComingParts, PathsOn
  <2>7. Coming(w, t) >= 1
    BY <2>5, <2>6
  <2>8. rank[n] < rank[t]
    BY <1>1, <2>4, <2>5, <2>6, OnwardRank
  <2>9. rank[n] \in Nat /\ rank[t] \in Nat
    BY <1>1, <2>4, <2>6
  <2>10. t \notin Undecided
    BY <2>3, <2>8, <2>9
  <2>11. t \notin Joins(flow)
    <3>1. t \in Joins(flow) => Coming(w, t) <= remaining[t] /\ remaining[t] \in Int
      BY <2>6, SlackHere
    <3> QED
      BY <2>6, <2>7, <2>10, <3>1, JoinStands
  <2>12. t = end
    BY <1>2, <2>5, <2>11 DEF Gathers
  <2> QED
    BY <1>3, <1>4, <2>6, <2>7, <2>11, <2>12
<1>5. ASSUME Runs(end) # 0, NEW t \in Gathers(flow)
      PROVE  Coming(w, t) = 0 /\ Slack(w, t) = 0
  <2>1. t \in flow.nodes
    BY <1>1
  <2>2. Coming(w, t) \in Nat /\ remaining[t] \in Int /\ Slack(w, t) >= 0 /\ Runs(t) \in Nat
    BY <2>1, SlackHere
  <2>3. CASE t \in Joins(flow)
    <3>1. remaining[t] <= 0
      BY <1>4, <1>5, <2>2, <2>3, JoinStands
    <3>2. Slack(w, t) = remaining[t] - Coming(w, t)
      BY <2>3 DEF Slack
    <3> QED
      BY <2>2, <3>1, <3>2
  <2>4. CASE t \notin Joins(flow)
    <3>1. t = end
      BY <1>2, <2>4 DEF Gathers
    <3>2. Slack(w, t) = 1 - Runs(t) - Coming(w, t)
      BY <2>4 DEF Slack
    <3> QED
      BY <1>3, <1>5, <2>2, <3>1, <3>2
  <2> QED
    BY <2>3, <2>4
<1>6. ASSUME Runs(end) # 0 PROVE ~ Trouble
  BY <1>5, <1>6 DEF Sound, Counted
<1> QED
  BY <1>2, <1>3, <1>4, <1>5, <1>6

\* then no action is left to run, anywhere but at the end
LEMMA NothingLeft ==
    ASSUME NEW w, NEW rank, Sound(w, rank), \A t \in Gathers(flow) : Coming(w, t) = 0
    PROVE  /\ jobs = {}
           /\ \A i \in DOMAIN queue :
                 /\ queue[i].what \notin {"enter", "main", "next"}
                 /\ queue[i].what = "run" => flow.kind[queue[i].node] = "end"
<1>1. /\ TypeOK /\ FlowType(flow) /\ WellFormedBy(flow, w, rank)
      /\ Gathers(flow) \subseteq flow.nodes /\ w \in [flow.nodes -> [flow.nodes -> Nat]]
      /\ queue \in Seq(Tasks)
  BY SoundParts, FlowNodes DEF TypeOK
<1>2. ASSUME NEW n \in flow.nodes, flow.kind[n] # "end"
      PROVE  \E t \in Gathers(flow) : t \in flow.nodes /\ Onward(flow, w, t, n) >= 1
  <2>1. n \notin Ends(flow)
    BY <1>2 DEF Ends
  <2> QED
    BY <1>1, <2>1, LeadsOn
<1>3. ASSUME NEW j \in jobs PROVE FALSE
  <2>1. j.node \in flow.nodes /\ FitsJob(j) /\ j.todo \in Seq(Tasks)
    BY PoolParts
  <2>2. j.work \in {"operation", "async", "reference", "router", "routing"}
    BY <1>1 DEF TypeOK, Jobs
  <2>3. CASE j.work # "routing"
    <3>1. flow.kind[j.node] # "end"
      BY <2>1, <2>2, <2>3 DEF FitsJob
    <3>2. PICK t \in Gathers(flow) : t \in flow.nodes /\ Onward(flow, w, t, j.node) >= 1
      BY <1>2, <2>1, <3>1
    <3>3. JobAhead(flow, w, t, j) = Onward(flow, w, t, j.node)
      BY <2>3 DEF JobAhead
    <3>4. JobAhead(flow, w, t, j) <= 0
      BY <3>2, ComingTerms
    <3>5. Onward(flow, w, t, j.node) \in Nat
      BY <2>1, <3>2, PathsOn
    <3> QED
      BY <3>2, <3>3, <3>4, <3>5
  <2>4. CASE j.work = "routing"
    <3> DEFINE e == j.todo[1]
    <3>1. j.todo # <<>> /\ \A i \in DOMAIN j.todo : j.todo[i].what \in {"enter", "halted"}
      BY <2>1, <2>4 DEF FitsJob
    <3>2. 1 \in DOMAIN j.todo /\ e \in Tasks
      BY <2>1, <3>1
    <3>3. e.what \in {"enter", "halted"} /\ e.node \in flow.nodes
      BY <3>1, <3>2 DEF Tasks
    <3>4. PICK t \in Gathers(flow) : t \in flow.nodes /\ w[t][e.node] >= 1
      BY <3>3, AheadOn
    <3> DEFINE a == Ahead(flow, w, t)
    <3>5. Weighs(a, Tasks)
      BY <1>1, <3>4, AheadType, Weighing
    <3>6. InSeq(a, j.todo) >= a[e.what][e.node] /\ InSeq(a, j.todo) \in Nat
      BY <2>1, <3>2, <3>5, InSeqTerm, InSeqType
    <3>7. a["enter"][e.node] = w[t][e.node] /\ a["halted"][e.node] = w[t][e.node]
      BY <3>3, AheadValues
    <3>8. JobAhead(flow, w, t, j) = InSeq(a, j.todo)
      BY <2>4 DEF JobAhead
    <3>9. JobAhead(flow, w, t, j) <= 0
      BY <3>4, ComingTerms
    <3>10. w[t][e.node] \in Nat
      BY <1>1, <3>3, <3>4
    <3> HIDE DEF a, e
    <3>11. a[e.what][e.node] = w[t][e.node]
      BY <3>3, <3>7
    <3> QED
      BY <3>4, <3>6, <3>8, <3>9, <3>10, <3>11
  <2> QED
    BY <2>3, <2>4
<1>4. ASSUME NEW i \in DOMAIN queue
      PROVE  /\ queue[i].what \notin {"enter", "main", "next"}
             /\ queue[i].what = "run" => flow.kind[queue[i].node] = "end"
  <2> DEFINE e == queue[i]
  <2>1. e \in Tasks /\ Fits(e)
    BY <1>1, SeqElement, SoundParts DEF Placed
  <2>2. e.node \in flow.nodes
    BY <2>1 DEF Tasks
  <2>3. ASSUME NEW t \in Gathers(flow), t \in flow.nodes
        PROVE  Ahead(flow, w, t)[e.what][e.node] <= 0
    BY <2>3, ComingTerms
  <2> HIDE DEF e
  <2>4. CASE e.what \in {"enter", "main"}
    <3>1. PICK t \in Gathers(flow) : t \in flow.nodes /\ w[t][e.node] >= 1
      BY <2>2, AheadOn
    <3> DEFINE a == Ahead(flow, w, t)
    <3>2. a["enter"][e.node] = w[t][e.node] /\ a["main"][e.node] = w[t][e.node]
      BY <2>2, AheadValues
    <3>3. w[t][e.node] \in Nat
      BY <1>1, <2>2, <3>1
    <3>4. a[e.what][e.node] <= 0
      BY <2>3, <3>1
    <3> HIDE DEF a
    <3> QED
      BY <2>4, <3>1, <3>2, <3>3, <3>4
  <2>5. CASE e.what \in {"next", "run"} /\ flow.kind[e.node] # "end"
    <3>1. PICK t \in Gathers(flow) : t \in flow.nodes /\ Onward(flow, w, t, e.node) >= 1
      BY <1>2, <2>2, <2>5
    <3> DEFINE a == Ahead(flow, w, t)
    <3>2. a["next"][e.node] = Onward(flow, w, t, e.node)
          /\ a["run"][e.node] = Onward(flow, w, t, e.node)
      BY <2>2, AheadValues
    <3>3. Onward(flow, w, t, e.node) \in Nat
      BY <2>2, <3>1, PathsOn
    <3>4. a[e.what][e.node] <= 0
      BY <2>3, <3>1
    <3> HIDE DEF a
    <3> QED
      BY <2>5, <3>1, <3>2, <3>3, <3>4
  <2>6. e.what = "next" => flow.kind[e.node] # "end"
    BY <2>1 DEF Fits, Changing
  <2> QED
    BY <2>4, <2>5, <2>6 DEF e
<1> QED
  BY <1>3, <1>4

-----------------------------------------------------------------------------
(* Answers.                                                                  *)

\* the runs of the end are answers, and what is about to be one
LEMMA EndRuns ==
    ASSUME NEW w, NEW rank, Sound(w, rank), NEW end \in Ends(flow)
    PROVE  /\ Answers \in Nat /\ Runs(end) \in Nat /\ Answers <= Runs(end)
           /\ Runs(end) = InSeq(Running(flow, end), queue) + InSeq(Running(flow, end), calls)
                          + Answers
           /\ InSeq(Running(flow, end), queue) \in Nat /\ InSeq(Running(flow, end), calls) \in Nat
<1>1. TypeOK /\ end \in flow.nodes /\ flow.kind[end] = "end"
  BY SoundParts DEF Ends
<1>2. Answers \in Nat /\ Ran(end) = Answers
  BY <1>1, AnswersType DEF Ran
<1>3. InSeq(Running(flow, end), queue) \in Nat /\ InSeq(Running(flow, end), calls) \in Nat
  BY <1>1, RunsParts
<1>4. Runs(end) = InSeq(Running(flow, end), queue) + InSeq(Running(flow, end), calls) + Answers
  BY <1>2 DEF Runs
<1> HIDE DEF Answers
<1>5. Runs(end) \in Nat /\ Answers <= Runs(end)
  BY <1>2, <1>3, <1>4
<1> QED
  BY <1>2, <1>3, <1>4, <1>5

LEMMA AnswersSome ==
    ASSUME TypeOK
    PROVE  /\ Answers # 0 <=> \E i \in DOMAIN outcomes : outcomes[i].kind # "error"
           /\ Answers \in Nat
<1> DEFINE v == [i \in DOMAIN outcomes |-> IF outcomes[i].kind = "error" THEN 0 ELSE 1]
<1>1. DOMAIN outcomes = 1 .. Len(outcomes) /\ Len(outcomes) \in Nat
  BY DEF TypeOK
<1>2. IsFiniteSet(DOMAIN outcomes)
  BY <1>1, IntervalFinite
<1>3. \A i \in DOMAIN outcomes : /\ v[i] \in Nat
                                 /\ v[i] > 0 <=> outcomes[i].kind # "error"
  OBVIOUS
<1> HIDE DEF v
<1>4. \A i \in DOMAIN outcomes : Total(DOMAIN outcomes, v) >= v[i]
  BY <1>2, <1>3, TotalTerm
<1>5. Total(DOMAIN outcomes, v) # 0 => \E i \in DOMAIN outcomes : v[i] > 0
  BY <1>3, TotalPositive
<1>6. Total(DOMAIN outcomes, v) \in Nat
  BY <1>2, <1>3, UnitsFinite
<1>7. Answers = Total(DOMAIN outcomes, v)
  BY DEF Answers, v
<1> QED
  BY <1>3, <1>4, <1>5, <1>6, <1>7

LEMMA OneAnswer ==
    ASSUME NEW w, NEW rank
    PROVE  Sound(w, rank) /\ Answers # 0 => Answers = 1 /\ ~ Trouble
<1> SUFFICES ASSUME Sound(w, rank), Answers # 0 PROVE Answers = 1 /\ ~ Trouble
  OBVIOUS
<1>1. PICK end \in flow.nodes : Ends(flow) = {end}
  BY SoundParts DEF WellFormedBy, Balanced, OneEnd
<1>2. end \in Ends(flow)
  BY <1>1
<1>3. Answers \in Nat /\ Runs(end) \in Nat /\ Answers <= Runs(end)
  BY <1>2, EndRuns
<1>4. Runs(end) <= 1
  BY <1>2, EndRunsLast
<1>5. ~ Trouble
  BY <1>2, <1>3, EndRunsLast
<1> QED
  BY <1>3, <1>4, <1>5

LEMMA OneAnswerNext ==
    ASSUME NEW w, NEW rank
    PROVE  (Sound(w, rank) /\ Answers # 0 => Answers = 1 /\ ~ Trouble)'
<1>1. Sound(w, rank) /\ Answers # 0 => Answers = 1 /\ ~ Trouble
  BY OneAnswer
<1> QED
  BY <1>1, PTL

\* the counters of the flow, and the joins that are none
BooksInv ==
    /\ stats["requests"] = 1
    /\ stats["completed"] + stats["halts"] = Answers
    /\ stats["errors"] # 0 => \E i \in DOMAIN outcomes : outcomes[i].kind = "error"
    /\ done <=> outcomes # <<>>
    /\ \A n \in flow.nodes \ Joins(flow) : remaining[n] = flow.counter[n]

\* what a step that tells the subscriber does to them
LEMMA FinishBooks ==
    ASSUME TypeOK, BooksInv, flow' = flow, UNCHANGED remaining, NEW contents, NEW kind, NEW counter,
           Finish(kind, counter, contents),
           \/ kind = "error" /\ counter = "errors"
           \/ kind \in {"ok", "halted"} /\ counter \in {"completed", "halts"}
    PROVE  BooksInv'
<1> DEFINE o == [kind |-> kind, data |-> contents]
<1>1. /\ done' = TRUE /\ outcomes' = Append(outcomes, o) /\ o.kind = kind
      /\ stats' = [stats EXCEPT ![counter] = @ + 1]
  BY DEF Finish
<1> HIDE DEF o
<1>2. /\ stats["requests"] \in Nat /\ stats["completed"] \in Nat /\ stats["halts"] \in Nat
      /\ DOMAIN stats = Counters /\ Answers \in Nat
      /\ outcomes \in Seq([kind : {"ok", "halted", "error"}, data : SUBSET flow.nodes])
  BY AnswersSome DEF TypeOK, Counters
<1>3. Answers' = Answers + (IF kind = "error" THEN 0 ELSE 1)
  BY FinishAnswers
<1>4. /\ outcomes' # <<>> /\ Len(outcomes) + 1 \in DOMAIN outcomes'
      /\ outcomes'[Len(outcomes) + 1] = o
      /\ \A i \in DOMAIN outcomes : i \in DOMAIN outcomes' /\ outcomes'[i] = outcomes[i]
  BY <1>1, <1>2
<1>5. counter \in Counters
  BY DEF Counters
<1>6. \A c \in Counters : stats'[c] = IF c = counter THEN stats[c] + 1 ELSE stats[c]
  BY <1>1, <1>2, Zenon
<1>7. stats'["requests"] = 1
  BY <1>6 DEF BooksInv, Counters
<1>8. stats'["completed"] + stats'["halts"] = Answers'
  <2>1. stats["completed"] + stats["halts"] = Answers
    BY DEF BooksInv
  <2> QED
    BY <1>2, <1>3, <1>6, <2>1 DEF Counters
<1>9. stats'["errors"] # 0 => \E i \in DOMAIN outcomes' : outcomes'[i].kind = "error"
  <2>1. CASE kind = "error"
    BY <1>1, <1>4, <2>1
  <2>2. CASE kind # "error"
    <3>1. stats'["errors"] = stats["errors"]
      BY <1>6, <2>2 DEF Counters
    <3> QED
      BY <1>4, <3>1 DEF BooksInv
  <2> QED
    BY <2>1, <2>2
<1> QED
  BY <1>1, <1>4, <1>7, <1>8, <1>9 DEF BooksInv

LEMMA DecrementBooks ==
    ASSUME TypeOK, flow' = flow, NEW n \in flow.nodes, Stateful(n), NEW data, Decrement(n, data)
    PROVE  \A m \in flow.nodes \ Joins(flow) : remaining'[m] = remaining[m]
<1>1. n \in Joins(flow)
  BY DEF Joins, Stateful
<1> QED
  BY <1>1 DEF Decrement, TypeOK

LEMMA StepBooks ==
    ASSUME TypeOK, BooksInv, [Next]_vars
    PROVE  BooksInv'
<1>1. ASSUME flow' = flow, UNCHANGED ended,
             \A m \in flow.nodes \ Joins(flow) : remaining'[m] = remaining[m]
      PROVE  BooksInv'
  <2>1. Answers' = Answers
    BY <1>1 DEF Answers, ended
  <2> QED
    BY <1>1, <2>1 DEF BooksInv, ended
<1>2. ASSUME Act(Here, Given), flow' = flow, UNCHANGED joins PROVE BooksInv'
  <2>1. CASE UNCHANGED ended
    BY <1>1, <1>2, <2>1 DEF joins
  <2>2. CASE Finish("ok", "completed", heap[Given.at])
    <3> DEFINE contents == heap[Given.at]
    <3>1. Finish("ok", "completed", contents)
      BY <2>2
    <3> HIDE DEF contents
    <3> QED
      BY <1>2, <3>1, FinishBooks DEF joins
  <2> QED
    BY <1>2, <2>1, <2>2 DEF Act
<1>3. CASE Main
  BY <1>2, <1>3 DEF Main
<1>4. CASE Run
  BY <1>2, <1>4 DEF Run
<1>5. CASE Arrive
  <2>1. queue # <<>> /\ flow' = flow /\ UNCHANGED ended /\ Stateful(Here)
        /\ Decrement(Here, Append(arrived[Here], Given))
    BY <1>5 DEF Arrive, Taking
  <2>2. Here \in flow.nodes
    BY <2>1, TakenType
  <2> QED
    BY <1>1, <2>1, <2>2, DecrementBooks
<1>6. CASE HaltJoin
  <2> DEFINE n == Head(calls).node
  <2>1. calls # <<>> /\ flow' = flow /\ UNCHANGED ended /\ Stateful(n)
        /\ Decrement(n, arrived[n])
    BY <1>6 DEF HaltJoin, Calling
  <2>2. n \in flow.nodes
    <3>1. Head(calls) \in Calls
      BY <2>1, SeqTail DEF TypeOK
    <3> QED
      BY <3>1 DEF Calls
  <2> QED
    BY <1>1, <2>1, <2>2, DecrementBooks
<1>7. CASE ContextCall
  BY <1>7, FinishBooks DEF ContextCall, joins
<1>8. CASE Enter \/ After \/ StartCascade \/ HaltPlain \/ ErrorNode
  <2>1. flow' = flow /\ UNCHANGED <<joins, ended>>
    BY <1>8 DEF Enter, After, StartCascade, HaltPlain, ErrorNode
  <2> QED
    BY <1>1, <2>1 DEF joins
<1>9. CASE Pool
  <2>1. flow' = flow /\ UNCHANGED <<joins, ended>>
    BY <1>9 DEF Pool, Complete, ReferenceHalts, Route, RoutePosts, PoolFault
  <2> QED
    BY <1>1, <2>1 DEF joins
<1>10. CASE UNCHANGED vars
  BY <1>1, <1>10 DEF vars, joins
<1> QED
  BY <1>3, <1>4, <1>5, <1>6, <1>7, <1>8, <1>9, <1>10 DEF Next, Coordinator

-----------------------------------------------------------------------------
(* The beginning.                                                            *)

LEMMA InitSound ==
    ASSUME NEW w, NEW rank, Init, WellFormedBy(flow, w, rank)
    PROVE  Sound(w, rank) /\ BooksInv
<1> DEFINE e == Task("enter", flow.head, Ref(1, {}))
<1>1. IInv /\ TypeOK /\ FlowType(flow)
  BY InitInv DEF IInv, TypeOK
<1>2. /\ queue = <<e>> /\ calls = <<>> /\ jobs = {} /\ outcomes = <<>> /\ done = FALSE
      /\ remaining = flow.counter /\ lifecycle = [n \in flow.nodes |-> "WAITING"]
      /\ started = [n \in flow.nodes |-> 0]
      /\ stats = [c \in Counters |-> IF c = "requests" THEN 1 ELSE 0]
  BY DEF Init
<1>3. e.what = "enter" /\ e.node = flow.head /\ flow.head \in flow.nodes
  BY <1>1 DEF Task, FlowType
<1> HIDE DEF e
<1>4. Fits(e) /\ DOMAIN queue = {1} /\ queue[1] = e /\ DOMAIN calls = {} /\ DOMAIN outcomes = {}
  BY <1>2, <1>3 DEF Fits
<1>5. Placed /\ OneJobEach /\ ~ Trouble
  BY <1>2, <1>3, <1>4, FS_EmptySet DEF Placed, OneJobEach, Trouble
<1>6. /\ w \in [flow.nodes -> [flow.nodes -> Nat]]
      /\ Gathers(flow) \subseteq flow.nodes /\ Joins(flow) \subseteq flow.nodes
      /\ IsFiniteSet(Joins(flow))
  BY <1>1, FlowNodes
<1>7. Undecided = Joins(flow)
  BY <1>2, <1>6 DEF Undecided
<1>8. ASSUME NEW t \in flow.nodes PROVE Runs(t) = 0
  <2> DEFINE r == Running(flow, t)
  <2>1. r["enter"][flow.head] = 0
    BY <1>3, RunningValues
  <2> HIDE DEF r
  <2>2. InSeq(r, queue) = 0 /\ InSeq(r, calls) = 0
    <3>1. r[e.what][e.node] = 0
      BY <1>3, <2>1
    <3>2. r[e.what][e.node] \in Nat
      BY <3>1
    <3> QED
      BY <1>2, <3>1, <3>2, InSeqOne
  <2>3. Answers = 0
    BY <1>4, TotalEmpty DEF Answers
  <2>4. Ran(t) = 0
    BY <1>2, <2>3 DEF Ran
  <2> QED
    BY <2>2, <2>4 DEF Runs, r
<1>9. ASSUME NEW t \in flow.nodes
      PROVE  Coming(w, t) = Entries(flow, w, t) /\ Entries(flow, w, t) \in Nat
  <2> DEFINE a == Ahead(flow, w, t)
  <2>1. a["enter"][flow.head] = w[t][flow.head] /\ w[t][flow.head] \in Nat
    BY <1>3, <1>6, AheadValues
  <2> HIDE DEF a
  <2>2. InSeq(a, queue) = w[t][flow.head] /\ InSeq(a, calls) = 0
    <3>1. a[e.what][e.node] = w[t][flow.head]
      BY <1>3, <2>1
    <3>2. a[e.what][e.node] \in Nat
      BY <2>1, <3>1
    <3> QED
      BY <1>2, <3>1, <3>2, InSeqOne
  <2>3. JobsAhead(flow, w, t, jobs) = 0
    BY <1>2, TotalEmpty DEF JobsAhead
  <2>4. JoinsAhead(flow, w, t, Undecided) = Total(Joins(flow), [n \in Joins(flow) |-> Onward(flow, w, t, n)])
    BY <1>7 DEF JoinsAhead
  <2>5. JoinsAhead(flow, w, t, Undecided) \in Nat
    BY <1>1, <1>6, <1>7, JoinDecides
  <2>6. Coming(w, t) = InSeq(a, queue) + JobsAhead(flow, w, t, jobs) + InSeq(a, calls)
                       + JoinsAhead(flow, w, t, Undecided)
    BY DEF Coming, a
  <2>7. Entries(flow, w, t) = w[t][flow.head] + JoinsAhead(flow, w, t, Undecided)
    BY <2>4 DEF Entries
  <2> QED
    BY <2>1, <2>2, <2>3, <2>5, <2>6, <2>7
<1>10. \A t \in flow.nodes :
          IF t \in Joins(flow) THEN flow.counter[t] = Entries(flow, w, t)
          ELSE Entries(flow, w, t) <= 1 /\ (t \in Ends(flow) => Entries(flow, w, t) = 1)
  BY DEF WellFormedBy, Balanced, InputsFit
<1>11. ASSUME NEW t \in flow.nodes
       PROVE  Slack(w, t) >= 0 /\ (t \in Gathers(flow) => Slack(w, t) = 0)
  <2>1. Coming(w, t) = Entries(flow, w, t) /\ Entries(flow, w, t) \in Nat /\ Runs(t) = 0
    BY <1>8, <1>9
  <2>2. CASE t \in Joins(flow)
    <3>1. Slack(w, t) = flow.counter[t] - Coming(w, t) /\ flow.counter[t] = Entries(flow, w, t)
      BY <1>2, <1>10, <2>2 DEF Slack
    <3> QED
      BY <2>1, <3>1
  <2>3. CASE t \notin Joins(flow)
    <3>1. Slack(w, t) = 1 - Runs(t) - Coming(w, t) /\ Entries(flow, w, t) <= 1
          /\ (t \in Gathers(flow) => Entries(flow, w, t) = 1)
      BY <1>10, <2>3 DEF Slack, Gathers
    <3> QED
      BY <2>1, <3>1
  <2> QED
    BY <2>2, <2>3
<1>12. \A t \in Joins(flow) : Decisions(t) = 1
  <2>1. \A t \in Joins(flow) : Runs(t) = 0 /\ ToDecide(t) = 1
    BY <1>6, <1>7, <1>8 DEF ToDecide
  <2> QED
    BY <2>1 DEF Decisions
<1>13. Counted(w)
  BY <1>5, <1>6, <1>11, <1>12 DEF Counted
<1>14. BooksInv
  <2>1. Answers = 0
    BY <1>4, TotalEmpty DEF Answers
  <2>2. stats["requests"] = 1 /\ stats["completed"] = 0 /\ stats["halts"] = 0 /\ stats["errors"] = 0
    BY <1>2 DEF Counters
  <2> QED
    BY <1>2, <2>1, <2>2 DEF BooksInv
<1> QED
  BY <1>1, <1>5, <1>13, <1>14 DEF Sound

-----------------------------------------------------------------------------
(* A step is a step of FlowContract.                                         *)

LEMMA OnlyErrorsBefore ==
    ASSUME NEW w, NEW rank, Sound(w, rank), Trouble \/ jobs # {} \/
             \E i \in DOMAIN queue : queue[i].what \in {"main", "run"} /\ flow.kind[queue[i].node] # "end"
    PROVE  Contract!OnlyErrors
<1>1. PICK end \in flow.nodes : end \in Ends(flow)
  BY SoundParts DEF WellFormedBy, Balanced, OneEnd
<1>2. Runs(end) = 0
  <2>1. SUFFICES ASSUME Runs(end) # 0 PROVE FALSE
    OBVIOUS
  <2>2. ~ Trouble /\ \A t \in Gathers(flow) : Coming(w, t) = 0
    BY <1>1, <2>1, EndRunsLast
  <2>3. /\ jobs = {}
        /\ \A i \in DOMAIN queue :
              /\ queue[i].what \notin {"enter", "main", "next"}
              /\ queue[i].what = "run" => flow.kind[queue[i].node] = "end"
    BY <2>2, NothingLeft
  <2> QED
    BY <2>2, <2>3
<1>3. Answers = 0
  BY <1>1, <1>2, EndRuns
<1> QED
  BY <1>3, AnswersSome, SoundParts DEF Contract!OnlyErrors

\* the one answer that is no error comes first
LEMMA FirstAnswer ==
    ASSUME NEW w, NEW rank, Sound(w, rank), Sound(w, rank)',
           NEW kind \in {"ok", "halted"}, NEW counter, NEW contents, Finish(kind, counter, contents)
    PROVE  outcomes = <<>>
<1> DEFINE o == [kind |-> kind, data |-> contents]
<1>1. outcomes' = Append(outcomes, o) /\ o.kind = kind /\ TypeOK
  BY SoundParts DEF Finish
<1> HIDE DEF o
<1>2. outcomes \in Seq([kind : {"ok", "halted", "error"}, data : SUBSET flow.nodes])
  BY <1>1 DEF TypeOK
<1>3. \A i \in DOMAIN outcomes : i \in DOMAIN outcomes' /\ outcomes'[i] = outcomes[i]
  BY <1>1, <1>2
<1>4. Answers' = Answers + 1 /\ Answers \in Nat
  BY <1>1, FinishAnswers, AnswersSome
<1>5. Answers' = 1 /\ ~ Trouble'
  BY <1>4, OneAnswerNext
<1>6. Answers = 0
  BY <1>4, <1>5
<1>7. ASSUME NEW i \in DOMAIN outcomes PROVE FALSE
  <2>1. outcomes[i].kind = "error"
    BY <1>1, <1>6, AnswersSome
  <2>2. outcomes'[i].kind = "error" /\ i \in DOMAIN outcomes'
    BY <1>3, <2>1
  <2> QED
    BY <1>5, <2>2 DEF Trouble
<1>8. outcomes # <<>> => 1 \in DOMAIN outcomes
  BY <1>2
<1> QED
  BY <1>7, <1>8

LEMMA ActContract ==
    ASSUME NEW w, NEW rank, Sound(w, rank), Sound(w, rank)', queue # <<>>, flow' = flow,
           Head(queue).what \in {"main", "run"}, Act(Here, Given),
           flow.kind[Here] # "end" => started[Here] = 0
    PROVE  [Contract!Next]_(Contract!vars)
<1> DEFINE n == Here
<1>1. TypeOK /\ n \in flow.nodes /\ ChangesWereMade /\ Given \in Refs
  BY SoundParts, TakenType DEF Sound, IInv, ActionTasks
<1>2. CASE UNCHANGED <<ended, started>>
  BY <1>2 DEF ended, Contract!vars
<1>3. ASSUME flow.kind[n] \in {"operation", "async", "reference", "router"},
             started' = [started EXCEPT ![n] = @ + 1], UNCHANGED ended
      PROVE  Contract!Next
  <2>1. started[n] = 0 /\ started \in [flow.nodes -> Nat]
    BY <1>1, <1>3 DEF TypeOK
  <2>2. started' = [started EXCEPT ![n] = 1]
    BY <1>3, <2>1
  <2>3. Contract!OnlyErrors
    <3>1. 1 \in DOMAIN queue /\ Head(queue) = queue[1]
      BY <1>1 DEF TypeOK
    <3> QED
      BY <1>3, <3>1, OnlyErrorsBefore DEF Here
  <2> QED
    BY <1>1, <1>3, <2>1, <2>2, <2>3 DEF Contract!Next, Contract!Execute, ended
<1>4. ASSUME Finish("ok", "completed", heap[Given.at]), UNCHANGED started
      PROVE  Contract!Next
  <2> DEFINE data == heap[Given.at]
  <2>1. outcomes = <<>>
    BY <1>4, FirstAnswer
  <2>2. data \in SUBSET Executed
    BY <1>1 DEF ChangesWereMade, TypeOK, Refs
  <2>3. Executed = Contract!Executed
    BY <1>1 DEF Executed, Contract!Executed, TypeOK
  <2>4. outcomes' = Append(outcomes, [kind |-> "ok", data |-> data])
    BY <1>4 DEF Finish
  <2> HIDE DEF data
  <2> QED
    BY <1>4, <2>1, <2>2, <2>3, <2>4 DEF Contract!Next, Contract!Complete, Contract!Tell
<1> QED
  BY <1>2, <1>3, <1>4 DEF Act

LEMMA StepContract ==
    ASSUME NEW w, NEW rank, Sound(w, rank), [Next]_vars
    PROVE  [Contract!Next]_(Contract!vars)
<1>1. Sound(w, rank)' /\ flow' = flow /\ TypeOK
  BY StepSound, StepJobs, SoundParts DEF Sound, IInv
<1>2. CASE UNCHANGED <<started, outcomes>>
  BY <1>1, <1>2 DEF Contract!vars
<1>3. CASE Main \/ Run
  <2>1. queue # <<>> /\ Head(queue).what \in {"main", "run"} /\ Act(Here, Given)
    BY <1>3 DEF Main, Run, Taking
  <2>2. PICK t \in flow.nodes : t = Here
    BY <2>1, OrderlyParts
  <2>3. flow.kind[Here] # "end" => started[Here] = 0
    BY <1>3, <2>2, MainKeeps, RunKeeps
  <2> QED
    BY <1>1, <2>1, <2>3, ActContract
<1>4. CASE ContextCall
  <2>1. CASE Finish("halted", "halts", {})
    <3>1. outcomes = <<>>
      BY <1>1, <2>1, FirstAnswer
    <3> QED
      BY <1>1, <1>4, <2>1, <3>1
      DEF Finish, ContextCall, Contract!Next, Contract!Halt, Contract!Tell
  <2>2. CASE Head(calls).what = "context error" /\ Finish("error", "errors", {})
    <3>1. Trouble
      <4>1. calls # <<>>
        BY <1>4 DEF ContextCall, Calling
      <4>2. 1 \in DOMAIN calls /\ Head(calls) = calls[1]
        BY <1>1, <4>1 DEF TypeOK
      <4> QED
        BY <2>2, <4>2 DEF Trouble
    <3>2. Contract!OnlyErrors
      BY <3>1, OnlyErrorsBefore
    <3>3. "error" \in flow.faults
      BY <3>1 DEF Sound, Counted
    <3> QED
      BY <1>1, <1>4, <2>2, <3>2, <3>3
      DEF Finish, ContextCall, Contract!Next, Contract!Fail, Contract!Tell
  <2> QED
    BY <1>4, <2>1, <2>2 DEF ContextCall, Calling
<1>5. CASE Enter \/ Arrive \/ After \/ StartCascade \/ HaltPlain \/ HaltJoin \/ ErrorNode
  <2>1. UNCHANGED <<started, outcomes>>
    BY <1>5 DEF Enter, Arrive, After, StartCascade, HaltPlain, HaltJoin, ErrorNode, ended
  <2> QED
    BY <1>2, <2>1
<1>6. CASE Pool
  <2>1. UNCHANGED <<started, outcomes>>
    BY <1>6 DEF Pool, Complete, ReferenceHalts, Route, RoutePosts, PoolFault, ended
  <2> QED
    BY <1>2, <2>1
<1>7. CASE UNCHANGED vars
  BY <1>2, <1>7 DEF vars, ended
<1> QED
  BY <1>3, <1>4, <1>5, <1>6, <1>7 DEF Next, Coordinator

-----------------------------------------------------------------------------
(* Every run of a well-formed flow.                                          *)

FInv == BooksInv /\ \E w, rank : Sound(w, rank)

\* the books balance from the beginning and at every step
LEMMA InitF == Init /\ WellFormed(flow) => FInv
<1> SUFFICES ASSUME Init, WellFormed(flow) PROVE FInv
  OBVIOUS
<1>1. FlowType(flow)
  BY InitInv DEF IInv, TypeOK
<1>2. IsFiniteSet(flow.nodes) /\ Acyclic(flow) /\ Balanced(flow, PathsOf(flow))
  BY DEF WellFormed
<1>3. \A n \in flow.nodes : \A i \in DOMAIN flow.children[n] : flow.children[n][i].node \in flow.nodes
  BY <1>1, FlowChildren
<1>4. PICK rank \in [flow.nodes -> 1 .. Cardinality(flow.nodes)] :
              \A n \in flow.nodes : \A i \in DOMAIN flow.children[n] :
                  rank[n] < rank[flow.children[n][i].node]
  BY <1>2, <1>3, Ranked
<1>5. WellFormedBy(flow, PathsOf(flow), rank)
  BY <1>2, <1>4 DEF WellFormedBy
<1> QED
  BY <1>5, InitSound DEF FInv

LEMMA StepF == FInv /\ [Next]_vars => FInv'
<1> SUFFICES ASSUME FInv, [Next]_vars PROVE FInv'
  OBVIOUS
<1>1. PICK w, rank : Sound(w, rank)
  BY DEF FInv
<1>2. Sound(w, rank)'
  BY <1>1, StepSound
<1>3. BooksInv'
  BY <1>1, SoundParts, StepBooks DEF FInv
<1> QED
  BY <1>2, <1>3 DEF FInv

LEMMA CountedInputs == FInv => NoExtraInput
<1> SUFFICES ASSUME FInv, NEW n \in flow.nodes PROVE remaining[n] >= 0
  BY DEF NoExtraInput
<1>1. PICK w, rank : Sound(w, rank)
  BY DEF FInv
<1>2. CASE n \in Joins(flow)
  <2>1. Coming(w, n) \in Nat /\ Coming(w, n) <= remaining[n] /\ remaining[n] \in Int
    BY <1>1, <1>2, SlackHere
  <2> QED
    BY <2>1
<1>3. CASE n \notin Joins(flow)
  <2>1. remaining[n] = flow.counter[n]
    BY <1>3 DEF FInv, BooksInv
  <2>2. flow.counter[n] \in Nat
    BY <1>1, SoundParts DEF FlowType
  <2> QED
    BY <2>1, <2>2
<1> QED
  BY <1>2, <1>3

LEMMA CountedNext == FInv' => NoExtraInput'
BY CountedInputs, PTL

\* Whatever flow is run, as long as its counters and listeners fit its paths: an input of
\* a join is counted once, where it comes to the join or where its halt is told, and never
\* twice or for a path that is not there (DefaultNodeState.decrement).
THEOREM InputsCounted == Spec /\ WellFormed(flow) => []NoExtraInput
BY CountedInputs, InitF, StepF, PTL DEF Spec

\* Once the context is done, and unless a branch fails, no action is left anywhere, in the
\* queue or in the pool: the end runs last (DefaultFlowContext.handleAction).
THEOREM DoneIsDone == Spec /\ WellFormed(flow) => []NoActionAfterDone
<1>1. FInv => NoActionAfterDone
  <2> SUFFICES ASSUME FInv, done, "error" \notin Told
               PROVE  jobs = {} /\ \A i \in DOMAIN queue : queue[i].what \notin ActionTasks
    BY DEF NoActionAfterDone
  <2>1. PICK w, rank : Sound(w, rank)
    BY DEF FInv
  <2>2. PICK end \in flow.nodes : end \in Ends(flow) /\ Ends(flow) = {end}
    BY <2>1, SoundParts DEF WellFormedBy, Balanced, OneEnd
  <2>3. Answers # 0
    <3>1. outcomes # <<>> /\ TypeOK
      BY <2>1, SoundParts DEF FInv, BooksInv
    <3>2. 1 \in DOMAIN outcomes
      BY <3>1 DEF TypeOK
    <3>3. outcomes[1].kind # "error"
      BY <3>2 DEF Told
    <3> QED
      BY <3>1, <3>2, <3>3, AnswersSome
  <2>4. /\ Answers \in Nat /\ Answers <= Runs(end) /\ Runs(end) \in Nat /\ Runs(end) <= 1
        /\ Runs(end) = InSeq(Running(flow, end), queue) + InSeq(Running(flow, end), calls)
                       + Answers
        /\ InSeq(Running(flow, end), queue) \in Nat /\ InSeq(Running(flow, end), calls) \in Nat
    BY <2>1, <2>2, EndRuns, EndRunsLast
  <2>5. InSeq(Running(flow, end), queue) = 0 /\ Runs(end) # 0
    BY <2>3, <2>4
  <2>6. /\ jobs = {}
        /\ \A i \in DOMAIN queue :
              /\ queue[i].what \notin {"enter", "main", "next"}
              /\ queue[i].what = "run" => flow.kind[queue[i].node] = "end"
    BY <2>1, <2>2, <2>5, EndRunsLast, NothingLeft
  <2>7. ASSUME NEW i \in DOMAIN queue, queue[i].what = "run" PROVE FALSE
    <3> DEFINE r == Running(flow, end)
    <3>1. queue \in Seq(Tasks) /\ queue[i] \in Tasks
      BY <2>1, SoundParts, SeqElement DEF TypeOK
    <3>2. queue[i].node = end
      BY <2>2, <2>6, <2>7, <3>1 DEF Ends, Tasks
    <3>3. Weighs(r, Tasks)
      BY <2>1, <2>2, RunningType, Weighing
    <3>4. InSeq(r, queue) >= r[queue[i].what][queue[i].node]
      BY <3>1, <3>3, InSeqTerm
    <3>5. r["run"][end] = 1
      BY <2>2, RunningValues DEF Is
    <3> HIDE DEF r
    <3>6. r[queue[i].what][queue[i].node] = 1
      BY <2>7, <3>2, <3>5
    <3> QED
      BY <2>5, <3>4, <3>6 DEF r
  <2> QED
    BY <2>6, <2>7 DEF ActionTasks
<1> QED
  BY <1>1, InitF, StepF, PTL DEF Spec

\* A run in which nothing can go wrong does not get stuck: when there is nothing left to do,
\* every join has decided, the end has run and the counters of the flow add up (FlowStats).
THEOREM IdleIsAccounted == Spec /\ WellFormed(flow) => []AccountedWhenIdle
<1>1. FInv => AccountedWhenIdle
  <2> SUFFICES ASSUME FInv, Idle, flow.faults = {}
               PROVE  /\ outcomes # <<>>
                      /\ stats["requests"] = stats["completed"] + stats["errors"] + stats["halts"]
    BY DEF AccountedWhenIdle
  <2>1. PICK w, rank : Sound(w, rank)
    BY DEF FInv
  <2>2. PICK end \in flow.nodes : end \in Ends(flow) /\ Ends(flow) = {end}
    BY <2>1, SoundParts DEF WellFormedBy, Balanced, OneEnd
  <2>3. /\ FlowType(flow) /\ WellFormedBy(flow, w, rank) /\ TypeOK
        /\ Gathers(flow) \subseteq flow.nodes /\ Joins(flow) \subseteq flow.nodes
        /\ Cardinality(flow.nodes) \in Nat /\ rank \in [flow.nodes -> 1 .. Cardinality(flow.nodes)]
        /\ Undecided \subseteq Joins(flow)
    BY <2>1, SoundParts, FlowNodes DEF Undecided
  <2>4. ASSUME NEW t \in flow.nodes
        PROVE  /\ Coming(w, t) = JoinsAhead(flow, w, t, Undecided)
               /\ Runs(t) = Ran(t) /\ Coming(w, t) \in Nat
    <3>1. /\ InSeq(Ahead(flow, w, t), queue) = 0 /\ InSeq(Ahead(flow, w, t), calls) = 0
          /\ InSeq(Running(flow, t), queue) = 0 /\ InSeq(Running(flow, t), calls) = 0
      <4>1. queue = <<>> /\ calls = <<>>
        BY DEF Idle
      <4>2. \A g : InSeq(g, <<>>) = 0
        BY TotalEmpty DEF InSeq
      <4> QED
        BY <4>1, <4>2
    <3>2. JobsAhead(flow, w, t, jobs) = 0
      BY TotalEmpty DEF JobsAhead, Idle
    <3>3. Ran(t) \in Nat /\ JoinsAhead(flow, w, t, Undecided) \in Nat
      BY <2>1, <2>3, RunsParts, ComingParts
    <3> QED
      BY <3>1, <3>2, <3>3 DEF Coming, Runs
  <2>5. \A t \in Gathers(flow) : Slack(w, t) = 0
    BY <2>1 DEF Sound, Counted
  <2>6. Undecided = {}
    <3>1. SUFFICES ASSUME Undecided # {} PROVE FALSE
      OBVIOUS
    <3>2. PICK n \in Undecided : \A k \in Undecided : rank[n] <= rank[k]
      <4> DEFINE size == Cardinality(flow.nodes)
                 S == Undecided
      <4>1. S \in SUBSET flow.nodes /\ size \in Nat /\ rank \in [flow.nodes -> 1 .. size] /\ S # {}
        BY <2>3, <3>1
      <4> HIDE DEF size, S
      <4>2. \E n \in S : \A k \in S : rank[n] <= rank[k]
        BY <4>1, LowestRank
      <4> QED
        BY <4>2 DEF S
    <3>3. n \in flow.nodes /\ n \in Joins(flow) /\ remaining[n] > 0
      BY <2>1, <2>3, <3>2, JoinStands
    <3>4. \A k \in Undecided : Onward(flow, w, n, k) = 0
      <4>1. ASSUME NEW k \in Undecided, Onward(flow, w, n, k) # 0 PROVE FALSE
        <5>1. k \in flow.nodes
          BY <2>3
        <5>2. rank[k] < rank[n]
          BY <2>3, <3>3, <4>1, <5>1, OnwardRank
        <5>3. rank[k] \in Nat /\ rank[n] \in Nat /\ rank[n] <= rank[k]
          BY <2>3, <3>2, <3>3, <5>1
        <5> QED
          BY <5>2, <5>3
      <4> QED
        BY <4>1
    <3>5. JoinsAhead(flow, w, n, Undecided) = 0
      <4> DEFINE v == [k \in Undecided |-> Onward(flow, w, n, k)]
      <4>1. \A k \in Undecided : v[k] = 0
        BY <3>4
      <4> HIDE DEF v
      <4>2. Total(Undecided, v) = 0
        BY <4>1, TotalZero
      <4> QED
        BY <4>2 DEF JoinsAhead, v
    <3>6. Slack(w, n) = remaining[n] - Coming(w, n) /\ Slack(w, n) = 0 /\ remaining[n] \in Int
      BY <2>3, <2>5, <3>3 DEF Slack, Gathers, TypeOK
    <3> QED
      BY <2>4, <3>3, <3>5, <3>6
  <2>7. Runs(end) = 1
    <3>1. Coming(w, end) = 0
      <4>1. JoinsAhead(flow, w, end, {}) = 0
        BY TotalEmpty DEF JoinsAhead
      <4> QED
        BY <2>4, <2>6, <4>1
    <3>2. Runs(end) \in Nat
      BY <2>1, SlackHere
    <3>3. CASE end \in Joins(flow)
      <4>1. Decisions(end) = 1 /\ ToDecide(end) = 0
        BY <2>1, <2>2, <2>6, <3>3 DEF Sound, Counted, ToDecide, Ends
      <4> QED
        BY <3>2, <4>1 DEF Decisions
    <3>4. CASE end \notin Joins(flow)
      <4>1. Slack(w, end) = 1 - Runs(end) - Coming(w, end) /\ Slack(w, end) = 0
        BY <2>2, <2>5, <3>4 DEF Slack, Gathers
      <4> QED
        BY <3>1, <3>2, <4>1
    <3> QED
      BY <3>3, <3>4
  <2>8. Answers = 1
    <3>1. Runs(end) = Ran(end) /\ Ran(end) = Answers
      BY <2>2, <2>4 DEF Ran, Ends
    <3> QED
      BY <2>7, <3>1
  <2>9. ~ Trouble
    BY <2>1 DEF Sound, Counted
  <2>10. stats["errors"] = 0
    BY <2>9 DEF FInv, BooksInv, Trouble
  <2>11. stats["requests"] = 1 /\ stats["completed"] + stats["halts"] = 1
    BY <2>8 DEF FInv, BooksInv
  <2>12. stats["completed"] \in Nat /\ stats["halts"] \in Nat
    BY <2>3 DEF TypeOK, Counters
  <2>13. outcomes # <<>>
    <3>1. \E i \in DOMAIN outcomes : outcomes[i].kind # "error"
      BY <2>3, <2>8, AnswersSome
    <3> QED
      BY <3>1
  <2> QED
    BY <2>10, <2>11, <2>12, <2>13
<1> QED
  BY <1>1, InitF, StepF, PTL DEF Spec

\* Every step of a run is one FlowContract allows: an operation is executed at most once and
\* before the end, there is one answer that is no error and it comes before anything else,
\* with the changes of executed operations only, and errors come of flows that may fail.
THEOREM KeepsContract == Spec /\ WellFormed(flow) => Contract!Safety
<1>1. Init => Contract!Init
  <2> SUFFICES ASSUME Init PROVE Contract!Init
    OBVIOUS
  <2>1. FlowType(flow)
    BY FlowsAssumption DEF Init
  <2> QED
    BY <2>1 DEF Init, Contract!Init, FlowType
<1>2. FInv /\ [Next]_vars => [Contract!Next]_(Contract!vars)
  BY StepContract DEF FInv
<1> QED
  BY <1>1, <1>2, InitF, StepF, PTL DEF Spec, Contract!Safety

-----------------------------------------------------------------------------
(***************************************************************************)
(* The branches of a run keep apart.                                        *)
(*                                                                         *)
(* A reference is held by a task of the queue, by a job, by a task that a   *)
(* routing job has still to post, or by a join that waits.  Whatever holds  *)
(* references holds other ones than everything else (Separate), so a change *)
(* of an object changes what one holder sees and no other, and every holder *)
(* finds what is meant (AsMeant).                                           *)
(***************************************************************************)

\* what tasks, a job and the joins of a hold
TaskRefs(s) == { s[i].data : i \in DOMAIN s } \ {NoData}
JobRefs(j)  == IF j.work = "routing" THEN TaskRefs(j.todo) ELSE {j.data}
PoolRefs(J) == UNION { JobRefs(j) : j \in J }
JoinRefs(a) == UNION { Range(a[n]) : n \in DOMAIN a }

Held(q, J, a) == TaskRefs(q) \cup PoolRefs(J) \cup JoinRefs(a)

Away(R, S) == \A d \in R, e \in S : d.at # e.at

\* no two of the tasks hold the same
Single(s) == \A i, k \in DOMAIN s :
                i # k /\ s[i].data # NoData /\ s[k].data # NoData => s[i].data.at # s[k].data.at

Separate(q, J, a) ==
    /\ Single(q)
    /\ \A j \in J : j.work = "routing" => Single(j.todo)
    /\ \A j \in J : Away(TaskRefs(q), JobRefs(j))
    /\ \A n \in DOMAIN a : Away(TaskRefs(q), Range(a[n]))
    /\ \A j \in J, n \in DOMAIN a : Away(JobRefs(j), Range(a[n]))
    /\ \A j, k \in J : j # k => Away(JobRefs(j), JobRefs(k))
    /\ \A m, n \in DOMAIN a : m # n => Away(Range(a[m]), Range(a[n]))

AsMeant(h, R) == \A d \in R : h[d.at] = d.meant

\* what has arrived at the joins that wait
Waiting == [n \in { n \in flow.nodes : lifecycle[n] = "WAITING" } |-> arrived[n]]

HeldNow == Held(queue, jobs, Waiting)

ApartInv == Separate(queue, jobs, Waiting) /\ AsMeant(heap, HeldNow)

-----------------------------------------------------------------------------
(* References of sequences of tasks.                                          *)

OwnRef(e) == {e.data} \ {NoData}

LEMMA AwaySymmetric == ASSUME NEW R, NEW S, Away(R, S) PROVE Away(S, R)
BY DEF Away

LEMMA RefsOne ==
    ASSUME NEW e
    PROVE  /\ TaskRefs(<<e>>) = OwnRef(e) /\ Single(<<e>>)
           /\ TaskRefs(<<>>) = {} /\ Single(<<>>)
BY DEF TaskRefs, OwnRef, Single

LEMMA RefsConcat ==
    ASSUME NEW S, NEW s \in Seq(S), NEW T, NEW t \in Seq(T)
    PROVE  /\ TaskRefs(s \o t) = TaskRefs(s) \cup TaskRefs(t)
           /\ Single(s) /\ Single(t) /\ Away(TaskRefs(s), TaskRefs(t)) => Single(s \o t)
<1> DEFINE st == s \o t
<1>1. /\ DOMAIN s = 1 .. Len(s) /\ Len(s) \in Nat
      /\ DOMAIN t = 1 .. Len(t) /\ Len(t) \in Nat
      /\ DOMAIN st = 1 .. Len(s) + Len(t)
      /\ \A i \in 1 .. Len(s) : st[i] = s[i]
      /\ \A i \in 1 .. Len(t) : st[Len(s) + i] = t[i]
  OBVIOUS
<1> HIDE DEF st
<1>2. \A i \in DOMAIN st : i \in DOMAIN s \/ (i - Len(s) \in DOMAIN t /\ i = Len(s) + (i - Len(s)))
  BY <1>1
<1>3. \A i \in DOMAIN st : \/ i \in DOMAIN s /\ st[i] = s[i]
                           \/ i \notin DOMAIN s /\ i - Len(s) \in DOMAIN t /\ st[i] = t[i - Len(s)]
  BY <1>1, <1>2
<1>4. TaskRefs(st) = TaskRefs(s) \cup TaskRefs(t)
  <2>1. TaskRefs(st) \subseteq TaskRefs(s) \cup TaskRefs(t)
    BY <1>3 DEF TaskRefs
  <2>2. TaskRefs(s) \subseteq TaskRefs(st)
    <3>1. \A i \in DOMAIN s : i \in DOMAIN st /\ st[i] = s[i]
      BY <1>1
    <3> QED
      BY <3>1 DEF TaskRefs
  <2>3. TaskRefs(t) \subseteq TaskRefs(st)
    <3>1. \A i \in DOMAIN t : Len(s) + i \in DOMAIN st /\ st[Len(s) + i] = t[i]
      BY <1>1
    <3> QED
      BY <3>1 DEF TaskRefs
  <2> QED
    BY <2>1, <2>2, <2>3
<1>5. ASSUME Single(s), Single(t), Away(TaskRefs(s), TaskRefs(t))
      PROVE  Single(st)
  <2> SUFFICES ASSUME NEW i \in DOMAIN st, NEW k \in DOMAIN st, i # k,
                      st[i].data # NoData, st[k].data # NoData
               PROVE  st[i].data.at # st[k].data.at
    BY DEF Single
  <2>1. CASE i \in DOMAIN s /\ k \in DOMAIN s
    BY <1>1, <1>5, <2>1 DEF Single
  <2>2. CASE i \notin DOMAIN s /\ k \notin DOMAIN s
    <3>1. i - Len(s) # k - Len(s)
      BY <1>1
    <3> QED
      BY <1>3, <1>5, <2>2, <3>1 DEF Single
  <2>3. CASE i \in DOMAIN s /\ k \notin DOMAIN s
    BY <1>3, <1>5, <2>3 DEF Away, TaskRefs
  <2>4. CASE i \notin DOMAIN s /\ k \in DOMAIN s
    BY <1>3, <1>5, <2>4 DEF Away, TaskRefs
  <2> QED
    BY <2>1, <2>2, <2>3, <2>4
<1> QED
  BY <1>4, <1>5 DEF st

LEMMA RefsTail ==
    ASSUME NEW S, NEW s \in Seq(S), s # <<>>
    PROVE  /\ TaskRefs(s) = OwnRef(Head(s)) \cup TaskRefs(Tail(s))
           /\ Single(s) => Single(Tail(s)) /\ Away(OwnRef(Head(s)), TaskRefs(Tail(s)))
<1> DEFINE e == Head(s)
           r == Tail(s)
<1>1. <<e>> \in Seq(S) /\ r \in Seq(S) /\ s = <<e>> \o r
  OBVIOUS
<1>2. /\ DOMAIN s = 1 .. Len(s) /\ Len(s) \in Nat /\ 1 \in DOMAIN s /\ s[1] = e
      /\ \A i \in DOMAIN r : i + 1 \in DOMAIN s /\ r[i] = s[i + 1] /\ i + 1 # 1
      /\ \A i, k \in DOMAIN r : i # k => i + 1 # k + 1
  OBVIOUS
<1> HIDE DEF e, r
<1>3. TaskRefs(s) = OwnRef(e) \cup TaskRefs(r)
  <2>1. TaskRefs(<<e>> \o r) = TaskRefs(<<e>>) \cup TaskRefs(r)
    BY <1>1, RefsConcat
  <2> QED
    BY <1>1, <2>1, RefsOne
<1>4. ASSUME Single(s)
      PROVE  Single(r) /\ Away(OwnRef(e), TaskRefs(r))
  <2>1. Single(r)
    BY <1>2, <1>4 DEF Single
  <2>2. Away(OwnRef(e), TaskRefs(r))
    BY <1>2, <1>4 DEF Single, Away, OwnRef, TaskRefs
  <2> QED
    BY <2>1, <2>2
<1> QED
  BY <1>3, <1>4 DEF e, r

LEMMA AwayFromHeld ==
    ASSUME NEW R, NEW q, NEW J, NEW a
    PROVE  Away(R, Held(q, J, a)) <=> /\ Away(R, TaskRefs(q))
                                      /\ \A j \in J : Away(R, JobRefs(j))
                                      /\ \A n \in DOMAIN a : Away(R, Range(a[n]))
<1>1. ASSUME NEW d
      PROVE  d \in Held(q, J, a) <=> \/ d \in TaskRefs(q)
                                     \/ \E j \in J : d \in JobRefs(j)
                                     \/ \E n \in DOMAIN a : d \in Range(a[n])
  <2>1. d \in PoolRefs(J) <=> \E j \in J : d \in JobRefs(j)
    BY Zenon DEF PoolRefs
  <2>2. d \in JoinRefs(a) <=> \E n \in DOMAIN a : d \in Range(a[n])
    BY Zenon DEF JoinRefs
  <2> QED
    BY <2>1, <2>2 DEF Held
<1> QED
  BY <1>1, Zenon DEF Away

-----------------------------------------------------------------------------
(* What is taken from where it is held is held nowhere else.                  *)

\* b is a without what n has, and a with d for n
Without(a, b, n) == DOMAIN b = DOMAIN a \ {n} /\ \A m \in DOMAIN b : b[m] = a[m]
WithInput(a, b, n, d) == /\ DOMAIN b = DOMAIN a /\ Range(b[n]) = Range(a[n]) \cup {d}
                         /\ \A m \in DOMAIN a \ {n} : b[m] = a[m]

LEMMA TaskTaken ==
    ASSUME NEW S, NEW q \in Seq(S), q # <<>>, NEW J, NEW a, Separate(q, J, a)
    PROVE  /\ Separate(Tail(q), J, a)
           /\ Away(OwnRef(Head(q)), Held(Tail(q), J, a))
           /\ Held(q, J, a) = OwnRef(Head(q)) \cup Held(Tail(q), J, a)
<1> DEFINE own == OwnRef(Head(q))
           r   == Tail(q)
<1>1. TaskRefs(q) = own \cup TaskRefs(r) /\ Single(r) /\ Away(own, TaskRefs(r))
  BY RefsTail DEF Separate
<1> HIDE DEF own, r
<1>2. Separate(r, J, a)
  BY <1>1 DEF Separate, Away
<1>3. Away(own, Held(r, J, a))
  <2>1. \A j \in J : Away(own, JobRefs(j))
    BY <1>1 DEF Separate, Away
  <2>2. \A n \in DOMAIN a : Away(own, Range(a[n]))
    BY <1>1 DEF Separate, Away
  <2> QED
    BY <1>1, <2>1, <2>2, AwayFromHeld
<1>4. Held(q, J, a) = own \cup Held(r, J, a)
  BY <1>1 DEF Held
<1> QED
  BY <1>2, <1>3, <1>4 DEF own, r

LEMMA JobTaken ==
    ASSUME NEW q, NEW J, NEW j \in J, NEW a, Separate(q, J, a)
    PROVE  /\ Separate(q, J \ {j}, a)
           /\ Away(JobRefs(j), Held(q, J \ {j}, a))
           /\ Held(q, J, a) = JobRefs(j) \cup Held(q, J \ {j}, a)
<1>1. Separate(q, J \ {j}, a)
  BY DEF Separate
<1>2. Away(JobRefs(j), Held(q, J \ {j}, a))
  <2>1. Away(JobRefs(j), TaskRefs(q))
    BY AwaySymmetric DEF Separate
  <2>2. \A k \in J \ {j} : Away(JobRefs(j), JobRefs(k))
    BY DEF Separate
  <2>3. \A n \in DOMAIN a : Away(JobRefs(j), Range(a[n]))
    BY DEF Separate
  <2> QED
    BY <2>1, <2>2, <2>3, AwayFromHeld
<1>3. PoolRefs(J) = JobRefs(j) \cup PoolRefs(J \ {j})
  BY DEF PoolRefs
<1>4. Held(q, J, a) = JobRefs(j) \cup Held(q, J \ {j}, a)
  BY <1>3 DEF Held
<1> QED
  BY <1>1, <1>2, <1>4

LEMMA JoinTaken ==
    ASSUME NEW q, NEW J, NEW a, NEW n \in DOMAIN a, Separate(q, J, a),
           NEW b, Without(a, b, n)
    PROVE  /\ Separate(q, J, b)
           /\ Away(Range(a[n]), Held(q, J, b))
           /\ Held(q, J, a) = Range(a[n]) \cup Held(q, J, b)
<1> USE DEF Without
<1>1. Separate(q, J, b)
  BY DEF Separate
<1>2. Away(Range(a[n]), Held(q, J, b))
  <2>1. Away(Range(a[n]), TaskRefs(q))
    BY AwaySymmetric DEF Separate
  <2>2. \A j \in J : Away(Range(a[n]), JobRefs(j))
    BY AwaySymmetric DEF Separate
  <2>3. \A m \in DOMAIN b : Away(Range(a[n]), Range(b[m]))
    BY DEF Separate
  <2> QED
    BY <2>1, <2>2, <2>3, AwayFromHeld
<1>3. JoinRefs(a) = Range(a[n]) \cup JoinRefs(b)
  BY DEF JoinRefs
<1>4. Held(q, J, a) = Range(a[n]) \cup Held(q, J, b)
  BY <1>3 DEF Held
<1> QED
  BY <1>1, <1>2, <1>4

-----------------------------------------------------------------------------
(* What is held nowhere may be put anywhere.                                  *)

LEMMA TasksPut ==
    ASSUME NEW S, NEW q \in Seq(S), NEW T, NEW s \in Seq(T), NEW J, NEW a, Separate(q, J, a),
           Single(s), Away(TaskRefs(s), Held(q, J, a))
    PROVE  /\ Separate(q \o s, J, a)
           /\ Held(q \o s, J, a) = Held(q, J, a) \cup TaskRefs(s)
<1> DEFINE qs == q \o s
<1>1. TaskRefs(qs) = TaskRefs(q) \cup TaskRefs(s)
  BY RefsConcat
<1>2. Away(TaskRefs(q), TaskRefs(s))
  BY DEF Away, Held
<1>3. Single(qs)
  BY <1>2, RefsConcat DEF Separate
<1> HIDE DEF qs
<1>4. Separate(qs, J, a)
  <2>1. /\ \A j \in J : Away(TaskRefs(s), JobRefs(j))
        /\ \A n \in DOMAIN a : Away(TaskRefs(s), Range(a[n]))
    BY AwayFromHeld
  <2>2. \A R : Away(TaskRefs(q), R) /\ Away(TaskRefs(s), R) => Away(TaskRefs(qs), R)
    BY <1>1 DEF Away
  <2> QED
    BY <1>3, <2>1, <2>2 DEF Separate
<1>5. Held(qs, J, a) = Held(q, J, a) \cup TaskRefs(s)
  BY <1>1 DEF Held
<1> QED
  BY <1>4, <1>5 DEF qs

LEMMA TaskPut ==
    ASSUME NEW S, NEW q \in Seq(S), NEW e, NEW J, NEW a, Separate(q, J, a),
           Away(OwnRef(e), Held(q, J, a))
    PROVE  /\ Separate(Append(q, e), J, a)
           /\ Held(Append(q, e), J, a) = Held(q, J, a) \cup OwnRef(e)
<1>1. <<e>> \in Seq({e}) /\ Append(q, e) = q \o <<e>>
  OBVIOUS
<1>2. TaskRefs(<<e>>) = OwnRef(e) /\ Single(<<e>>)
  BY RefsOne
<1> DEFINE s == <<e>>
<1> HIDE DEF s
<1>3. s \in Seq({e}) /\ Append(q, e) = q \o s /\ TaskRefs(s) = OwnRef(e) /\ Single(s)
  BY <1>1, <1>2 DEF s
<1> QED
  BY <1>3, TasksPut

LEMMA JobPut ==
    ASSUME NEW q, NEW J, NEW a, Separate(q, J, a), NEW k,
           k.work = "routing" => Single(k.todo), Away(JobRefs(k), Held(q, J, a))
    PROVE  /\ Separate(q, J \cup {k}, a)
           /\ Held(q, J \cup {k}, a) = Held(q, J, a) \cup JobRefs(k)
<1>1. Separate(q, J \cup {k}, a)
  <2>1. Away(TaskRefs(q), JobRefs(k))
    BY AwayFromHeld, AwaySymmetric
  <2>2. \A n \in DOMAIN a : Away(JobRefs(k), Range(a[n]))
    BY AwayFromHeld
  <2>3. \A j \in J : Away(JobRefs(j), JobRefs(k)) /\ Away(JobRefs(k), JobRefs(j))
    BY AwayFromHeld, AwaySymmetric
  <2> QED
    BY <2>1, <2>2, <2>3 DEF Separate
<1>2. Held(q, J \cup {k}, a) = Held(q, J, a) \cup JobRefs(k)
  <2>1. PoolRefs(J \cup {k}) = PoolRefs(J) \cup JobRefs(k)
    BY DEF PoolRefs
  <2> QED
    BY <2>1 DEF Held
<1> QED
  BY <1>1, <1>2

LEMMA InputPut ==
    ASSUME NEW q, NEW J, NEW a, Separate(q, J, a), NEW n \in DOMAIN a, NEW d, Away({d}, Held(q, J, a)),
           NEW b, WithInput(a, b, n, d)
    PROVE  /\ Separate(q, J, b)
           /\ Held(q, J, b) = Held(q, J, a) \cup {d}
<1> USE DEF WithInput
<1>1. \A m \in DOMAIN a : Range(b[m]) = IF m = n THEN Range(a[n]) \cup {d} ELSE Range(a[m])
  OBVIOUS
<1>2. /\ Away({d}, TaskRefs(q)) /\ \A j \in J : Away({d}, JobRefs(j))
      /\ \A m \in DOMAIN a : Away({d}, Range(a[m]))
  BY AwayFromHeld
<1>3. Separate(q, J, b)
  <2>1. \A m \in DOMAIN b : Away(TaskRefs(q), Range(b[m]))
    BY <1>1, <1>2 DEF Separate, Away
  <2>2. \A j \in J, m \in DOMAIN b : Away(JobRefs(j), Range(b[m]))
    BY <1>1, <1>2 DEF Separate, Away
  <2>3. \A m, l \in DOMAIN b : m # l => Away(Range(b[m]), Range(b[l]))
    BY <1>1, <1>2 DEF Separate, Away
  <2> QED
    BY <2>1, <2>2, <2>3 DEF Separate
<1>4. JoinRefs(b) = JoinRefs(a) \cup {d}
  BY <1>1 DEF JoinRefs
<1>5. Held(q, J, b) = Held(q, J, a) \cup {d}
  BY <1>4 DEF Held
<1> QED
  BY <1>3, <1>5

-----------------------------------------------------------------------------
(* What is held in a state is data of it.                                     *)

LEMMA Data ==
    /\ NoData \notin Refs
    /\ \A e \in Tasks : /\ OwnRef(e) \subseteq Refs
                        /\ e.what \in ActionTasks => OwnRef(e) = {e.data} /\ e.data \in Refs
                        /\ e.what \notin ActionTasks => OwnRef(e) = {}
<1>1. NoData \notin Refs
  BY DEF NoData, Ref, Refs
<1>2. ASSUME NEW e \in Tasks
      PROVE  \/ e.what \in ActionTasks /\ e.data \in Refs
             \/ e.what \notin ActionTasks /\ e.data = NoData
  BY DEF Tasks, ActionTasks, OtherTasks
<1> QED
  BY <1>1, <1>2 DEF OwnRef

LEMMA TaskRefsTyped ==
    ASSUME NEW s \in Seq(Tasks)
    PROVE  TaskRefs(s) \subseteq Refs
<1>1. \A i \in DOMAIN s : OwnRef(s[i]) \subseteq Refs
  BY Data
<1> QED
  BY <1>1 DEF TaskRefs, OwnRef

LEMMA HeldTyped ==
    ASSUME TypeOK
    PROVE  HeldNow \subseteq Refs
<1>1. queue \in Seq(Tasks) /\ jobs \subseteq Jobs /\ arrived \in [flow.nodes -> Seq(Refs)]
  BY DEF TypeOK
<1>2. TaskRefs(queue) \subseteq Refs
  BY <1>1, TaskRefsTyped
<1>3. PoolRefs(jobs) \subseteq Refs
  <2> SUFFICES ASSUME NEW j \in jobs PROVE JobRefs(j) \subseteq Refs
    BY DEF PoolRefs
  <2> QED
    BY PoolJobType, TaskRefsTyped DEF JobRefs
<1>4. JoinRefs(Waiting) \subseteq Refs
  <2> SUFFICES ASSUME NEW n \in DOMAIN Waiting PROVE Range(Waiting[n]) \subseteq Refs
    BY DEF JoinRefs
  <2>1. Waiting[n] \in Seq(Refs)
    BY <1>1 DEF Waiting
  <2> QED
    BY <2>1 DEF Range
<1> QED
  BY <1>2, <1>3, <1>4 DEF HeldNow, Held

\* what the coordinator has taken from the queue nothing else holds, and it is as meant
LEMMA CoordinatorTakes ==
    ASSUME TypeOK, ApartInv, queue # <<>>
    PROVE  LET rest == Held(Tail(queue), jobs, Waiting)
           IN  /\ Separate(Tail(queue), jobs, Waiting)
               /\ rest \subseteq HeldNow
               /\ Head(queue).what \in ActionTasks =>
                     /\ Given \in HeldNow /\ Given \in Refs /\ Away({Given}, rest)
<1>1. queue \in Seq(Tasks) /\ Head(queue) \in Tasks
  BY SeqTail DEF TypeOK
<1>2. Separate(queue, jobs, Waiting)
  BY DEF ApartInv
<1>3. /\ Separate(Tail(queue), jobs, Waiting)
      /\ Away(OwnRef(Head(queue)), Held(Tail(queue), jobs, Waiting))
      /\ HeldNow = OwnRef(Head(queue)) \cup Held(Tail(queue), jobs, Waiting)
  BY <1>1, <1>2, TaskTaken DEF HeldNow
<1>4. Head(queue).what \in ActionTasks => OwnRef(Head(queue)) = {Given} /\ Given \in Refs
  BY <1>1, Data DEF Given
<1> QED
  BY <1>3, <1>4

LEMMA PoolTakes ==
    ASSUME TypeOK, ApartInv, NEW j \in jobs
    PROVE  LET rest == Held(queue, jobs \ {j}, Waiting)
           IN  /\ Separate(queue, jobs \ {j}, Waiting)
               /\ rest \subseteq HeldNow /\ JobRefs(j) \subseteq HeldNow
               /\ Away(JobRefs(j), rest)
BY JobTaken DEF ApartInv, HeldNow

-----------------------------------------------------------------------------
(* Data that is handed out to children: to one of them, or a copy to each.    *)

LEMMA CopyFacts ==
    ASSUME TypeOK, NEW n \in flow.nodes, NEW d \in Refs
    PROVE  LET children == flow.children[n]
           IN  /\ DOMAIN children = 1 .. Len(children) /\ Len(children) \in Nat /\ Len(heap) \in Nat
               /\ \A b \in 1 .. Len(heap) : Copied(d, children)[b] = heap[b]
               /\ \A i \in DOMAIN children :
                     /\ Copied(d, children)[Copy(d, i).at] = heap[d.at]
                     /\ Copy(d, i).at = Len(heap) + i /\ Copy(d, i).meant = d.meant
<1> DEFINE children == flow.children[n]
           copies == [i \in DOMAIN children |-> heap[d.at]]
<1>1. children \in Seq([node : flow.nodes, key : Nat]) /\ heap \in Seq(SUBSET flow.nodes)
  BY DEF TypeOK, FlowType
<1>2. heap[d.at] \in SUBSET flow.nodes
  BY <1>1 DEF Refs
<1>3. DOMAIN children = 1 .. Len(children) /\ Len(children) \in Nat /\ Len(heap) \in Nat
  BY <1>1
<1>4. copies \in Seq(SUBSET flow.nodes) /\ Len(copies) = Len(children)
  <2>1. copies = [i \in DOMAIN children |-> copies[i]]
    OBVIOUS
  <2>2. \A i \in DOMAIN children : copies[i] \in SUBSET flow.nodes
    BY <1>2
  <2>3. children \in Seq([node : flow.nodes, key : Nat])
    BY <1>1
  <2> HIDE DEF copies, children
  <2> QED
    BY <2>1, <2>2, <2>3, SeqOfFunction
<1>5. \A i \in DOMAIN children : copies[i] = heap[d.at]
  OBVIOUS
<1> HIDE DEF children, copies
<1>6. /\ \A b \in 1 .. Len(heap) : (heap \o copies)[b] = heap[b]
      /\ \A i \in 1 .. Len(copies) : (heap \o copies)[Len(heap) + i] = copies[i]
  BY <1>1, <1>4
<1>7. Copied(d, children) = heap \o copies
  BY DEF Copied, copies
<1>8. \A i \in DOMAIN children : Copy(d, i).at = Len(heap) + i /\ Copy(d, i).meant = d.meant
  BY DEF Copy, Ref
<1>9. \A i \in DOMAIN children : Copied(d, children)[Copy(d, i).at] = heap[d.at]
  BY <1>3, <1>4, <1>5, <1>6, <1>7, <1>8
<1> QED
  BY <1>3, <1>6, <1>7, <1>8, <1>9 DEF children

\* every task has nothing or what is for it, and only copies go to several
HandsOut(s, d, children, copy) ==
    /\ DOMAIN s = DOMAIN children
    /\ \A i \in DOMAIN s : \/ s[i].data = NoData
                           \/ s[i].data = IF copy THEN Copy(d, i) ELSE d
    /\ copy \/ \A i, k \in DOMAIN s : s[i].data # NoData /\ s[k].data # NoData => i = k

LEMMA HandedOut ==
    ASSUME TypeOK, NEW H \in SUBSET Refs, AsMeant(heap, H),
           NEW d \in Refs, heap[d.at] = d.meant, Away({d}, H),
           NEW n \in flow.nodes, NEW copy \in BOOLEAN,
           heap' = IF copy THEN Copied(d, flow.children[n]) ELSE heap,
           NEW s, HandsOut(s, d, flow.children[n], copy)
    PROVE  /\ Single(s) /\ Away(TaskRefs(s), H)
           /\ AsMeant(heap', H) /\ AsMeant(heap', TaskRefs(s))
<1>1. \A e \in Refs : e.at \in 1 .. Len(heap)
  BY DEF Refs
<1>2. CASE ~copy
  <2>1. TaskRefs(s) \subseteq {d} /\ heap' = heap
    BY <1>2 DEF TaskRefs, HandsOut
  <2>2. Single(s)
    BY <1>2 DEF Single, HandsOut
  <2> QED
    BY <2>1, <2>2 DEF Away, AsMeant
<1>3. CASE copy
  <2> DEFINE children == flow.children[n]
  <2>1. /\ DOMAIN children = 1 .. Len(children) /\ Len(children) \in Nat /\ Len(heap) \in Nat
        /\ \A b \in 1 .. Len(heap) : heap'[b] = heap[b]
        /\ \A i \in DOMAIN children :
              /\ heap'[Copy(d, i).at] = d.meant
              /\ Copy(d, i).at = Len(heap) + i /\ Copy(d, i).meant = d.meant
    BY <1>3, CopyFacts
  <2> HIDE DEF children
  <2>2. \A i \in DOMAIN s : s[i].data # NoData => s[i].data = Copy(d, i) /\ i \in DOMAIN children
    BY <1>3 DEF children, HandsOut
  <2>3. Single(s)
    BY <2>1, <2>2 DEF Single
  <2>4. \A e \in TaskRefs(s) : \E i \in DOMAIN children : e = Copy(d, i)
    BY <2>2 DEF TaskRefs
  <2>5. \A e \in TaskRefs(s) : heap'[e.at] = e.meant /\ \A h \in H : e.at # h.at
    BY <1>1, <2>1, <2>4
  <2>6. AsMeant(heap', H)
    BY <1>1, <2>1 DEF AsMeant
  <2> QED
    BY <2>3, <2>5, <2>6 DEF Away, AsMeant
<1> QED
  BY <1>2, <1>3

-----------------------------------------------------------------------------
(* What a holder gets is as meant, if what it is given is.                   *)

LEMMA TaskApart ==
    ASSUME NEW S, NEW q \in Seq(S), NEW J, NEW a, NEW h, Separate(q, J, a),
           AsMeant(h, Held(q, J, a)), NEW e, NEW R, OwnRef(e) \subseteq R,
           Away(R, Held(q, J, a)), AsMeant(h, R)
    PROVE  Separate(Append(q, e), J, a) /\ AsMeant(h, Held(Append(q, e), J, a))
<1>1. Away(OwnRef(e), Held(q, J, a))
  BY DEF Away
<1>2. /\ Separate(Append(q, e), J, a)
      /\ Held(Append(q, e), J, a) = Held(q, J, a) \cup OwnRef(e)
  BY <1>1, TaskPut
<1> QED
  BY <1>2 DEF AsMeant

LEMMA JobApart ==
    ASSUME NEW q, NEW J, NEW a, NEW h, Separate(q, J, a), AsMeant(h, Held(q, J, a)), NEW k,
           k.work = "routing" => Single(k.todo), NEW R, JobRefs(k) \subseteq R,
           Away(R, Held(q, J, a)), AsMeant(h, R)
    PROVE  Separate(q, J \cup {k}, a) /\ AsMeant(h, Held(q, J \cup {k}, a))
<1>1. Away(JobRefs(k), Held(q, J, a))
  BY DEF Away
<1>2. /\ Separate(q, J \cup {k}, a)
      /\ Held(q, J \cup {k}, a) = Held(q, J, a) \cup JobRefs(k)
  BY <1>1, JobPut
<1> QED
  BY <1>2 DEF AsMeant

LEMMA ApartNext ==
    ASSUME Separate(queue', jobs', Waiting'), AsMeant(heap', Held(queue', jobs', Waiting'))
    PROVE  ApartInv'
BY DEF ApartInv, HeldNow

LEMMA WaitingStays ==
    ASSUME UNCHANGED <<flow, joins>>
    PROVE  Waiting' = Waiting
BY DEF Waiting, joins

LEMMA HeapChanged ==
    ASSUME TypeOK, NEW H \in SUBSET Refs, AsMeant(heap, H), NEW d \in Refs, Away({d}, H),
           NEW c, heap' = [heap EXCEPT ![d.at] = c]
    PROVE  AsMeant(heap', H) /\ heap'[d.at] = c
<1>1. DOMAIN heap = 1 .. Len(heap)
  BY DEF TypeOK
<1>2. d.at \in DOMAIN heap /\ \A e \in H : e.at \in DOMAIN heap /\ e.at # d.at
  BY <1>1 DEF Refs, Away
<1> QED
  BY <1>2 DEF AsMeant

-----------------------------------------------------------------------------
(* The coordinator.                                                          *)

\* a task that is taken and done with
LEMMA TaskDropped ==
    ASSUME TypeOK, ApartInv, queue # <<>>, queue' = Tail(queue),
           UNCHANGED <<flow, jobs, heap, joins>>
    PROVE  ApartInv'
<1>1. Separate(Tail(queue), jobs, Waiting) /\ Held(Tail(queue), jobs, Waiting) \subseteq HeldNow
  BY CoordinatorTakes
<1>2. AsMeant(heap, Held(Tail(queue), jobs, Waiting))
  BY <1>1 DEF ApartInv, AsMeant
<1> QED
  BY <1>1, <1>2, WaitingStays, ApartNext

\* what the action has is its own
LEMMA ActionTakes ==
    ASSUME TypeOK, ApartInv, queue # <<>>, Head(queue).what \in ActionTasks
    PROVE  /\ Here \in flow.nodes /\ Given \in Refs /\ heap[Given.at] = Given.meant
           /\ Tail(queue) \in Seq(Tasks) /\ Separate(Tail(queue), jobs, Waiting)
           /\ Held(Tail(queue), jobs, Waiting) \in SUBSET Refs
           /\ AsMeant(heap, Held(Tail(queue), jobs, Waiting))
           /\ Away({Given}, Held(Tail(queue), jobs, Waiting))
<1>1. Here \in flow.nodes /\ Given \in Refs
  BY TakenType
<1>2. Tail(queue) \in Seq(Tasks)
  BY SeqTail DEF TypeOK
<1> DEFINE rest == Held(Tail(queue), jobs, Waiting)
<1>3. /\ Separate(Tail(queue), jobs, Waiting)
      /\ rest \subseteq HeldNow /\ Given \in HeldNow /\ Away({Given}, rest)
  BY CoordinatorTakes
<1>4. HeldNow \subseteq Refs /\ AsMeant(heap, HeldNow)
  BY HeldTyped DEF ApartInv
<1> HIDE DEF rest
<1>5. rest \in SUBSET Refs /\ AsMeant(heap, rest) /\ heap[Given.at] = Given.meant
  BY <1>3, <1>4 DEF AsMeant
<1> QED
  BY <1>1, <1>2, <1>3, <1>5 DEF rest

LEMMA EnterApart ==
    ASSUME TypeOK, ApartInv, Enter
    PROVE  ApartInv'
<1> DEFINE e == Task("main", Here, Given)
<1>1. /\ queue # <<>> /\ Head(queue).what \in ActionTasks
      /\ queue' = Append(Tail(queue), e) /\ UNCHANGED <<flow, jobs, heap, joins>>
  BY DEF Enter, Taking, ActionTasks
<1>2. OwnRef(e) \subseteq {Given}
  BY DEF OwnRef, Task
<1> HIDE DEF e
<1>3. AsMeant(heap, {Given})
  BY <1>1, ActionTakes DEF AsMeant
<1>4. /\ Separate(queue', jobs, Waiting) /\ AsMeant(heap, Held(queue', jobs, Waiting))
  BY <1>1, <1>2, <1>3, ActionTakes, TaskApart
<1> QED
  BY <1>1, <1>4, WaitingStays, ApartNext

LEMMA ChildrenApart ==
    ASSUME TypeOK, ApartInv, queue # <<>>, Head(queue).what \in ActionTasks,
           CallChildren(Here, Given), UNCHANGED <<flow, jobs, joins>>
    PROVE  ApartInv'
<1> DEFINE children == flow.children[Here]
           copy == Len(children) > 1
           s == [i \in DOMAIN children |->
                    Task("main", children[i].node, IF copy THEN Copy(Given, i) ELSE Given)]
           T == { s[i] : i \in DOMAIN children }
           rest == Held(Tail(queue), jobs, Waiting)
<1>1. /\ queue' = Tail(queue) \o s
      /\ heap' = IF copy THEN Copied(Given, children) ELSE heap
  BY DEF CallChildren
<1>2. /\ Here \in flow.nodes /\ Given \in Refs /\ heap[Given.at] = Given.meant
      /\ Tail(queue) \in Seq(Tasks) /\ Separate(Tail(queue), jobs, Waiting)
      /\ rest \in SUBSET Refs /\ AsMeant(heap, rest) /\ Away({Given}, rest)
  BY ActionTakes
<1>3. children \in Seq([node : flow.nodes, key : Nat])
  BY <1>2 DEF TypeOK, FlowType
<1>4. s = [i \in DOMAIN children |-> s[i]] /\ DOMAIN s = DOMAIN children
  OBVIOUS
<1>5. \A i \in DOMAIN s : s[i].data = IF copy THEN Copy(Given, i) ELSE Given
  BY DEF Task
<1> HIDE DEF s, rest
<1>6. s \in Seq(T)
  <2>1. \A i \in DOMAIN children : s[i] \in T
    OBVIOUS
  <2> HIDE DEF children, T
  <2> QED
    BY <1>3, <1>4, <2>1, SeqOfFunction
<1>7. ~copy => \A i, k \in DOMAIN s : s[i].data # NoData /\ s[k].data # NoData => i = k
  <2>1. DOMAIN s = 1 .. Len(children) /\ Len(children) \in Nat
    BY <1>3, <1>4
  <2> QED
    BY <2>1
<1>8. copy \in BOOLEAN
  OBVIOUS
<1> HIDE DEF copy, T
<1>9. /\ Single(s) /\ Away(TaskRefs(s), rest)
      /\ AsMeant(heap', rest) /\ AsMeant(heap', TaskRefs(s))
  <2>1. heap' = IF copy THEN Copied(Given, flow.children[Here]) ELSE heap
    BY <1>1
  <2>2. HandsOut(s, Given, flow.children[Here], copy)
    BY <1>4, <1>5, <1>7 DEF HandsOut
  <2> QED
    BY <1>2, <1>8, <2>1, <2>2, HandedOut
<1>10. /\ Separate(queue', jobs, Waiting)
       /\ Held(queue', jobs, Waiting) = rest \cup TaskRefs(s)
  <2> DEFINE tail == Tail(queue)
  <2>1. tail \in Seq(Tasks) /\ Separate(tail, jobs, Waiting)
    BY <1>2
  <2>2. Single(s) /\ Away(TaskRefs(s), Held(tail, jobs, Waiting))
    BY <1>9 DEF rest
  <2> HIDE DEF tail
  <2>3. \A a : Separate(tail, jobs, a) /\ Away(TaskRefs(s), Held(tail, jobs, a)) =>
                /\ Separate(tail \o s, jobs, a)
                /\ Held(tail \o s, jobs, a) = Held(tail, jobs, a) \cup TaskRefs(s)
    <3> USE ONLY <1>6, <2>1, <2>2
    <3> QED
      BY TasksPut
  <2>4. /\ Separate(tail \o s, jobs, Waiting)
        /\ Held(tail \o s, jobs, Waiting) = Held(tail, jobs, Waiting) \cup TaskRefs(s)
    BY <2>1, <2>2, <2>3
  <2>5. queue' = tail \o s
    BY <1>1 DEF tail
  <2> QED
    BY <2>4, <2>5 DEF rest, tail
<1>11. AsMeant(heap', Held(queue', jobs, Waiting))
  BY <1>9, <1>10 DEF AsMeant
<1> QED
  BY <1>10, <1>11, WaitingStays, ApartNext

LEMMA ActApart ==
    ASSUME TypeOK, ApartInv, queue # <<>>, Head(queue).what \in ActionTasks,
           Act(Here, Given), UNCHANGED <<flow, joins>>
    PROVE  ApartInv'
<1>1. CASE CallChildren(Here, Given) /\ UNCHANGED jobs
  BY <1>1, ChildrenApart
<1>2. CASE /\ flow.kind[Here] \in {"operation", "async", "reference", "router"}
           /\ jobs' = jobs \cup {Job(flow.kind[Here], Here, Given, <<>>)}
           /\ queue' = Tail(queue) /\ UNCHANGED heap
  <2> DEFINE k == Job(flow.kind[Here], Here, Given, <<>>)
  <2>1. k.work # "routing" /\ JobRefs(k) \subseteq {Given}
    BY <1>2 DEF Job, JobRefs
  <2>2. jobs' = jobs \cup {k}
    BY <1>2
  <2> HIDE DEF k
  <2>3. AsMeant(heap, {Given})
    BY ActionTakes DEF AsMeant
  <2> DEFINE q == Tail(queue)
  <2>4. Separate(q, jobs, Waiting) /\ AsMeant(heap, Held(q, jobs, Waiting))
        /\ Away({Given}, Held(q, jobs, Waiting))
    BY ActionTakes
  <2> HIDE DEF q
  <2>5. Separate(q, jobs \cup {k}, Waiting) /\ AsMeant(heap, Held(q, jobs \cup {k}, Waiting))
    BY <2>1, <2>3, <2>4, JobApart
  <2> QED
    BY <1>2, <2>2, <2>5, WaitingStays, ApartNext DEF q
<1>3. CASE queue' = Tail(queue) /\ UNCHANGED <<jobs, heap>>
  BY <1>3, TaskDropped
<1> QED
  BY <1>1, <1>2, <1>3 DEF Act

\* the calls of a cascade do not touch data
LEMMA CascadeApart ==
    ASSUME TypeOK, ApartInv, StartCascade \/ HaltPlain \/ ErrorNode \/ ContextCall
    PROVE  ApartInv'
<1>1. CASE StartCascade
  <2>1. queue # <<>> /\ queue' = Tail(queue) /\ UNCHANGED <<flow, jobs, heap, joins>>
    BY <1>1 DEF StartCascade
  <2> QED
    BY <2>1, TaskDropped
<1>2. CASE HaltPlain \/ ErrorNode \/ ContextCall
  <2>1. UNCHANGED <<flow, queue, jobs, heap, joins>>
    BY <1>2 DEF HaltPlain, ErrorNode, ContextCall
  <2> QED
    BY <2>1, WaitingStays, ApartNext DEF ApartInv, HeldNow
<1> QED
  BY <1>1, <1>2

-----------------------------------------------------------------------------
(* Joins.                                                                    *)

\* all that arrived goes into the first of it, which the join has to itself
LEMMA MergeApart ==
    ASSUME TypeOK, NEW data \in Seq(Refs), data # <<>>, NEW n, NEW rest \in Seq(Tasks),
           Merge(n, data, rest), NEW J, NEW a, Separate(rest, J, a),
           Held(rest, J, a) \in SUBSET Refs, AsMeant(heap, Held(rest, J, a)),
           AsMeant(heap, Range(data)), Away(Range(data), Held(rest, J, a))
    PROVE  Separate(queue', J, a) /\ AsMeant(heap', Held(queue', J, a))
<1> DEFINE d == data[1]
           contents == UNION { heap[data[i].at] : i \in DOMAIN data }
           meant == UNION { data[i].meant : i \in DOMAIN data }
           e == Task("run", n, Ref(d.at, meant))
           H == Held(rest, J, a)
<1>1. heap' = [heap EXCEPT ![d.at] = contents] /\ queue' = Append(rest, e)
  BY DEF Merge
<1>2. 1 \in DOMAIN data /\ d \in Refs /\ d \in Range(data)
  BY DEF Range
<1>3. contents = meant
  <2>1. \A i \in DOMAIN data : heap[data[i].at] = data[i].meant
    BY DEF AsMeant, Range
  <2> QED
    BY <2>1
<1>4. OwnRef(e) \subseteq {Ref(d.at, meant)} /\ Ref(d.at, meant).at = d.at
      /\ Ref(d.at, meant).meant = meant
  BY DEF OwnRef, Task, Ref
<1> DEFINE r == Ref(d.at, meant)
<1> HIDE DEF contents, meant, e, H, d, r
<1>5. Away({d}, H) /\ AsMeant(heap, H) /\ H \in SUBSET Refs
  BY <1>2 DEF H, Away
<1>6. AsMeant(heap', H) /\ heap'[d.at] = contents
  BY <1>1, <1>2, <1>5, HeapChanged
<1>7. OwnRef(e) \subseteq {r} /\ r.at = d.at /\ r.meant = meant
  BY <1>4 DEF r
<1>8. Away({r}, H) /\ AsMeant(heap', {r})
  BY <1>3, <1>5, <1>6, <1>7 DEF Away, AsMeant
<1> QED
  BY <1>1, <1>6, <1>7, <1>8, TaskApart DEF H

\* a join is told of an input only while it waits; it goes on waiting, or is through
LEMMA JoinWaited ==
    ASSUME TypeOK, JoinInv, NoExtraInput', flow' = flow, NEW n \in flow.nodes, Stateful(n),
           NEW data, Decrement(n, data),
           \A m \in flow.nodes \ {n} : arrived'[m] = arrived[m]
    PROVE  /\ n \in DOMAIN Waiting /\ Waiting[n] = arrived[n]
           /\ lifecycle'[n] = "WAITING" => DOMAIN Waiting' = DOMAIN Waiting /\ Waiting'[n] = arrived'[n]
           /\ lifecycle'[n] # "WAITING" => DOMAIN Waiting' = DOMAIN Waiting \ {n}
           /\ \A m \in DOMAIN Waiting' \ {n} : Waiting'[m] = Waiting[m]
           /\ lifecycle'[n] # "WAITING" =>
                 lifecycle'[n] = IF data # <<>> THEN "ACTIVE" ELSE "INACTIVE"
<1>1. /\ remaining'[n] = remaining[n] - 1 /\ remaining[n] \in Int
      /\ lifecycle'[n] = IF remaining[n] = 1
                         THEN IF data # <<>> THEN "ACTIVE" ELSE "INACTIVE" ELSE lifecycle[n]
      /\ \A m \in flow.nodes \ {n} : lifecycle'[m] = lifecycle[m]
  BY DEF Decrement, TypeOK
<1>2. lifecycle[n] = "WAITING"
  <2>1. remaining'[n] >= 0
    BY DEF NoExtraInput
  <2>2. remaining[n] > 0
    BY <1>1, <2>1
  <2> QED
    BY <2>2 DEF JoinInv
<1>3. /\ DOMAIN Waiting = { m \in flow.nodes : lifecycle[m] = "WAITING" }
      /\ DOMAIN Waiting' = { m \in flow.nodes : lifecycle'[m] = "WAITING" }
      /\ \A m \in DOMAIN Waiting : Waiting[m] = arrived[m]
      /\ \A m \in DOMAIN Waiting' : Waiting'[m] = arrived'[m]
  BY DEF Waiting
<1>4. \A m \in flow.nodes \ {n} : m \in DOMAIN Waiting' <=> m \in DOMAIN Waiting
  BY <1>1, <1>3
<1>5. n \in DOMAIN Waiting /\ (lifecycle'[n] = "WAITING" <=> n \in DOMAIN Waiting')
  BY <1>2, <1>3
<1>6. DOMAIN Waiting \subseteq flow.nodes /\ DOMAIN Waiting' \subseteq flow.nodes
  BY <1>3
<1>7. lifecycle'[n] = "WAITING" => DOMAIN Waiting' = DOMAIN Waiting /\ Waiting'[n] = arrived'[n]
  BY <1>3, <1>4, <1>5, <1>6
<1>8. lifecycle'[n] # "WAITING" => DOMAIN Waiting' = DOMAIN Waiting \ {n}
  BY <1>4, <1>5, <1>6
<1>9. \A m \in DOMAIN Waiting' \ {n} : Waiting'[m] = Waiting[m]
  BY <1>3, <1>4, <1>6
<1>10. lifecycle'[n] # "WAITING" =>
          lifecycle'[n] = IF data # <<>> THEN "ACTIVE" ELSE "INACTIVE"
  BY <1>1, <1>2
<1> QED
  BY <1>3, <1>5, <1>7, <1>8, <1>9, <1>10

LEMMA ArriveApart ==
    ASSUME TypeOK, JoinInv, NoExtraInput', ApartInv, Arrive
    PROVE  ApartInv'
<1> DEFINE n == Here
           data == Append(arrived[n], Given)
           q == Tail(queue)
<1>1. /\ queue # <<>> /\ Head(queue).what \in ActionTasks /\ UNCHANGED <<flow, jobs>>
      /\ Stateful(n) /\ arrived' = [arrived EXCEPT ![n] = data] /\ Decrement(n, data)
      /\ IF lifecycle'[n] = "ACTIVE" THEN Merge(n, data, q)
         ELSE queue' = q /\ UNCHANGED heap
  BY DEF Arrive, Taking, ActionTasks
<1>2. /\ n \in flow.nodes /\ Given \in Refs /\ heap[Given.at] = Given.meant
      /\ q \in Seq(Tasks) /\ Separate(q, jobs, Waiting)
      /\ Held(q, jobs, Waiting) \in SUBSET Refs /\ AsMeant(heap, Held(q, jobs, Waiting))
      /\ Away({Given}, Held(q, jobs, Waiting))
  BY <1>1, ActionTakes
<1>3. arrived[n] \in Seq(Refs) /\ arrived \in [flow.nodes -> Seq(Refs)]
  BY <1>2 DEF TypeOK
<1>4. data \in Seq(Refs) /\ data # <<>> /\ Range(data) = Range(arrived[n]) \cup {Given}
  <2>1. Len(arrived[n]) + 1 \in DOMAIN data /\ data[Len(arrived[n]) + 1] = Given
    BY <1>2, <1>3
  <2>2. \A i \in DOMAIN arrived[n] : i \in DOMAIN data /\ data[i] = arrived[n][i]
    BY <1>2, <1>3
  <2>3. \A i \in DOMAIN data : i \in DOMAIN arrived[n] \/ data[i] = Given
    BY <1>2, <1>3
  <2>4. data \in Seq(Refs)
    BY <1>2, <1>3, SeqAppend
  <2> HIDE DEF data
  <2> QED
    BY <2>1, <2>2, <2>3, <2>4 DEF Range
<1>5. arrived'[n] = data /\ \A m \in flow.nodes \ {n} : arrived'[m] = arrived[m]
  BY <1>1, <1>2, <1>3
<1> HIDE DEF n, data, q
<1>6. /\ n \in DOMAIN Waiting /\ Waiting[n] = arrived[n]
      /\ lifecycle'[n] = "WAITING" => DOMAIN Waiting' = DOMAIN Waiting /\ Waiting'[n] = arrived'[n]
      /\ lifecycle'[n] # "WAITING" => DOMAIN Waiting' = DOMAIN Waiting \ {n}
      /\ \A m \in DOMAIN Waiting' \ {n} : Waiting'[m] = Waiting[m]
      /\ lifecycle'[n] # "WAITING" => lifecycle'[n] = "ACTIVE"
  BY <1>1, <1>2, <1>4, <1>5, JoinWaited
<1>7. CASE lifecycle'[n] = "WAITING"
  <2>1. /\ DOMAIN Waiting' = DOMAIN Waiting /\ queue' = q /\ heap' = heap /\ jobs' = jobs
        /\ Range(Waiting'[n]) = Range(Waiting[n]) \cup {Given}
        /\ \A m \in DOMAIN Waiting \ {n} : Waiting'[m] = Waiting[m]
    BY <1>1, <1>4, <1>5, <1>6, <1>7
  <2>2. /\ Separate(q, jobs, Waiting')
        /\ Held(q, jobs, Waiting') = Held(q, jobs, Waiting) \cup {Given}
    <3>1. WithInput(Waiting, Waiting', n, Given)
      BY <2>1 DEF WithInput
    <3> QED
      BY <1>2, <1>6, <3>1, InputPut
  <2>3. AsMeant(heap, Held(q, jobs, Waiting'))
    BY <1>2, <2>2 DEF AsMeant
  <2> QED
    BY <2>1, <2>2, <2>3, ApartNext
<1>8. CASE lifecycle'[n] # "WAITING"
  <2>1. /\ DOMAIN Waiting' = DOMAIN Waiting \ {n} /\ Merge(n, data, q) /\ jobs' = jobs
        /\ \A m \in DOMAIN Waiting' : Waiting'[m] = Waiting[m]
    BY <1>1, <1>6, <1>8
  <2>2. /\ Separate(q, jobs, Waiting')
        /\ Away(Range(Waiting[n]), Held(q, jobs, Waiting'))
        /\ Held(q, jobs, Waiting) = Range(Waiting[n]) \cup Held(q, jobs, Waiting')
    <3>1. Without(Waiting, Waiting', n)
      BY <2>1 DEF Without
    <3> QED
      BY <1>2, <1>6, <3>1, JoinTaken
  <2>3. Range(data) = Range(Waiting[n]) \cup {Given}
    BY <1>4, <1>6
  <2> DEFINE H == Held(q, jobs, Waiting')
  <2>4. H \in SUBSET Refs /\ AsMeant(heap, H) /\ AsMeant(heap, Range(data))
    BY <1>2, <2>2, <2>3 DEF AsMeant
  <2>5. Away(Range(data), H)
    BY <1>2, <2>2, <2>3 DEF Away
  <2>6. Separate(queue', jobs, Waiting') /\ AsMeant(heap', Held(queue', jobs, Waiting'))
    BY <1>2, <1>4, <2>1, <2>2, <2>4, <2>5, MergeApart
  <2> QED
    BY <2>1, <2>6, ApartNext
<1> QED
  BY <1>7, <1>8

LEMMA HaltJoinApart ==
    ASSUME TypeOK, JoinInv, NoExtraInput', ApartInv, HaltJoin
    PROVE  ApartInv'
<1> DEFINE n == Head(calls).node
           data == arrived[n]
<1>1. /\ calls # <<>> /\ calls \in Seq(Calls) /\ UNCHANGED <<flow, jobs, arrived>>
      /\ Stateful(n) /\ Decrement(n, data)
      /\ IF lifecycle'[n] = "ACTIVE" THEN Merge(n, data, queue) ELSE UNCHANGED <<queue, heap>>
  BY DEF HaltJoin, Calling, TypeOK
<1>2. n \in flow.nodes
  <2>1. Head(calls) \in Calls
    BY <1>1, SeqTail
  <2> QED
    BY <2>1 DEF Calls
<1>3. data \in Seq(Refs) /\ queue \in Seq(Tasks)
  BY <1>2 DEF TypeOK
<1>4. \A m \in flow.nodes \ {n} : arrived'[m] = arrived[m]
  BY <1>1
<1>5. Separate(queue, jobs, Waiting) /\ AsMeant(heap, HeldNow) /\ HeldNow \subseteq Refs
  BY HeldTyped DEF ApartInv
<1> HIDE DEF n
<1>6. arrived'[n] = data /\ data = arrived[n]
  BY <1>1
<1> HIDE DEF data
<1>7. /\ n \in DOMAIN Waiting /\ Waiting[n] = arrived[n]
      /\ lifecycle'[n] = "WAITING" => DOMAIN Waiting' = DOMAIN Waiting /\ Waiting'[n] = arrived'[n]
      /\ lifecycle'[n] # "WAITING" => DOMAIN Waiting' = DOMAIN Waiting \ {n}
      /\ \A m \in DOMAIN Waiting' \ {n} : Waiting'[m] = Waiting[m]
      /\ lifecycle'[n] # "WAITING" =>
            lifecycle'[n] = IF data # <<>> THEN "ACTIVE" ELSE "INACTIVE"
  BY <1>1, <1>2, <1>4, JoinWaited
<1>8. CASE lifecycle'[n] = "WAITING"
  <2>1. /\ DOMAIN Waiting' = DOMAIN Waiting /\ UNCHANGED <<queue, heap, jobs>>
        /\ \A m \in DOMAIN Waiting : Waiting'[m] = Waiting[m]
    BY <1>1, <1>6, <1>7, <1>8
  <2>2. Waiting' = Waiting
    <3>1. /\ Waiting = [m \in DOMAIN Waiting |-> Waiting[m]]
          /\ Waiting' = [m \in DOMAIN Waiting' |-> Waiting'[m]]
      BY DEF Waiting
    <3> QED
      BY <2>1, <3>1
  <2> QED
    BY <1>5, <2>1, <2>2, ApartNext DEF HeldNow
<1>9. CASE lifecycle'[n] # "WAITING"
  <2>1. /\ DOMAIN Waiting' = DOMAIN Waiting \ {n} /\ jobs' = jobs
        /\ \A m \in DOMAIN Waiting' : Waiting'[m] = Waiting[m]
    BY <1>1, <1>7, <1>9
  <2>2. /\ Separate(queue, jobs, Waiting')
        /\ Away(Range(data), Held(queue, jobs, Waiting'))
        /\ HeldNow = Range(data) \cup Held(queue, jobs, Waiting')
    <3>1. Without(Waiting, Waiting', n)
      BY <2>1 DEF Without
    <3> QED
      BY <1>5, <1>6, <1>7, <3>1, JoinTaken DEF HeldNow
  <2> DEFINE H == Held(queue, jobs, Waiting')
  <2>3. H \in SUBSET Refs /\ AsMeant(heap, H) /\ AsMeant(heap, Range(data))
    BY <1>5, <2>2 DEF AsMeant
  <2>4. CASE data # <<>>
    <3>1. Merge(n, data, queue)
      BY <1>1, <1>7, <1>9, <2>4
    <3>2. Separate(queue', jobs, Waiting') /\ AsMeant(heap', Held(queue', jobs, Waiting'))
      BY <1>3, <2>2, <2>3, <2>4, <3>1, MergeApart
    <3> QED
      BY <2>1, <3>2, ApartNext
  <2>5. CASE data = <<>>
    <3>1. UNCHANGED <<queue, heap>>
      BY <1>1, <1>7, <1>9, <2>5
    <3> QED
      BY <2>1, <2>2, <2>3, <3>1, ApartNext
  <2> QED
    BY <2>4, <2>5
<1> QED
  BY <1>8, <1>9

-----------------------------------------------------------------------------
(* The operation pool.                                                       *)

\* what a job has is its own
LEMMA JobHas ==
    ASSUME TypeOK, ApartInv, NEW j \in jobs
    PROVE  /\ j.node \in flow.nodes /\ j.data \in Refs /\ j.todo \in Seq(Tasks)
           /\ queue \in Seq(Tasks) /\ Separate(queue, jobs \ {j}, Waiting)
           /\ Held(queue, jobs \ {j}, Waiting) \in SUBSET Refs
           /\ AsMeant(heap, Held(queue, jobs \ {j}, Waiting))
           /\ Away(JobRefs(j), Held(queue, jobs \ {j}, Waiting))
           /\ AsMeant(heap, JobRefs(j))
           /\ j.work # "routing" => JobRefs(j) = {j.data}
           /\ j.work = "routing" => JobRefs(j) = TaskRefs(j.todo) /\ Single(j.todo)
<1>1. j.node \in flow.nodes /\ j.data \in Refs /\ j.todo \in Seq(Tasks) /\ queue \in Seq(Tasks)
  BY PoolJobType DEF TypeOK
<1> DEFINE rest == Held(queue, jobs \ {j}, Waiting)
<1>2. /\ Separate(queue, jobs \ {j}, Waiting) /\ Away(JobRefs(j), rest)
      /\ rest \subseteq HeldNow /\ JobRefs(j) \subseteq HeldNow
  BY PoolTakes
<1>3. HeldNow \subseteq Refs /\ AsMeant(heap, HeldNow)
  BY HeldTyped DEF ApartInv
<1> HIDE DEF rest
<1>4. rest \in SUBSET Refs /\ AsMeant(heap, rest) /\ AsMeant(heap, JobRefs(j))
  BY <1>2, <1>3 DEF AsMeant
<1>5. /\ j.work # "routing" => JobRefs(j) = {j.data}
      /\ j.work = "routing" => JobRefs(j) = TaskRefs(j.todo) /\ Single(j.todo)
  BY DEF JobRefs, ApartInv, Separate
<1> QED
  BY <1>1, <1>2, <1>4, <1>5 DEF rest

\* nobody else has the object an operation is changing, so no change is lost
LEMMA CompleteApart ==
    ASSUME TypeOK, ApartInv, NEW j \in jobs, Complete(j)
    PROVE  ApartInv'
<1> DEFINE r == Ref(j.data.at, j.data.meant \cup {j.node})
           e == Task("next", j.node, r)
           H == Held(queue, jobs \ {j}, Waiting)
<1>1. /\ UNCHANGED <<flow, joins>> /\ j.work \in Changing /\ jobs' = jobs \ {j}
      /\ queue' = Append(queue, e)
      /\ \/ heap' = [heap EXCEPT ![j.data.at] = @ \cup {j.node}]
         \/ Shared(j)
  BY DEF Complete
<1>2. j.work # "routing" /\ \A k \in jobs : k.work \in Changing => k.work # "routing"
  BY <1>1 DEF Changing
<1>3. ~ Shared(j)
  <2> SUFFICES ASSUME NEW k \in jobs, k # j, k.data.at = j.data.at, k.work \in Changing PROVE FALSE
    BY DEF Shared
  <2>1. JobRefs(k) = {k.data} /\ JobRefs(j) = {j.data}
    BY <1>2 DEF JobRefs
  <2>2. Away(JobRefs(j), JobRefs(k))
    BY DEF ApartInv, Separate
  <2> QED
    BY <2>1, <2>2 DEF Away
<1>4. heap' = [heap EXCEPT ![j.data.at] = heap[j.data.at] \cup {j.node}]
  BY <1>1, <1>3
<1>5. /\ r.at = j.data.at /\ r.meant = j.data.meant \cup {j.node} /\ OwnRef(e) \subseteq {r}
  BY DEF Ref, Task, OwnRef
<1> HIDE DEF r, e
<1>6. /\ j.data \in Refs /\ queue \in Seq(Tasks) /\ Separate(queue, jobs \ {j}, Waiting)
      /\ H \in SUBSET Refs /\ AsMeant(heap, H) /\ Away({j.data}, H)
      /\ heap[j.data.at] = j.data.meant
  BY <1>2, JobHas DEF AsMeant
<1>7. AsMeant(heap', H) /\ heap'[j.data.at] = j.data.meant \cup {j.node}
  BY <1>4, <1>6, HeapChanged
<1>8. Away({r}, H) /\ AsMeant(heap', {r})
  BY <1>5, <1>6, <1>7 DEF Away, AsMeant
<1>9. Separate(queue', jobs', Waiting) /\ AsMeant(heap', Held(queue', jobs', Waiting))
  BY <1>1, <1>5, <1>6, <1>7, <1>8, TaskApart
<1> QED
  BY <1>1, <1>9, WaitingStays, ApartNext

\* a job that ends without its data
LEMMA JobDropped ==
    ASSUME TypeOK, ApartInv, NEW j \in jobs, jobs' = jobs \ {j}, UNCHANGED <<flow, heap, joins>>,
           \/ UNCHANGED queue
           \/ \E what, n : queue' = Append(queue, Task(what, n, NoData))
    PROVE  ApartInv'
<1> DEFINE J == jobs \ {j}
<1>1. /\ queue \in Seq(Tasks) /\ Separate(queue, J, Waiting)
      /\ AsMeant(heap, Held(queue, J, Waiting))
  BY JobHas
<1>2. CASE UNCHANGED queue
  BY <1>1, <1>2, WaitingStays, ApartNext
<1>3. ASSUME NEW what, NEW n, queue' = Append(queue, Task(what, n, NoData))
      PROVE  ApartInv'
  <2> DEFINE e == Task(what, n, NoData)
  <2>1. OwnRef(e) \subseteq {} /\ queue' = Append(queue, e)
    BY <1>3 DEF OwnRef, Task
  <2> HIDE DEF e, J
  <2>2. Away({}, Held(queue, J, Waiting)) /\ AsMeant(heap, {})
    BY DEF Away, AsMeant
  <2>3. Separate(queue', J, Waiting) /\ AsMeant(heap, Held(queue', J, Waiting))
    BY <1>1, <2>1, <2>2, TaskApart
  <2> QED
    BY <2>3, WaitingStays, ApartNext DEF J
<1> QED
  BY <1>2, <1>3

LEMMA FaultApart ==
    ASSUME TypeOK, ApartInv, NEW j \in jobs, ReferenceHalts(j) \/ PoolFault(j)
    PROVE  ApartInv'
<1>1. jobs' = jobs \ {j} /\ UNCHANGED <<flow, heap, joins>>
  BY DEF ReferenceHalts, PoolFault
<1>2. \/ UNCHANGED queue
      \/ \E what, n : queue' = Append(queue, Task(what, n, NoData))
  BY Zenon DEF ReferenceHalts, PoolFault
<1> QED
  BY <1>1, <1>2, JobDropped

LEMMA AtMostOne ==
    ASSUME NEW T, IsFiniteSet(T), NEW R \in SUBSET T, ~ (Cardinality(R) > 1),
           NEW x \in R, NEW y \in R
    PROVE  x = y
<1> SUFFICES ASSUME x # y PROVE FALSE
  OBVIOUS
<1> DEFINE one == {x}
           two == one \cup {y}
<1>1. IsFiniteSet(one) /\ Cardinality(one) = 1 /\ y \notin one
  BY FS_Singleton
<1>2. two \in SUBSET R
  OBVIOUS
<1> HIDE DEF one
<1>3. Cardinality(two) = 2
  <2>1. Cardinality(two) = Cardinality(one) + 1
    BY <1>1, FS_AddElement
  <2> QED
    BY <1>1, <2>1
<1>4. IsFiniteSet(R) /\ Cardinality(R) \in Nat
  BY FS_Subset, FS_CardinalityType
<1> HIDE DEF two
<1>5. Cardinality(two) <= Cardinality(R)
  BY <1>4, <1>2, FS_Subset
<1> QED
  BY <1>3, <1>4, <1>5

\* the routing job that takes the place of j, if anything is left to route
LEMMA RoutingApart ==
    ASSUME NEW q, NEW J, NEW a, NEW h, Separate(q, J, a), AsMeant(h, Held(q, J, a)),
           NEW j, NEW todo, Single(todo), Away(TaskRefs(todo), Held(q, J, a)),
           AsMeant(h, TaskRefs(todo))
    PROVE  /\ Separate(q, J \cup Routing(j, todo), a)
           /\ AsMeant(h, Held(q, J \cup Routing(j, todo), a))
<1>1. CASE todo = <<>>
  <2>1. J \cup Routing(j, todo) = J
    BY <1>1 DEF Routing
  <2> QED
    BY <2>1
<1>2. CASE todo # <<>>
  <2> DEFINE k == Job("routing", j.node, j.data, todo)
  <2>1. J \cup Routing(j, todo) = J \cup {k}
    BY <1>2 DEF Routing
  <2>2. JobRefs(k) \subseteq TaskRefs(todo) /\ k.todo = todo
    BY DEF JobRefs, Job
  <2> HIDE DEF k
  <2> QED
    BY <2>1, <2>2, JobApart
<1> QED
  BY <1>1, <1>2

LEMMA RouteApart ==
    ASSUME TypeOK, ApartInv, OneRoutePerKey(flow), NEW j \in jobs, FitsJob(j), Route(j)
    PROVE  ApartInv'
<1> DEFINE n == j.node
           d == j.data
           children == flow.children[n]
<1>1. PICK routed \in SUBSET Keys(n) :
         LET copy == Cardinality(routed) > 1
             Tell(i) ==
                 IF children[i].key \in routed
                 THEN Task("enter", children[i].node, IF copy THEN Copy(d, i) ELSE d)
                 ELSE Task("halted", children[i].node, NoData)
         IN  /\ jobs' = (jobs \ {j}) \cup Routing(j, [i \in DOMAIN children |-> Tell(i)])
             /\ heap' = IF copy THEN Copied(d, children) ELSE heap
  BY DEF Route
<1> DEFINE copy == Cardinality(routed) > 1
           Tell(i) == IF children[i].key \in routed
                      THEN Task("enter", children[i].node, IF copy THEN Copy(d, i) ELSE d)
                      ELSE Task("halted", children[i].node, NoData)
           todo == [i \in DOMAIN children |-> Tell(i)]
           J == jobs \ {j}
           H == Held(queue, J, Waiting)
<1>2. /\ UNCHANGED <<flow, queue, joins>> /\ j.work = "router"
      /\ jobs' = J \cup Routing(j, todo)
      /\ heap' = IF copy THEN Copied(d, flow.children[n]) ELSE heap
  BY <1>1 DEF Route
<1>3. /\ DOMAIN todo = DOMAIN children
      /\ \A i \in DOMAIN todo : todo[i].data = IF children[i].key \in routed
                                               THEN IF copy THEN Copy(d, i) ELSE d ELSE NoData
  BY DEF Task
<1>4. /\ n \in flow.nodes /\ d \in Refs /\ queue \in Seq(Tasks) /\ Separate(queue, J, Waiting)
      /\ H \in SUBSET Refs /\ AsMeant(heap, H) /\ Away({d}, H) /\ heap[d.at] = d.meant
  BY <1>2, JobHas DEF AsMeant
<1> HIDE DEF todo, H
<1>5. \A i, k \in DOMAIN children : children[i].key = children[k].key => i = k
  <2>1. flow.kind[n] = "router"
    BY <1>2 DEF FitsJob
  <2> QED
    BY <1>4, <2>1 DEF OneRoutePerKey
<1>6. IsFiniteSet(Keys(n))
  <2> DEFINE f == [i \in DOMAIN children |-> children[i].key]
  <2>1. IsFiniteSet(DOMAIN children)
    BY <1>4, FlowChildren DEF TypeOK
  <2>2. f \in Surjection(DOMAIN children, Keys(n))
    BY DEF Surjection, Keys
  <2> QED
    BY <2>1, <2>2, FS_Surjection
<1>7. HandsOut(todo, d, flow.children[n], copy)
  <2>1. ASSUME ~copy, NEW i \in DOMAIN todo, NEW k \in DOMAIN todo,
               todo[i].data # NoData, todo[k].data # NoData
        PROVE  i = k
    <3>1. children[i].key \in routed /\ children[k].key \in routed
      BY <1>3, <2>1
    <3>2. children[i].key = children[k].key
      BY <1>6, <2>1, <3>1, AtMostOne
    <3> QED
      BY <1>3, <1>5, <3>2
  <2> QED
    BY <1>3, <2>1 DEF HandsOut
<1>8. copy \in BOOLEAN
  OBVIOUS
<1> HIDE DEF copy, n, d, children, J
<1>9. /\ Single(todo) /\ Away(TaskRefs(todo), H)
      /\ AsMeant(heap', H) /\ AsMeant(heap', TaskRefs(todo))
  BY <1>2, <1>4, <1>7, <1>8, HandedOut
<1>10. Separate(queue, jobs', Waiting) /\ AsMeant(heap', Held(queue, jobs', Waiting))
  BY <1>2, <1>4, <1>9, RoutingApart DEF H
<1> QED
  BY <1>2, <1>10, WaitingStays, ApartNext

LEMMA RoutePostsApart ==
    ASSUME TypeOK, ApartInv, NEW j \in jobs, RoutePosts(j)
    PROVE  ApartInv'
<1> DEFINE e == Head(j.todo)
           rest == Tail(j.todo)
           J == jobs \ {j}
           q == Append(queue, e)
<1>1. /\ UNCHANGED <<flow, heap, joins>> /\ j.work = "routing" /\ j.todo # <<>>
      /\ jobs' = J \cup Routing(j, rest) /\ queue' = q
  BY DEF RoutePosts
<1>2. /\ j.todo \in Seq(Tasks) /\ queue \in Seq(Tasks) /\ Separate(queue, J, Waiting)
      /\ AsMeant(heap, Held(queue, J, Waiting))
      /\ Away(TaskRefs(j.todo), Held(queue, J, Waiting))
      /\ AsMeant(heap, TaskRefs(j.todo)) /\ Single(j.todo)
  BY <1>1, JobHas
<1>3. /\ TaskRefs(j.todo) = OwnRef(e) \cup TaskRefs(rest)
      /\ Single(rest) /\ Away(OwnRef(e), TaskRefs(rest))
  BY <1>1, <1>2, RefsTail
<1> HIDE DEF e, rest, J
<1>4. /\ Away(OwnRef(e), Held(queue, J, Waiting)) /\ AsMeant(heap, OwnRef(e))
      /\ Away(TaskRefs(rest), Held(queue, J, Waiting)) /\ AsMeant(heap, TaskRefs(rest))
  BY <1>2, <1>3 DEF Away, AsMeant
<1>5. Separate(q, J, Waiting) /\ AsMeant(heap, Held(q, J, Waiting))
  BY <1>2, <1>4, TaskApart
<1>6. Held(q, J, Waiting) = Held(queue, J, Waiting) \cup OwnRef(e)
  BY <1>2, <1>4, TaskPut
<1> HIDE DEF q
<1>7. Away(TaskRefs(rest), Held(q, J, Waiting))
  BY <1>3, <1>4, <1>6, AwaySymmetric DEF Away
<1>8. Separate(q, jobs', Waiting) /\ AsMeant(heap, Held(q, jobs', Waiting))
  BY <1>1, <1>3, <1>4, <1>5, <1>7, RoutingApart
<1> QED
  BY <1>1, <1>8, WaitingStays, ApartNext

-----------------------------------------------------------------------------
(* Every run.                                                                *)

LEMMA InitApart ==
    ASSUME Init, TypeOK
    PROVE  ApartInv
<1> DEFINE e == Task("enter", flow.head, Ref(1, {}))
<1>1. queue = <<e>> /\ jobs = {} /\ heap = <<{}>> /\ \A n \in flow.nodes : arrived[n] = <<>>
  BY DEF Init
<1>2. OwnRef(e) \subseteq {Ref(1, {})}
  BY DEF OwnRef, Task
<1> HIDE DEF e
<1>3. TaskRefs(queue) \subseteq {Ref(1, {})} /\ Single(queue)
  BY <1>1, <1>2, RefsOne
<1>4. \A n \in DOMAIN Waiting : Range(Waiting[n]) = {}
  <2>1. \A n \in DOMAIN Waiting : Waiting[n] = <<>>
    BY <1>1 DEF Waiting
  <2>2. Range(<<>>) = {}
    BY DEF Range
  <2> QED
    BY <2>1, <2>2
<1>5. Separate(queue, jobs, Waiting)
  BY <1>1, <1>3, <1>4 DEF Separate, Away
<1>6. PoolRefs(jobs) = {} /\ JoinRefs(Waiting) = {}
  BY <1>1, <1>4 DEF PoolRefs, JoinRefs
<1>7. AsMeant(heap, HeldNow)
  <2>1. HeldNow \subseteq {Ref(1, {})}
    BY <1>3, <1>6 DEF HeldNow, Held
  <2>2. heap[1] = {} /\ Ref(1, {}).at = 1 /\ Ref(1, {}).meant = {}
    BY <1>1 DEF Ref
  <2> QED
    BY <2>1, <2>2 DEF AsMeant
<1> QED
  BY <1>5, <1>7 DEF ApartInv

LEMMA StepApart ==
    ASSUME NEW w, NEW rank, Sound(w, rank), NoExtraInput', OneRoutePerKey(flow), ApartInv,
           [Next]_vars
    PROVE  ApartInv'
<1>1. TypeOK /\ JoinInv
  BY DEF Sound, IInv
<1>2. CASE Enter
  BY <1>1, <1>2, EnterApart
<1>3. CASE Main \/ Run
  <2>1. /\ queue # <<>> /\ Head(queue).what \in ActionTasks
        /\ Act(Here, Given) /\ UNCHANGED <<flow, joins>>
    BY <1>3 DEF Main, Run, Taking, ActionTasks
  <2> QED
    BY <1>1, <2>1, ActApart
<1>4. CASE Arrive
  BY <1>1, <1>4, ArriveApart
<1>5. CASE After
  <2>1. /\ queue # <<>> /\ Head(queue).what \in ActionTasks
        /\ CallChildren(Here, Given) /\ UNCHANGED <<flow, jobs, joins>>
    BY <1>5 DEF After, Taking, ActionTasks
  <2> QED
    BY <1>1, <2>1, ChildrenApart
<1>6. CASE StartCascade \/ HaltPlain \/ ErrorNode \/ ContextCall
  BY <1>1, <1>6, CascadeApart
<1>7. CASE HaltJoin
  BY <1>1, <1>7, HaltJoinApart
<1>8. ASSUME NEW j \in jobs,
             Complete(j) \/ ReferenceHalts(j) \/ Route(j) \/ RoutePosts(j) \/ PoolFault(j)
      PROVE  ApartInv'
  <2>1. FitsJob(j)
    BY PoolParts
  <2> QED
    BY <1>1, <1>8, <2>1, CompleteApart, FaultApart, RouteApart, RoutePostsApart
<1>9. CASE UNCHANGED vars
  <2>1. UNCHANGED <<queue, jobs, heap, flow, joins>>
    BY <1>9 DEF vars
  <2> QED
    BY <2>1, WaitingStays, ApartNext DEF ApartInv, HeldNow
<1> QED
  BY <1>2, <1>3, <1>4, <1>5, <1>6, <1>7, <1>8, <1>9 DEF Next, Coordinator, Pool

\* nothing is about to be used that is not held
LEMMA InUseHeld == TypeOK /\ ApartInv => BranchesKeepApart
<1> SUFFICES ASSUME TypeOK, ApartInv, NEW d \in InUse PROVE heap[d.at] = d.meant
  BY DEF BranchesKeepApart
<1>1. ASSUME NEW i \in DOMAIN queue, queue[i].what \in ActionTasks
      PROVE  queue[i].data \in TaskRefs(queue)
  <2>1. queue[i] \in Tasks
    BY SeqElement DEF TypeOK
  <2>2. queue[i].data # NoData
    BY <1>1, <2>1, Data
  <2> QED
    BY <2>2 DEF TaskRefs
<1>2. ASSUME NEW j \in jobs, j.work # "routing"
      PROVE  j.data \in PoolRefs(jobs)
  <2>1. j.data \in JobRefs(j)
    BY <1>2 DEF JobRefs
  <2> QED
    BY <2>1 DEF PoolRefs
<1>3. ASSUME NEW n \in flow.nodes, lifecycle[n] = "WAITING", NEW e \in Range(arrived[n])
      PROVE  e \in JoinRefs(Waiting)
  <2>1. n \in DOMAIN Waiting /\ Waiting[n] = arrived[n]
    BY <1>3 DEF Waiting
  <2> QED
    BY <2>1 DEF JoinRefs
<1>4. d \in HeldNow
  BY <1>1, <1>2, <1>3 DEF InUse, HeldNow, Held
<1> QED
  BY <1>4 DEF ApartInv, AsMeant

\* In a run of a well-formed flow whose routers have one route for a key, the data an
\* operation, a router or the end is given holds exactly the changes made on the way to it:
\* what other branches change is in copies (ActionHandlers.call, RouterAction), and a join
\* merges the copies of its inputs into one that nobody else has (StatefulControl.run).
THEOREM BranchesApart ==
    Spec /\ WellFormed(flow) /\ OneRoutePerKey(flow) => []BranchesKeepApart
<1> DEFINE Inv == FInv /\ OneRoutePerKey(flow) /\ ApartInv
<1>1. Init /\ WellFormed(flow) /\ OneRoutePerKey(flow) => Inv
  BY InitF, InitInv, InitApart DEF IInv
<1>2. Inv /\ [Next]_vars => Inv'
  <2> SUFFICES ASSUME Inv, [Next]_vars PROVE Inv'
    OBVIOUS
  <2>1. FInv'
    BY StepF
  <2>2. PICK w, rank : Sound(w, rank)
    BY DEF FInv
  <2>3. NoExtraInput'
    BY <2>1, CountedNext
  <2>4. ApartInv'
    BY <2>2, <2>3, StepApart
  <2>5. flow' = flow
    BY <2>2, StepJobs DEF Sound, IInv
  <2> QED
    BY <2>1, <2>4, <2>5 DEF OneRoutePerKey
<1>3. Inv => BranchesKeepApart
  <2> SUFFICES ASSUME Inv PROVE BranchesKeepApart
    OBVIOUS
  <2>1. PICK w, rank : Sound(w, rank)
    BY DEF FInv
  <2> QED
    BY <2>1, InUseHeld DEF Sound, IInv
<1> QED
  BY <1>1, <1>2, <1>3, PTL DEF Spec
=============================================================================
