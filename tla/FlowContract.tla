---------------------------- MODULE FlowContract ----------------------------
(***************************************************************************)
(* What one run of a flow promises to whoever started it: an embedding      *)
(* flow, a test, an http request and a deployment all wait for the answer.  *)
(* Only errors may be answered more than once, one for each branch that     *)
(* fails, and only then operations may follow an answer.                    *)
(***************************************************************************)
EXTENDS Naturals, Sequences

VARIABLES executions,   \* how often each node was executed
          answers,      \* what the subscriber has been told
          faults        \* what may go wrong: "error", and "lost" for nobody is told

vars == <<executions, answers, faults>>

Executed == { n \in DOMAIN executions : executions[n] > 0 }

OnlyErrors == \A i \in DOMAIN answers : answers[i].kind = "error"

Init ==
    /\ answers = <<>>
    /\ \A n \in DOMAIN executions : executions[n] = 0
    /\ faults \subseteq {"error", "lost"}

\* an operation is executed once or not at all, and before the flow ends or halts
Execute ==
    /\ OnlyErrors
    /\ \E n \in DOMAIN executions :
          executions[n] = 0 /\ executions' = [executions EXCEPT ![n] = 1]
    /\ UNCHANGED <<answers, faults>>

Tell(kind, data) ==
    /\ answers' = Append(answers, [kind |-> kind, data |-> data])
    /\ UNCHANGED <<executions, faults>>

\* the answer has changes of executed operations only
Complete == answers = <<>> /\ \E data \in SUBSET Executed : Tell("ok", data)

Halt == answers = <<>> /\ Tell("halted", {})

Fail == "error" \in faults /\ OnlyErrors /\ Tell("error", {})

Next == Execute \/ Complete \/ Halt \/ Fail

Answer == answers = <<>> /\ "lost" \notin faults /\ (Complete \/ Halt \/ Fail)

\* what it promises of every step, and that it does not stop before it answers
Safety == Init /\ [][Next]_vars
Spec   == Safety /\ WF_vars(Answer)
=============================================================================
