----------------------------- MODULE BuildContract -----------------------------
(***************************************************************************)
(* What ApplicationManager counts on when it waits for a build: the future  *)
(* is decided once, triggers are given their flows before that and not      *)
(* after, and a build that fails has given none of them its flow, unless a  *)
(* consumer of flows itself throws.                                         *)
(***************************************************************************)
EXTENDS Naturals

VARIABLES future,   \* "open", "ok" or "failed"
          given,    \* how many triggers have been given their flows
          triggers, \* ... of how many
          mayThrow  \* a consumer may throw

vars == <<future, given, triggers, mayThrow>>

Init == /\ future = "open" /\ given = 0
        /\ triggers \in Nat /\ mayThrow \in BOOLEAN

Give ==
    /\ future = "open" /\ given < triggers
    /\ given' = given + 1
    /\ UNCHANGED <<future, triggers, mayThrow>>

Succeed ==
    /\ future = "open" /\ given = triggers
    /\ future' = "ok"
    /\ UNCHANGED <<given, triggers, mayThrow>>

Fail ==
    /\ future = "open" /\ (given = 0 \/ mayThrow)
    /\ future' = "failed"
    /\ UNCHANGED <<given, triggers, mayThrow>>

Next == Give \/ Succeed \/ Fail

Spec == Init /\ [][Next]_vars
=============================================================================
