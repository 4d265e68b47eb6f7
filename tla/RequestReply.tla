------------------------------ MODULE RequestReply ------------------------------
(***************************************************************************)
(* What a flow that calls a child process may count on: its line is given   *)
(* to one process, at most once, and what it is answered, at most once, is  *)
(* what that process printed for it.  It may never be answered: a process   *)
(* that dies takes the lines it was given with it.                          *)
(***************************************************************************)
EXTENDS Naturals, Sequences

CONSTANT Requests

VARIABLES state,    \* of each request
          replies   \* the lines its consumer was called with, each named by the
                    \* request it was printed for

vars == <<state, replies>>

Init == /\ state = [r \in Requests |-> "new"]
        /\ replies = [r \in Requests |-> <<>>]

Becomes(r, from, to) == state[r] = from /\ state' = [state EXCEPT ![r] = to]

Ask(r)    == Becomes(r, "new", "waiting") /\ UNCHANGED replies
Refuse(r) == Becomes(r, "new", "refused") /\ UNCHANGED replies
Give(r)   == Becomes(r, "waiting", "given") /\ UNCHANGED replies

Answer(r) ==
    /\ state[r] = "given" /\ replies[r] = <<>>
    /\ replies' = [replies EXCEPT ![r] = <<r>>]
    /\ UNCHANGED state

Next == \E r \in Requests : Ask(r) \/ Refuse(r) \/ Give(r) \/ Answer(r)

Spec == Init /\ [][Next]_vars
=============================================================================
