--------------------------- MODULE MCProcessManager ---------------------------
(* One process and each way in which it may go, with and without a shutdown,  *)
(* one that nobody waits for, and two processes that share the requests; and   *)
(* pipes that are shorter than a line, which only that the reader reads keeps   *)
(* moving.                                                                  *)
EXTENDS ProcessManager

Two == CHOOSE R \in SUBSET Requests : Cardinality(R) = 2

MCSettings == {
    Setting(1, FALSE, 2, 0, {"die", "stderr"}, 2, Two),
    Setting(1, FALSE, 2, 0, {"deaf", "fail"}, 2, Two),
    Setting(1, FALSE, 2, 0, {"die", "shutdown"}, 0, Two),
    Setting(1, TRUE, 2, 1, {"die"}, 1, Two),
    Setting(2, FALSE, 2, 0, {"die"}, 0, Two),
    Setting(2, FALSE, 1, 0, {"shutdown"}, 0, Two),
    Setting(1, FALSE, 1, 0, {}, 0, Requests),
    Setting(1, FALSE, 2, 0, {"stderr"}, 0, Requests) }
=============================================================================
