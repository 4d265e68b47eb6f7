------------------------- MODULE MCApplicationManager -------------------------
(* Operations on one application that overlap; on two, one at a time, with     *)
(* clean restarts; and everything that may go wrong.                           *)
EXTENDS ApplicationManager

Refusals == {"refuse", "build"}

MCOverlapping == Setting(3, {CHOOSE p \in Paths : TRUE}, TRUE, Refusals, 1, 0)
MCOneByOne    == Setting(4, Paths, FALSE, Refusals, 0, 2)

MCSettings == {MCOverlapping, MCOneByOne}

MCFaults == { Setting(3, Paths, TRUE, Faults, 1, 1) }
=============================================================================
