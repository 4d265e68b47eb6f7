-------------------------- MODULE MCApplicationBuild --------------------------
(* No tests; two tests of which one has two cases; and three that pass or not. *)
EXTENDS ApplicationBuild

MCSettings == {
    Setting(<<>>, 2, Faults),
    Setting(<<2, 1>>, 1, Faults),
    Setting(<<3>>, 1, {"error"}),
    Setting(<<1, 1, 1>>, 1, {"wrong"}) }
=============================================================================
