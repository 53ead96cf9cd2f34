---------------------------- MODULE MCServices ------------------------------
(* A small instance of Services for TLC. *)
EXTENDS Services, TLC

Info(m, t, b, k) == [mask |-> m, type |-> t, base |-> b, multiplier |-> k]

SomeInfos == [keepout |-> {Info("m1", "keepout", 0, 1), Info("m2", "keepout", 0, 1)},
              speed |-> {Info("m1", "percent", 0, 1), Info("m1", "absolute", 0, 1),
                         Info("m2", "percent", 50, 1), Info("m2", "absolute", 40, -1),
                         Info("m2", "binary", 20, 1)},
              binary |-> {Info("m1", "binary", 0, 1), Info("m2", "binary", 0, 1),
                          Info("m1", "binary", 100, -1), Info("m2", "percent", 0, 1)}]

SomeMasks == [m1 |-> [c1 |-> 30, c2 |-> 0], m2 |-> [c1 |-> 60, c2 |-> -1]]

SomeSteps == {[dt |-> 1, dx |-> 1], [dt |-> 2, dx |-> -2]}

SomeAttitudes == {[yaw |-> 0, level |-> TRUE], [yaw |-> 3, level |-> FALSE]}
=============================================================================
