---------------------------- MODULE MCSensing -------------------------------
(* A small instance of Sensing for TLC. *)
EXTENDS Sensing, TLC

LidarConfs ==
  {[type |-> "scan", keep |-> 0, rate |-> 1, marking |-> TRUE, clearing |-> TRUE],
   [type |-> "inf", keep |-> 1, rate |-> 1, marking |-> TRUE, clearing |-> TRUE],
   [type |-> "cloud", keep |-> 1, rate |-> 0, marking |-> TRUE, clearing |-> TRUE]}

\* a camera that marks and a lidar that clears
DecayConf ==
  [m |-> [keep |-> 1, rate |-> 1, marking |-> TRUE, clearing |-> FALSE, clearAfter |-> TRUE],
   c |-> [keep |-> 0, rate |-> 1, marking |-> FALSE, clearing |-> TRUE, clearAfter |-> FALSE]]

DecayShapes == [m |-> {{<<1, 1>>, <<1, 2>>, <<2, 1>>}}, c |-> {{<<1, 1>>}}]

SomeConfigs ==
  {[rolling |-> FALSE, filtered |-> TRUE, overwrite |-> FALSE, toggles |-> {"inflation"}],
   [rolling |-> FALSE, filtered |-> FALSE, overwrite |-> TRUE, toggles |-> {"static"}],
   [rolling |-> TRUE, filtered |-> FALSE, overwrite |-> FALSE, toggles |-> {"obstacle"}]}

OneMap == {[i \in 0..3 |-> IF i = 2 THEN 100 ELSE IF i = 0 THEN -1 ELSE 0]}
=============================================================================
