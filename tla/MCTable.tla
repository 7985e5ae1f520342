------------------------------ MODULE MCTable ------------------------------
(* Instances of TableFrame: which games the tables of a room are for.      *)
EXTENDS TableFrame, TLC

UserSymmetry == Permutations(Users)

\* Every start mode, and a game that may be joined late beside the one on a clock.
MCConfigs ==
  {[mode |-> "ALL_READY",    join |-> FALSE, chairs |-> 3],
   [mode |-> "ALL_READY",    join |-> TRUE,  chairs |-> 4],
   [mode |-> "FULL_READY",   join |-> FALSE, chairs |-> 3],
   [mode |-> "PAIR_READY",   join |-> FALSE, chairs |-> 4],
   [mode |-> "TIME_CONTROL", join |-> TRUE,  chairs |-> 3]}

\* A game that starts when all are ready, which everyone may join.
JoinedConfigs == {[mode |-> "ALL_READY", join |-> TRUE, chairs |-> 4]}

\* A game for two.
PairConfigs == {[mode |-> "FULL_READY", join |-> FALSE, chairs |-> 2]}
=============================================================================
