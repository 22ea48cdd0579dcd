---------------------------- MODULE MCTradeLearning ----------------------------
(* Small instances of TradeLearning for TLC. *)
EXTENDS TradeLearning

BothWays == { -1, 1 }
================================================================================
