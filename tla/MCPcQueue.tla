----------------------------- MODULE MCPcQueue ------------------------------
(* The broker's queue with one main thread and a few alike workers.        *)
EXTENDS PcQueue, TLC

WorkersAreAlike == Permutations(Poppers)
=============================================================================
