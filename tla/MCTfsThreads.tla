---------------------------- MODULE MCTfsThreads ----------------------------
(* Two threads, two names: names are model values.                         *)
EXTENDS TfsThreads, TLC

CONSTANTS a, b

MCReadsAs == [n \in {a, b} |-> {n}]

MCNames == {a, b}

ThreadsAndNamesAreAlike == Permutations(Threads) \cup Permutations({a, b})
=============================================================================
