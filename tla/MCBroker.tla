------------------------------ MODULE MCBroker ------------------------------
(* The broker with a few alike workers and box names.                      *)
EXTENDS Broker, TLC

WorkersAreAlike == Permutations(Workers)
NamesAreAlike == Permutations(Names)
WorkersAndNamesAreAlike == WorkersAreAlike \cup NamesAreAlike
=============================================================================
