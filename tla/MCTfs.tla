------------------------------- MODULE MCTfs --------------------------------
(* Small instances of Tfs: names and bytes are model values.               *)
EXTENDS Tfs, TLC

CONSTANTS a, b, long, x, y

MCNames == {a, b, long}
MCLongNames == {long}

NamesAreAlike == Permutations({a, b})
NamesAndBytesAreAlike == Permutations({a, b}) \cup Permutations({x, y})
=============================================================================
