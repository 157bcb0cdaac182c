----------------------------- MODULE MCTfsLinks -----------------------------
(* Small instances of TfsLinks: names are model values.  a is eight bytes  *)
(* long and b one more: whichever a link leads to, its first eight bytes,  *)
(* which nothing terminates, may be read as either.                        *)
EXTENDS TfsLinks, TLC

CONSTANTS a, b, long

MCNames == {a, b, long}
MCLongNames == {long}
MCReadsAs == [n \in MCNames |-> IF n = long THEN {long} ELSE {a, b}]

NamesAreAlike == Permutations({a, b})
=============================================================================
