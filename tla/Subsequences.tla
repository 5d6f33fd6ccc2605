---------------------------- MODULE Subsequences ----------------------------
(***************************************************************************)
(* The loops of the program that keep some members of a list in order. The *)
(* members are given by the set of their positions, so that what a loop    *)
(* keeps can be proved for lists of any length.                            *)
(***************************************************************************)
EXTENDS Naturals, Sequences

\* Those of the numbers 1 .. n that are in the set, in ascending order.
Ascending(n, set) ==
  LET upTo[i \in 0 .. n] ==
        IF i = 0 THEN <<>> ELSE IF i \in set THEN Append(upTo[i - 1], i) ELSE upTo[i - 1]
  IN upTo[n]

\* The members of a list at these positions.
Subsequence(list, positions) ==
  LET kept == Ascending(Len(list), positions)
  IN [i \in DOMAIN kept |-> list[kept[i]]]
=============================================================================
