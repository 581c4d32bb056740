------------------------------- MODULE Lists --------------------------------
(***************************************************************************)
(* Vec::retain, as a recursive function so that theorems can be proved     *)
(* about it.                                                               *)
(***************************************************************************)
EXTENDS Naturals, Sequences

\* The elements of s at the positions of K, in their order.
Picked(s, K) ==
  LET upTo[i \in 0..Len(s)] ==
        IF i = 0 THEN << >>
        ELSE IF i \in K THEN Append(upTo[i - 1], s[i]) ELSE upTo[i - 1]
  IN  upTo[Len(s)]
=============================================================================
