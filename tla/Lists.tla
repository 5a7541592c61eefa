------------------------------- MODULE Lists --------------------------------
(***************************************************************************)
(* What the code does with a list: it drops one entry, filters it, and gets*)
(* rows in the order of their ids.                                         *)
(***************************************************************************)
EXTENDS Naturals, Sequences, FiniteSets

(* The entries of s but the i-th.                                          *)
Without(s, i) == [j \in 1 .. Len(s) - 1 |-> IF j < i THEN s[j] ELSE s[j + 1]]

(* The members of a finite set of numbers, the least one first.            *)
InOrder(S) ==
    [k \in 1 .. Cardinality(S) |-> CHOOSE a \in S : Cardinality({b \in S : b < a}) = k - 1]

(* A filter: the entries of s at the given places, picked up on the way.   *)
Kept(s, places) ==
    LET kept[i \in 0 .. Len(s)] ==
            IF i = 0 THEN <<>>
            ELSE IF i \in places THEN Append(kept[i - 1], s[i]) ELSE kept[i - 1]
    IN  kept[Len(s)]

=============================================================================
