-------------------------------- MODULE Lists --------------------------------
(***************************************************************************)
(* What several components do with a list, written as recursive functions. *)
(***************************************************************************)
EXTENDS Integers, Sequences

(* Of a list, the elements that are in a set.                                *)
Only(list, S) ==
    LET kept[n \in 0..Len(list)] ==
            IF n = 0 THEN <<>>
            ELSE IF list[n] \in S THEN Append(kept[n - 1], list[n]) ELSE kept[n - 1]
    IN  kept[Len(list)]

=============================================================================
