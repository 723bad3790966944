------------------------------- MODULE Filter -------------------------------
(* The loop that copies the elements of a slice that pass a test, as a      *)
(* recursive function, for folders, listings and address books alike.       *)
EXTENDS Naturals, Sequences, FiniteSets, SequencesExt

\* The elements of s that are in keep, in their order.
Only(s, keep) ==
    LET kept[i \in 0..Len(s)] ==
          IF i = 0 THEN <<>>
          ELSE IF s[i] \in keep THEN Append(kept[i - 1], s[i]) ELSE kept[i - 1]
    IN  kept[Len(s)]
=============================================================================
