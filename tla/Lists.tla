------------------------------- MODULE Lists -------------------------------
(* What the linked lists of the component have in common beyond the          *)
(* operators on sequences.                                                   *)
EXTENDS SequencesExt

(* The list without the members of S: a walk that unlinks them, and leaves  *)
(* the others in their order.                                               *)
Without(list, S) ==
    LET kept[k \in 0..Len(list)] ==
            IF k = 0 THEN <<>>
            ELSE IF list[k] \in S THEN kept[k - 1]
            ELSE Append(kept[k - 1], list[k])
    IN  kept[Len(list)]

(* The first member of the list that is in S, which a walk along it finds.  *)
FirstOf(list, S, none) ==
    LET found == {i \in DOMAIN list : list[i] \in S}
    IN  IF found = {} THEN none ELSE list[Min(found)]
=============================================================================
