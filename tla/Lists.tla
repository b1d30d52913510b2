--------------------------------- MODULE Lists ---------------------------------
(* Operations on lists that the modules of the browser share. *)
EXTENDS Naturals, Sequences

\* filter: the elements at some indices
Kept(list, at) ==
  LET kept[n \in 0..Len(list)] ==
        IF n = 0 THEN <<>>
        ELSE IF n \in at THEN Append(kept[n - 1], list[n]) ELSE kept[n - 1]
  IN  kept[Len(list)]

=============================================================================
